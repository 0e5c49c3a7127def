------------------------------ MODULE Reingest ------------------------------
(***************************************************************************)
(* services/knowledge-mcp/src/reingest.ts, ingest.ts and index.ts over     *)
(* KnowledgeStore: calls of reingest and ingest that overlap, a main       *)
(* branch that moves under them, boots that re-chunk, and crashes.         *)
(*                                                                         *)
(* JavaScript runs one handler at a time: an action is what runs between   *)
(* two awaits, and the awaits are the tree listing and each document's     *)
(* fetch.  GitHub is external: a listing and a fetch see main as it is     *)
(* when they are answered, or fail.                                        *)
(***************************************************************************)
EXTENDS KnowledgeStore, Sequences

CONSTANTS
  Callers,      \* calls that may be in progress at once
  Trees,        \* trees a push may leave on main
  Releases,     \* what may be deployed: an image's version, its registry's trust
  CanRollBack,  \* whether an older image may be deployed over a newer one
  MaxCommits,   \* bound: commits on main
  MaxRestarts   \* bound: crashes and severed drains

ASSUME ReingestConstants ==
  /\ Trees \subseteq Tree /\ Releases \subseteq [version : Versions, trust : Trusts]
  /\ CanRollBack \in BOOLEAN /\ MaxCommits \in Nat \ {0} /\ MaxRestarts \in Nat

VARIABLES
  main,      \* the trees of main's commits, in order
  process,   \* "down", "rechunking" before it listens, "up"
  version,   \* CHUNKER_VERSION of the image deployed last
  trust,     \* the corpus's trust in the registry of the process booted last
  stale,     \* documents rechunkIfStale has still to cut
  calls,     \* [Callers -> Call]
  restarts   \* bound

deployed == <<version, trust>>
vars == <<store, main, process, deployed, stale, calls, restarts>>

Tip == Len(main)
Listed(c) == {p \in Paths : main[c][p] # Absent}

(* commit is 0 for ingest.  alone is history: no other call was in         *)
(* progress at any time during this one.                                   *)
Call ==
  [phase : {"idle", "listed", "sweeping", "applying"}, commit : Nat, todo : SUBSET Paths,
   path : Paths \cup {Absent}, got : Contents \cup {Absent}, clean : BOOLEAN, alone : BOOLEAN]
Idle ==
  [phase |-> "idle", commit |-> 0, todo |-> {}, path |-> Absent, got |-> Absent,
   clean |-> TRUE, alone |-> FALSE]
Busy == {s \in Callers : calls[s] # Idle}
Running(s, phase) == process = "up" /\ calls[s].phase = phase

Init ==
  /\ StoreInit
  /\ main \in {<<t>> : t \in Trees}
  /\ process = "down" /\ version = 0 /\ trust = Absent /\ stale = {}
  /\ calls = [s \in Callers |-> Idle] /\ restarts = 0

Push(t) ==
  /\ Tip < MaxCommits /\ main[Tip] # t
  /\ main' = Append(main, t)
  /\ UNCHANGED <<store, process, deployed, stale, calls, restarts>>

(***************************************************************************)
(* A call.                                                                 *)
(***************************************************************************)
Starts(s, call) ==
  calls' = [t \in Callers |->
    IF t = s THEN [call EXCEPT !.alone = Busy = {}]
    ELSE IF t \in Busy THEN [calls[t] EXCEPT !.alone = FALSE] ELSE Idle]
Becomes(s, call) == calls' = [calls EXCEPT ![s] = call]
Outside == <<stamp, main, process, deployed, stale, restarts>>

(* The listing is answered; one that fails or is truncated ends the call.  *)
Lists(s) ==
  /\ Running(s, "idle")
  /\ Starts(s, [Idle EXCEPT !.phase = "listed", !.commit = Tip])
  /\ UNCHANGED <<docs, chunks, meta, Outside>>

Refuses_Never(wanted) == FALSE
Refuses_AnyLoss(wanted) == ~LiveDocs \subseteq wanted
Refuses(wanted) == wanted = {} /\ LiveDocs # {}

(* Without a document to fetch nothing is awaited before the end.          *)
Begins(s) ==
  /\ Running(s, "listed")
  /\ LET wanted == Listed(calls[s].commit)
     IN \/ /\ wanted # {} /\ ~Refuses(wanted)
           /\ Becomes(s, [calls[s] EXCEPT !.phase = "sweeping", !.todo = wanted])
           /\ UNCHANGED <<docs, chunks, meta>>
        \/ /\ Refuses(wanted)
           /\ Becomes(s, Idle)
           /\ UNCHANGED <<docs, chunks, meta>>
        \/ /\ wanted = {} /\ ~Refuses(wanted)
           /\ Tombstone(LiveDocs)
           /\ meta' = calls[s].commit
           /\ Becomes(s, Idle)
  /\ UNCHANGED Outside

(* Status 200; 404 is a failure like any other.                            *)
Found_Anything(p) == TRUE
Found(p) == main[Tip][p] # Absent
Fetched(s, p) == [calls[s] EXCEPT !.phase = "applying", !.path = p, !.got = main[Tip][p]]
Fetches(s, p) ==
  /\ Running(s, "sweeping") /\ p \in calls[s].todo
  /\ Found(p)
  /\ Becomes(s, Fetched(s, p))
  /\ UNCHANGED <<docs, chunks, meta, Outside>>

(* Not found, unreachable, too large, or forbidden: the sweep goes on.     *)
Missed_Uncounted(s, p) == [calls[s] EXCEPT !.todo = @ \ {p}]
Missed(s, p) == [calls[s] EXCEPT !.todo = @ \ {p}, !.clean = FALSE]
FetchFails(s, p) ==
  /\ Running(s, "sweeping") /\ p \in calls[s].todo
  /\ Becomes(s, Missed(s, p))
  /\ UNCHANGED <<docs, chunks, meta, Outside>>

(* The tool for one document: fetch, upsert, done.                         *)
IngestTool(s, p) ==
  /\ Running(s, "idle") /\ Found(p)
  /\ Starts(s, Fetched(s, p))
  /\ UNCHANGED <<docs, chunks, meta, Outside>>

Applied(s, call) ==
  IF call.commit = 0 THEN Idle
  ELSE [call EXCEPT !.phase = "sweeping", !.path = Absent, !.got = Absent]

Applies(s) ==
  /\ Running(s, "applying")
  /\ UpsertDoc(calls[s].path, calls[s].got, trust, version)
  /\ Becomes(s, Applied(s, [calls[s] EXCEPT !.todo = @ \ {calls[s].path}]))
  /\ UNCHANGED <<meta, Outside>>

(* The upsert throws (a full disk): nothing of it is written.              *)
ApplyFails(s) ==
  /\ Running(s, "applying")
  /\ Becomes(s, Applied(s, Missed(s, calls[s].path)))
  /\ UNCHANGED <<docs, chunks, meta, Outside>>

Vanished(s) == LiveDocs \ Listed(calls[s].commit)

Ends(s) ==
  /\ Running(s, "sweeping") /\ calls[s].todo = {}
  /\ Tombstone(Vanished(s))
  /\ meta' = IF calls[s].clean THEN calls[s].commit ELSE meta
  /\ Becomes(s, Idle)
  /\ UNCHANGED Outside

(* A write of the end throws: what came before it stays.                   *)
EndFails(s) ==
  /\ Running(s, "sweeping") /\ calls[s].todo = {}
  /\ \E done \in SUBSET Vanished(s) : Tombstone(done)
  /\ Becomes(s, Idle)
  /\ UNCHANGED <<meta, Outside>>

(***************************************************************************)
(* The process.                                                            *)
(***************************************************************************)
Boot(r) ==
  /\ process = "down" /\ (r.version >= version \/ CanRollBack)
  /\ version' = r.version /\ trust' = r.trust
  /\ IF stamp = r.version
     THEN process' = "up" /\ UNCHANGED stale
     ELSE process' = "rechunking" /\ stale' = LiveDocs
  /\ UNCHANGED <<store, main, calls, restarts>>

Rechunks(p) ==
  /\ process = "rechunking" /\ p \in stale
  /\ RechunkDoc(p, version)
  /\ stale' = stale \ {p}
  /\ UNCHANGED <<docs, stamp, meta, main, process, deployed, calls, restarts>>

Stamps_First ==
  /\ process = "rechunking" /\ (stamp # version \/ stale = {})
  /\ stamp' = version /\ process' = IF stale = {} THEN "up" ELSE process
  /\ UNCHANGED <<docs, chunks, meta, main, deployed, stale, calls, restarts>>
Stamps ==
  /\ process = "rechunking" /\ stale = {}
  /\ stamp' = version /\ process' = "up"
  /\ UNCHANGED <<docs, chunks, meta, main, deployed, stale, calls, restarts>>

(* SIGTERM gives calls in progress five seconds, then severs them too.     *)
Crash ==
  /\ process # "down" /\ restarts < MaxRestarts
  /\ process' = "down" /\ stale' = {} /\ calls' = [s \in Callers |-> Idle]
  /\ restarts' = restarts + 1
  /\ UNCHANGED <<store, main, deployed>>

Next ==
  \/ \E t \in Trees : Push(t)
  \/ \E s \in Callers :
       \/ Lists(s) \/ Begins(s) \/ Applies(s) \/ ApplyFails(s) \/ Ends(s) \/ EndFails(s)
       \/ \E p \in Paths : Fetches(s, p) \/ FetchFails(s, p) \/ IngestTool(s, p)
  \/ \E r \in Releases : Boot(r)
  \/ \E p \in Paths : Rechunks(p)
  \/ Stamps \/ Crash

Spec == Init /\ [][Next]_vars

(***************************************************************************)
(* Fairness.  The container is restarted and boots; a scheduled executor   *)
(* calls reingest again and again; every fetch is bounded by a timeout.    *)
(* GitHub and the disk do not fail one document for ever.                  *)
(***************************************************************************)
Fairness ==
  /\ WF_vars(\E r \in Releases : Boot(r))
  /\ WF_vars(\E p \in Paths : Rechunks(p)) /\ WF_vars(Stamps)
  /\ SF_vars(\E s \in Callers : Lists(s))
  /\ \A s \in Callers :
       /\ WF_vars(Begins(s)) /\ WF_vars(Applies(s) \/ ApplyFails(s)) /\ WF_vars(Ends(s) \/ EndFails(s))
       /\ WF_vars(\E p \in Paths : Fetches(s, p) \/ FetchFails(s, p))
  /\ \A p \in Paths :
       /\ SF_vars(\E s \in Callers : Fetches(s, p))
       /\ SF_vars(\E s \in Callers : calls[s].path = p /\ Applies(s))
  /\ SF_vars(\E s \in Callers : Ends(s))

FairSpec == Spec /\ Fairness

(***************************************************************************)
(* Properties.                                                             *)
(***************************************************************************)
TypeOK ==
  /\ docs \in [Paths -> Doc] /\ \A p \in LiveDocs : docs[p].content \in Contents
  /\ chunks \in [Paths -> Rows]
  /\ stamp \in Versions \cup {0} /\ meta \in 0..Tip
  /\ main \in Seq(Trees) /\ Tip \in 1..MaxCommits
  /\ process \in {"down", "rechunking", "up"} /\ version \in Versions \cup {0}
  /\ trust \in Trusts \cup {Absent} /\ stale \subseteq Paths /\ calls \in [Callers -> Call]
  /\ restarts \in 0..MaxRestarts

(* Doc row and chunks always agree (store.ts:99-100): a live document is   *)
(* indexed from exactly its content, a tombstoned one has no rows.  It     *)
(* holds in every state a crash can leave, between any two transactions.   *)
ChunksMatchDoc ==
  \A p \in Paths : chunks[p].content = IF docs[p].live THEN docs[p].content ELSE Absent

(* While calls are served, every live document is cut by the running       *)
(* chunker, so rows, chunk ids and neighbours agree with the code          *)
(* (index.ts:25-28), however often a boot was cut short in the middle of   *)
(* the re-chunk, and with documents a sweep adds in between.               *)
ServedRowsAreCurrent ==
  process = "up" => \A p \in LiveDocs : chunks[p].version = version

(* The index is what commit c of main holds, in the corpus's trust.        *)
Mirrors(c) ==
  \A p \in Paths :
    IF main[c][p] = Absent THEN ~docs[p].live ELSE docs[p] = Indexed(main[c][p], trust)

(* A sweep that had the corpus to itself and records the commit main is    *)
(* still at leaves the index equal to that commit: nothing missing,        *)
(* nothing left over, nothing of an older trust class (reingest.ts:120-135 *)
(* and store.ts:101-110).                                                  *)
UndisturbedSweepMirrorsMain ==
  [][\A s \in Callers :
       calls[s].alone /\ calls'[s] = Idle /\ meta' # meta /\ meta' = Tip
       => Mirrors(meta)']_vars

(* What the recorded commit says when nothing else is assumed: "must not   *)
(* claim a commit it never fully applied" (reingest.ts:130-132).           *)
RecordedCommitIsApplied == [][meta' # meta => Mirrors(meta)']_vars

(* A document leaves the index only in a sweep whose listing had documents *)
(* and not this one, and never because its fetch failed                    *)
(* (reingest.ts:83-88, 120-128).                                           *)
OnlyVanishedDocsLeave ==
  [][\A p \in LiveDocs : ~docs'[p].live =>
       \E s \in Callers :
         /\ calls[s].phase = "sweeping" /\ calls[s].todo = {}
         /\ p \notin Listed(calls[s].commit) /\ Listed(calls[s].commit) # {}]_vars

(* Once main stops moving and the process stops dying the index becomes    *)
(* main's tree, in the registry's trust, and stays so, although sweeps     *)
(* overlap, skip documents and fail ("the next run heal whatever failed",  *)
(* reingest.ts:112-115).  An empty tree is refused for ever.               *)
IndexCatchesUp == <>[](Listed(Tip) # {} => Mirrors(Tip))
=============================================================================
