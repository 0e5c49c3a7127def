--------------------------- MODULE ReingestProofs ---------------------------
(***************************************************************************)
(* Proofs about Reingest, for any documents, contents, trees, releases and *)
(* number of calls, and any order of their steps, of pushes, failures,     *)
(* crashes and boots.                                                      *)
(***************************************************************************)
EXTENDS Reingest, TLAPS

-----------------------------------------------------------------------------
(* The store's transactions.                                               *)
StoreTypeOK ==
  docs \in [Paths -> Doc] /\ chunks \in [Paths -> Rows] /\ stamp \in Versions \cup {0}

LiveDocsSaySomething == \A p \in Paths : docs[p].live => docs[p].content \in Contents

StoreInv == StoreTypeOK /\ LiveDocsSaySomething /\ ChunksMatchDoc

LEMMA DocFields ==
  ASSUME NEW d \in Doc
  PROVE  /\ d.live \in BOOLEAN /\ d.content \in Contents \cup {Absent}
         /\ d.trust \in Trusts \cup {Absent}
BY DEF Doc

LEMMA DocIsIndexed ==
  ASSUME NEW d \in Doc, NEW content \in Contents, NEW tr \in Trusts,
         d.live = TRUE, d.content = content, d.trust = tr
  PROVE  d = Indexed(content, tr)
BY DEF Doc, Indexed

LEMMA IndexedDocs ==
  ASSUME NEW content \in Contents, NEW tr \in Trusts
  PROVE  /\ Indexed(content, tr) \in Doc /\ Indexed(content, tr).live
         /\ Indexed(content, tr).content = content
BY DEF Doc, Indexed

LEMMA RowsAreRows ==
  ASSUME NEW content \in Contents \cup {Absent}, NEW v \in Versions
  PROVE  /\ Chunked(content, v) \in Rows /\ Chunked(content, v).content = content
         /\ Chunked(content, v).version = v
BY DEF Chunked, Rows

LEMMA NoRowsAreRows == NoRows \in Rows /\ NoRows.content = Absent
BY DEF NoRows, Rows

LEMMA LiveDocsArePaths == LiveDocs \subseteq Paths /\ \A p \in LiveDocs : docs[p].live
BY DEF LiveDocs

(* An upsert makes the document live and indexed from the content, whether *)
(* it cut it anew or found it unchanged.                                   *)
LEMMA UpsertFacts ==
  ASSUME StoreInv, UNCHANGED stamp, NEW p \in Paths, NEW content \in Contents,
         NEW tr \in Trusts, NEW v \in Versions, UpsertDoc(p, content, tr, v)
  PROVE  /\ StoreInv' /\ docs'[p] = Indexed(content, tr)
         /\ \A q \in Paths \ {p} : docs'[q] = docs[q] /\ chunks'[q] = chunks[q]
         /\ chunks'[p].version = v \/ (docs[p].live /\ chunks'[p] = chunks[p])
<1>1. CASE Unchanged(p, content)
  <2>1. docs' = [docs EXCEPT ![p].trust = tr] /\ UNCHANGED chunks
    BY <1>1 DEF UpsertDoc
  <2>2. docs[p] \in Doc /\ docs[p].live /\ docs[p].content = content
    BY <1>1 DEF StoreInv, StoreTypeOK, Unchanged
  <2> DEFINE d == [docs[p] EXCEPT !.trust = tr]
  <2>3. d \in Doc /\ d.live = TRUE /\ d.content = content /\ d.trust = tr
    BY <2>2 DEF Doc
  <2>4. [docs[p] EXCEPT !.trust = tr] = Indexed(content, tr)
    BY <2>3, DocIsIndexed
  <2>5. docs'[p] = Indexed(content, tr) /\ \A q \in Paths \ {p} : docs'[q] = docs[q]
    BY <2>1, <2>4 DEF StoreInv, StoreTypeOK
  <2>6. docs' = [docs EXCEPT ![p] = Indexed(content, tr)]
    BY <2>1, <2>4 DEF StoreInv, StoreTypeOK
  <2>7. StoreTypeOK'
    BY <2>1, <2>6, IndexedDocs DEF StoreInv, StoreTypeOK
  <2>8. ChunksMatchDoc'
    BY <2>1, <2>2, <2>5, IndexedDocs DEF StoreInv, ChunksMatchDoc
  <2>9. LiveDocsSaySomething'
    BY <2>5, IndexedDocs DEF StoreInv, LiveDocsSaySomething
  <2>10. QED
    BY <2>1, <2>2, <2>5, <2>7, <2>8, <2>9 DEF StoreInv
<1>2. CASE ~Unchanged(p, content)
  <2>1. /\ docs' = [docs EXCEPT ![p] = Indexed(content, tr)]
        /\ chunks' = [chunks EXCEPT ![p] = Chunked(content, v)]
    BY <1>2 DEF UpsertDoc
  <2>2. /\ docs'[p] = Indexed(content, tr) /\ chunks'[p] = Chunked(content, v)
        /\ \A q \in Paths \ {p} : docs'[q] = docs[q] /\ chunks'[q] = chunks[q]
    BY <2>1 DEF StoreInv, StoreTypeOK
  <2>3. StoreTypeOK'
    BY <2>1, IndexedDocs, RowsAreRows DEF StoreInv, StoreTypeOK
  <2>4. /\ docs'[p].live /\ docs'[p].content = content /\ chunks'[p].content = content
        /\ chunks'[p].version = v
    BY <2>2, IndexedDocs, RowsAreRows
  <2>5. ChunksMatchDoc'
    <3>1. SUFFICES ASSUME NEW q \in Paths
                   PROVE  chunks'[q].content = IF docs'[q].live THEN docs'[q].content ELSE Absent
      BY DEF ChunksMatchDoc
    <3>2. CASE q = p
      BY <2>4, <3>2
    <3>3. CASE q # p
      BY <2>2, <3>3 DEF StoreInv, ChunksMatchDoc
    <3>4. QED
      BY <3>2, <3>3
  <2>6. LiveDocsSaySomething'
    BY <2>2, <2>4 DEF StoreInv, LiveDocsSaySomething
  <2>7. StoreInv'
    BY <2>3, <2>5, <2>6 DEF StoreInv
  <2>8. QED
    BY <2>2, <2>4, <2>7
<1>3. QED
  BY <1>1, <1>2

LEMMA TombstoneFacts ==
  ASSUME StoreInv, UNCHANGED stamp, NEW ps \in SUBSET LiveDocs, Tombstone(ps)
  PROVE  /\ StoreInv' /\ \A p \in ps : ~docs'[p].live
         /\ \A q \in Paths \ ps : docs'[q] = docs[q] /\ chunks'[q] = chunks[q]
<1>1. /\ docs' = [p \in Paths |-> IF p \in ps THEN [docs[p] EXCEPT !.live = FALSE] ELSE docs[p]]
      /\ chunks' = [p \in Paths |-> IF p \in ps THEN NoRows ELSE chunks[p]]
  BY DEF Tombstone
<1>2. ASSUME NEW p \in ps
      PROVE  [docs[p] EXCEPT !.live = FALSE] \in Doc /\ ~[docs[p] EXCEPT !.live = FALSE].live
  <2>1. docs[p] \in Doc
    BY LiveDocsArePaths DEF StoreInv, StoreTypeOK
  <2>2. QED
    BY <2>1 DEF Doc
<1>3. /\ \A p \in ps : p \in Paths /\ ~docs'[p].live /\ chunks'[p] = NoRows
      /\ \A q \in Paths \ ps : docs'[q] = docs[q] /\ chunks'[q] = chunks[q]
  BY <1>1, <1>2, LiveDocsArePaths
<1>4. StoreTypeOK'
  BY <1>1, <1>2, NoRowsAreRows DEF StoreInv, StoreTypeOK
<1>5. ChunksMatchDoc'
  BY <1>3, NoRowsAreRows DEF StoreInv, ChunksMatchDoc
<1>6. LiveDocsSaySomething'
  BY <1>3 DEF StoreInv, LiveDocsSaySomething
<1>7. QED
  BY <1>3, <1>4, <1>5, <1>6 DEF StoreInv

LEMMA RechunkFacts ==
  ASSUME StoreInv, UNCHANGED <<docs, stamp>>, NEW p \in LiveDocs, NEW v \in Versions,
         RechunkDoc(p, v)
  PROVE  /\ StoreInv' /\ chunks'[p].version = v
         /\ \A q \in Paths \ {p} : chunks'[q] = chunks[q]
<1>1. p \in Paths /\ docs[p].live /\ docs[p].content \in Contents \cup {Absent}
  BY LiveDocsArePaths, DocFields DEF StoreInv, StoreTypeOK
<1>2. chunks' = [chunks EXCEPT ![p] = Chunked(docs[p].content, v)]
  BY DEF RechunkDoc
<1>3. chunks'[p] = Chunked(docs[p].content, v) /\ \A q \in Paths \ {p} : chunks'[q] = chunks[q]
  BY <1>1, <1>2 DEF StoreInv, StoreTypeOK
<1>4. StoreTypeOK'
  BY <1>1, <1>2, RowsAreRows DEF StoreInv, StoreTypeOK
<1>5. ChunksMatchDoc'
  BY <1>1, <1>3, RowsAreRows DEF StoreInv, ChunksMatchDoc
<1>6. LiveDocsSaySomething'
  BY DEF StoreInv, LiveDocsSaySomething
<1>7. QED
  BY <1>1, <1>3, <1>4, <1>5, <1>6, RowsAreRows DEF StoreInv

-----------------------------------------------------------------------------
(* Inv is inductive.  A call carries a commit of main whose tree has       *)
(* documents once it sweeps; calls live only while the process serves; and *)
(* what is still to be cut is live.                                        *)
CallOK(c) ==
  /\ c \in Call /\ c.commit \in 0..Tip
  /\ c.phase = "idle" => c.commit = 0
  /\ c.phase \in {"listed", "sweeping"} => c.commit # 0
  /\ c.phase = "applying" => c.path \in Paths /\ c.got \in Contents
  /\ c.phase \in {"sweeping", "applying"} /\ c.commit # 0 => Listed(c.commit) # {}

MainOK == main \in Seq(Trees) /\ Tip \in 1..MaxCommits /\ meta \in 0..Tip
CallsOK == calls \in [Callers -> Call] /\ \A s \in Callers : CallOK(calls[s])
ProcessOK ==
  /\ process \in {"down", "rechunking", "up"} /\ restarts \in 0..MaxRestarts
  /\ version \in Versions \cup {0} /\ trust \in Trusts \cup {Absent} /\ stale \subseteq Paths
  /\ process # "down" => version \in Versions /\ trust \in Trusts
  /\ process = "rechunking" => stale \subseteq LiveDocs
  /\ process # "up" => \A s \in Callers : calls[s] = Idle

Inv == StoreInv /\ MainOK /\ CallsOK /\ ProcessOK

LEMMA TreesOfMain ==
  ASSUME MainOK, NEW c \in 1..Tip, NEW p \in Paths
  PROVE  main[c][p] \in Contents \cup {Absent} /\ Tip \in Nat
BY ReingestConstants DEF MainOK, Tree, Tip

LEMMA IdleOK == MainOK => Idle \in Call /\ CallOK(Idle) /\ Idle.phase = "idle" /\ ~Idle.alone
  /\ Idle.commit = 0
BY ReingestConstants DEF MainOK, Idle, Call, CallOK

LEMMA StartsFacts ==
  ASSUME CallsOK, MainOK, NEW s \in Callers, NEW c, CallOK(c), Starts(s, c), UNCHANGED <<main, meta>>
  PROVE  /\ CallsOK' /\ calls'[s] = [c EXCEPT !.alone = Busy = {}]
         /\ \A t \in Callers \ {s} : calls'[t] = Idle \/ (t \in Busy /\ ~calls'[t].alone)
<1> DEFINE a == Busy = {}
           d == [c EXCEPT !.alone = a]
<1>1. /\ calls' = [t \in Callers |->
           IF t = s THEN d ELSE IF t \in Busy THEN [calls[t] EXCEPT !.alone = FALSE] ELSE Idle]
  BY DEF Starts
<1>2. a \in BOOLEAN
  OBVIOUS
<1> HIDE DEF a
<1>3. d \in Call /\ CallOK(d)
  BY <1>2 DEF CallOK, Call
<1> HIDE DEF d
<1>4. ASSUME NEW t \in Callers
      PROVE  /\ [calls[t] EXCEPT !.alone = FALSE] \in Call /\ CallOK([calls[t] EXCEPT !.alone = FALSE])
             /\ ~[calls[t] EXCEPT !.alone = FALSE].alone
  BY DEF CallsOK, CallOK, Call
<1>5. \A t \in Callers : calls'[t] \in Call /\ CallOK(calls'[t])
  BY <1>1, <1>3, <1>4, IdleOK
<1>6. calls' \in [Callers -> Call]
  BY <1>1, <1>5
<1>7. \A t \in Callers : CallOK(calls[t])'
  BY <1>5 DEF CallOK, Tip, Listed
<1>8. \A t \in Callers \ {s} : calls'[t] = Idle \/ (t \in Busy /\ ~calls'[t].alone)
  BY <1>1, <1>4
<1>9. QED
  BY <1>1, <1>6, <1>7, <1>8 DEF CallsOK, d, a

LEMMA BecomesFacts ==
  ASSUME CallsOK, NEW s \in Callers, NEW c, CallOK(c), Becomes(s, c), UNCHANGED main
  PROVE  CallsOK' /\ calls'[s] = c /\ \A t \in Callers \ {s} : calls'[t] = calls[t]
<1>1. c \in Call /\ calls' = [calls EXCEPT ![s] = c]
  BY DEF CallOK, Becomes
<1>2. /\ calls' \in [Callers -> Call] /\ calls'[s] = c
      /\ \A t \in Callers \ {s} : calls'[t] = calls[t]
  BY <1>1 DEF CallsOK
<1>3. \A t \in Callers : CallOK(calls'[t])
  BY <1>2 DEF CallsOK
<1>4. \A t \in Callers : CallOK(calls[t])'
  BY <1>3 DEF CallOK, Tip, Listed
<1>5. QED
  BY <1>2, <1>4 DEF CallsOK

(* What a handler of an up process leaves alone. *)
LEMMA ServingKeeps ==
  ASSUME Inv, process = "up", UNCHANGED <<main, process, deployed, stale, restarts>>,
         StoreInv', CallsOK', meta' \in 0..Tip
  PROVE  Inv'
<1>1. MainOK'
  BY DEF Inv, MainOK, Tip
<1>2. ProcessOK'
  BY DEF Inv, ProcessOK, deployed
<1>3. QED
  BY <1>1, <1>2 DEF Inv

LEMMA StoreKeeps ==
  ASSUME StoreInv, UNCHANGED <<docs, chunks, stamp>>
  PROVE  StoreInv'
BY DEF StoreInv, StoreTypeOK, LiveDocsSaySomething, ChunksMatchDoc

LEMMA MetaTyped == ASSUME Inv PROVE meta \in 0..Tip
BY DEF Inv, MainOK

(* What the handlers make of a call. *)
LEMMA ListedCall ==
  ASSUME Inv
  PROVE  CallOK([Idle EXCEPT !.phase = "listed", !.commit = Tip])
<1>1. Tip \in Nat /\ Tip # 0 /\ Tip \in 0..Tip /\ Idle \in Call
  BY IdleOK, ReingestConstants DEF Inv, MainOK
<1> DEFINE c == [Idle EXCEPT !.phase = "listed", !.commit = Tip]
<1>2. c \in Call /\ c.phase = "listed" /\ c.commit = Tip
  BY <1>1 DEF Call
<1> HIDE DEF c
<1>3. CallOK(c)
  BY <1>1, <1>2 DEF CallOK
<1>4. QED
  BY <1>3 DEF c

LEMMA SweepingCall ==
  ASSUME Inv, NEW s \in Callers, calls[s].phase = "listed",
         NEW todo, todo = Listed(calls[s].commit), todo # {}
  PROVE  CallOK([calls[s] EXCEPT !.phase = "sweeping", !.todo = todo])
<1>1. calls[s] \in Call /\ CallOK(calls[s]) /\ todo \in SUBSET Paths
  BY DEF Inv, CallsOK, Listed
<1> DEFINE c == [calls[s] EXCEPT !.phase = "sweeping", !.todo = todo]
<1>2. c \in Call /\ c.phase = "sweeping" /\ c.commit = calls[s].commit
  BY <1>1 DEF Call
<1> HIDE DEF c
<1>3. CallOK(c)
  BY <1>1, <1>2 DEF CallOK
<1>4. QED
  BY <1>3 DEF c

LEMMA FetchedCall ==
  ASSUME Inv, NEW s \in Callers, NEW p \in Paths, Found(p),
         calls[s].phase \in {"idle", "sweeping"}
  PROVE  /\ CallOK(Fetched(s, p)) /\ Fetched(s, p).commit = calls[s].commit
         /\ Fetched(s, p).phase = "applying" /\ Fetched(s, p).got = main[Tip][p]
         /\ Fetched(s, p).path = p /\ Fetched(s, p).todo = calls[s].todo
         /\ Fetched(s, p).clean = calls[s].clean /\ Fetched(s, p).alone = calls[s].alone
<1>1. calls[s] \in Call /\ CallOK(calls[s]) /\ Tip \in 1..Tip
  BY ReingestConstants DEF Inv, MainOK, CallsOK
<1>2. main[Tip][p] \in Contents
  BY <1>1, TreesOfMain DEF Inv, Found
<1> DEFINE g == main[Tip][p]
           c == [calls[s] EXCEPT !.phase = "applying", !.path = p, !.got = g]
<1>3. g \in Contents
  BY <1>2
<1> HIDE DEF g
<1>4. /\ c \in Call /\ c.phase = "applying" /\ c.path = p /\ c.got = g
      /\ c.commit = calls[s].commit /\ c.todo = calls[s].todo /\ c.clean = calls[s].clean
      /\ c.alone = calls[s].alone
  BY <1>1, <1>3 DEF Call
<1> HIDE DEF c
<1>5. CallOK(c)
  BY <1>1, <1>3, <1>4 DEF CallOK
<1>6. QED
  BY <1>4, <1>5 DEF c, g, Fetched

LEMMA MissedCall ==
  ASSUME Inv, NEW s \in Callers, NEW p
  PROVE  /\ CallOK(Missed(s, p)) /\ Missed(s, p).commit = calls[s].commit
         /\ Missed(s, p).phase = calls[s].phase /\ ~Missed(s, p).clean
         /\ Missed(s, p).alone = calls[s].alone
<1>1. calls[s] \in Call /\ CallOK(calls[s])
  BY DEF Inv, CallsOK
<1> DEFINE c == Missed(s, p)
<1>2. /\ c \in Call /\ c.phase = calls[s].phase /\ c.path = calls[s].path /\ c.got = calls[s].got
      /\ c.commit = calls[s].commit /\ ~c.clean /\ c.alone = calls[s].alone
  BY <1>1 DEF Call, Missed
<1> HIDE DEF c
<1>3. CallOK(c)
  BY <1>1, <1>2 DEF CallOK
<1>4. QED
  BY <1>2, <1>3 DEF c

LEMMA AppliedCall ==
  ASSUME Inv, NEW s, NEW c, CallOK(c), c.phase = "applying"
  PROVE  /\ CallOK(Applied(s, c))
         /\ c.commit = 0 => Applied(s, c) = Idle
         /\ c.commit # 0 =>
              /\ Applied(s, c).phase = "sweeping" /\ Applied(s, c).commit = c.commit
              /\ Applied(s, c).todo = c.todo /\ Applied(s, c).clean = c.clean
              /\ Applied(s, c).alone = c.alone
<1>1. CASE c.commit = 0
  BY <1>1, IdleOK DEF Inv, Applied
<1>2. CASE c.commit # 0
  <2> DEFINE d == [c EXCEPT !.phase = "sweeping", !.path = Absent, !.got = Absent]
  <2>1. /\ d \in Call /\ d.phase = "sweeping" /\ d.commit = c.commit /\ d.todo = c.todo
        /\ d.clean = c.clean /\ d.alone = c.alone
    BY DEF Call, CallOK
  <2>2. Applied(s, c) = d
    BY <1>2 DEF Applied
  <2> HIDE DEF d
  <2>3. CallOK(d)
    BY <1>2, <2>1 DEF CallOK
  <2>4. QED
    BY <1>2, <2>1, <2>2, <2>3
<1>3. QED
  BY <1>1, <1>2

LEMMA DoneCall ==
  ASSUME Inv, NEW s \in Callers, calls[s].phase = "applying"
  PROVE  LET c == [calls[s] EXCEPT !.todo = @ \ {calls[s].path}]
         IN /\ CallOK(c) /\ c.phase = "applying" /\ c.commit = calls[s].commit
            /\ c.todo = calls[s].todo \ {calls[s].path} /\ c.clean = calls[s].clean
            /\ c.alone = calls[s].alone
<1>1. calls[s] \in Call /\ CallOK(calls[s])
  BY DEF Inv, CallsOK
<1> DEFINE c == [calls[s] EXCEPT !.todo = @ \ {calls[s].path}]
<1>2. /\ c \in Call /\ c.phase = calls[s].phase /\ c.path = calls[s].path /\ c.got = calls[s].got
      /\ c.commit = calls[s].commit /\ c.todo = calls[s].todo \ {calls[s].path}
      /\ c.clean = calls[s].clean /\ c.alone = calls[s].alone
  BY <1>1 DEF Call
<1> HIDE DEF c
<1>3. CallOK(c)
  BY <1>1, <1>2 DEF CallOK
<1>4. QED
  BY <1>2, <1>3 DEF c

-----------------------------------------------------------------------------
(* Every step keeps Inv. *)
LEMMA PushInv ==
  ASSUME Inv, NEW t \in Trees, Push(t)
  PROVE  Inv'
<1>1. /\ Tip < MaxCommits /\ main' = Append(main, t)
      /\ UNCHANGED <<docs, chunks, stamp, meta, process, version, trust, stale, calls, restarts>>
  BY DEF Push, store, deployed
<1>2. main \in Seq(Trees) /\ Tip \in Nat /\ Tip # 0 /\ MaxCommits \in Nat /\ Len(main) = Tip
  BY ReingestConstants DEF Inv, MainOK, Tip
<1>3. main' \in Seq(Trees) /\ Tip' = Tip + 1 /\ \A c \in 1..Tip : main'[c] = main[c]
  BY <1>1, <1>2 DEF Tip
<1>4. MainOK'
  BY <1>1, <1>2, <1>3 DEF Inv, MainOK
<1>5. ASSUME NEW s \in Callers PROVE CallOK(calls[s])'
  <2>1. CallOK(calls[s]) /\ calls'[s] = calls[s]
    BY <1>1 DEF Inv, CallsOK
  <2>2. calls[s].commit \in 0..Tip'
    BY <1>2, <1>3, <2>1 DEF CallOK
  <2>3. calls[s].commit # 0 => main'[calls'[s].commit] = main[calls[s].commit]
    BY <1>2, <1>3, <2>1 DEF CallOK
  <2>4. calls[s].commit # 0 => Listed(calls[s].commit)' = Listed(calls[s].commit)
    BY <2>3 DEF Listed
  <2>5. QED
    BY <2>1, <2>2, <2>4 DEF CallOK
<1>6. CallsOK'
  BY <1>1, <1>5 DEF Inv, CallsOK
<1>7. ProcessOK'
  BY <1>1 DEF Inv, ProcessOK, LiveDocs
<1>8. StoreInv'
  BY <1>1, StoreKeeps DEF Inv
<1>9. QED
  BY <1>4, <1>6, <1>7, <1>8 DEF Inv

LEMMA ListsInv ==
  ASSUME Inv, NEW s \in Callers, Lists(s)
  PROVE  Inv'
<1>1. /\ process = "up" /\ Starts(s, [Idle EXCEPT !.phase = "listed", !.commit = Tip])
      /\ UNCHANGED <<docs, chunks, meta, stamp, main, process, deployed, stale, restarts>>
  BY DEF Lists, Running, Outside
<1>2. CallsOK'
  BY <1>1, ListedCall, StartsFacts DEF Inv
<1>3. StoreInv' /\ meta' \in 0..Tip
  BY <1>1, StoreKeeps, MetaTyped DEF Inv
<1>4. QED
  BY <1>1, <1>2, <1>3, ServingKeeps

LEMMA BeginsInv ==
  ASSUME Inv, NEW s \in Callers, Begins(s)
  PROVE  Inv'
<1> DEFINE wanted == Listed(calls[s].commit)
<1>1. /\ process = "up" /\ calls[s].phase = "listed"
      /\ UNCHANGED <<stamp, main, process, deployed, stale, restarts>>
      /\ \/ /\ wanted # {} /\ ~Refuses(wanted)
            /\ Becomes(s, [calls[s] EXCEPT !.phase = "sweeping", !.todo = wanted])
            /\ UNCHANGED <<docs, chunks, meta>>
         \/ /\ Refuses(wanted)
            /\ Becomes(s, Idle)
            /\ UNCHANGED <<docs, chunks, meta>>
         \/ /\ wanted = {} /\ ~Refuses(wanted)
            /\ Tombstone(LiveDocs)
            /\ meta' = calls[s].commit
            /\ Becomes(s, Idle)
  BY DEF Begins, Running, Outside
<1> HIDE DEF wanted
<1>2. CallsOK'
  <2>1. CASE wanted # {} /\ Becomes(s, [calls[s] EXCEPT !.phase = "sweeping", !.todo = wanted])
    BY <1>1, <2>1, SweepingCall, BecomesFacts DEF Inv, wanted
  <2>2. CASE Becomes(s, Idle)
    BY <1>1, <2>2, IdleOK, BecomesFacts DEF Inv
  <2>3. QED
    BY <1>1, <2>1, <2>2
<1>3. StoreInv'
  BY <1>1, StoreKeeps, TombstoneFacts, LiveDocs \in SUBSET LiveDocs DEF Inv
<1>4. meta' \in 0..Tip
  BY <1>1, MetaTyped DEF Inv, CallsOK, CallOK
<1>5. QED
  BY <1>1, <1>2, <1>3, <1>4, ServingKeeps

LEMMA FetchesInv ==
  ASSUME Inv, NEW s \in Callers, NEW p \in Paths,
         Fetches(s, p) \/ FetchFails(s, p) \/ IngestTool(s, p)
  PROVE  Inv'
<1>1. /\ process = "up"
      /\ UNCHANGED <<docs, chunks, meta, stamp, main, process, deployed, stale, restarts>>
  BY DEF Fetches, FetchFails, IngestTool, Running, Outside
<1>2. CallsOK'
  <2>1. CASE Fetches(s, p)
    BY <1>1, <2>1, FetchedCall, BecomesFacts DEF Inv, Fetches, Running
  <2>2. CASE FetchFails(s, p)
    BY <1>1, <2>2, MissedCall, BecomesFacts DEF Inv, FetchFails
  <2>3. CASE IngestTool(s, p)
    BY <1>1, <2>3, FetchedCall, StartsFacts DEF Inv, IngestTool, Running
  <2>4. QED
    BY <2>1, <2>2, <2>3
<1>3. StoreInv' /\ meta' \in 0..Tip
  BY <1>1, StoreKeeps, MetaTyped DEF Inv
<1>4. QED
  BY <1>1, <1>2, <1>3, ServingKeeps

LEMMA AppliesInv ==
  ASSUME Inv, NEW s \in Callers, Applies(s) \/ ApplyFails(s)
  PROVE  Inv'
<1>1. /\ process = "up" /\ calls[s].phase = "applying" /\ meta' = meta
      /\ UNCHANGED <<stamp, main, process, deployed, stale, restarts>>
  BY DEF Applies, ApplyFails, Running, Outside
<1>2. /\ calls[s].path \in Paths /\ calls[s].got \in Contents
      /\ trust \in Trusts /\ version \in Versions
  BY <1>1, "up" # "down" DEF Inv, CallsOK, CallOK, ProcessOK
<1>3. CASE Applies(s)
  <2>1. StoreInv'
    BY <1>1, <1>2, <1>3, UpsertFacts DEF Inv, Applies
  <2>2. CallsOK'
    BY <1>1, <1>3, DoneCall, AppliedCall, BecomesFacts DEF Inv, Applies
  <2>3. QED
    BY <1>1, <2>1, <2>2, MetaTyped, ServingKeeps
<1>4. CASE ApplyFails(s)
  <2>1. StoreInv'
    BY <1>1, <1>4, StoreKeeps DEF Inv, ApplyFails
  <2>2. CallsOK'
    BY <1>1, <1>4, MissedCall, AppliedCall, BecomesFacts DEF Inv, ApplyFails
  <2>3. QED
    BY <1>1, <2>1, <2>2, MetaTyped, ServingKeeps
<1>5. QED
  BY <1>3, <1>4

LEMMA EndsInv ==
  ASSUME Inv, NEW s \in Callers, Ends(s) \/ EndFails(s)
  PROVE  Inv'
<1>1. /\ process = "up" /\ calls[s].phase = "sweeping" /\ Becomes(s, Idle)
      /\ \E ps \in SUBSET LiveDocs : Tombstone(ps)
      /\ meta' = meta \/ meta' = calls[s].commit
      /\ UNCHANGED <<stamp, main, process, deployed, stale, restarts>>
  BY DEF Ends, EndFails, Running, Outside, Vanished
<1>2. CallsOK'
  BY <1>1, IdleOK, BecomesFacts DEF Inv
<1>3. StoreInv'
  BY <1>1, TombstoneFacts DEF Inv
<1>4. meta' \in 0..Tip
  BY <1>1, MetaTyped DEF Inv, CallsOK, CallOK
<1>5. QED
  BY <1>1, <1>2, <1>3, <1>4, ServingKeeps

LEMMA BootInv ==
  ASSUME Inv, NEW r \in Releases, Boot(r)
  PROVE  Inv'
<1>1. /\ process = "down" /\ version' = r.version /\ trust' = r.trust
      /\ \/ process' = "up" /\ stale' = stale
         \/ process' = "rechunking" /\ stale' = LiveDocs
      /\ UNCHANGED <<docs, chunks, stamp, meta, main, calls, restarts>>
  BY DEF Boot, store
<1>2. r.version \in Versions /\ r.trust \in Trusts
  BY ReingestConstants
<1>3. LiveDocs' = LiveDocs
  BY <1>1 DEF LiveDocs
<1>4. MainOK' /\ StoreInv' /\ CallsOK'
  BY <1>1, StoreKeeps DEF Inv, MainOK, CallsOK, CallOK, Tip, Listed
<1>5. ProcessOK'
  BY <1>1, <1>2, <1>3, LiveDocsArePaths, "down" # "up" DEF Inv, ProcessOK
<1>6. QED
  BY <1>4, <1>5 DEF Inv

LEMMA RechunksInv ==
  ASSUME Inv, NEW p \in Paths, Rechunks(p)
  PROVE  Inv'
<1>1. /\ process = "rechunking" /\ p \in stale /\ RechunkDoc(p, version) /\ stale' = stale \ {p}
      /\ UNCHANGED <<docs, stamp, meta, main, process, version, trust, calls, restarts>>
  BY DEF Rechunks, deployed
<1>2. p \in LiveDocs /\ version \in Versions
  BY <1>1, "rechunking" # "down" DEF Inv, ProcessOK
<1>3. StoreInv'
  BY <1>1, <1>2, RechunkFacts DEF Inv
<1>4. MainOK' /\ CallsOK'
  BY <1>1 DEF Inv, MainOK, CallsOK, CallOK, Tip, Listed
<1>5. ProcessOK'
  BY <1>1 DEF Inv, ProcessOK, LiveDocs
<1>6. QED
  BY <1>3, <1>4, <1>5 DEF Inv

LEMMA StampsInv ==
  ASSUME Inv, Stamps
  PROVE  Inv'
<1>1. /\ process = "rechunking" /\ stamp' = version /\ process' = "up"
      /\ UNCHANGED <<docs, chunks, meta, main, version, trust, stale, calls, restarts>>
  BY DEF Stamps, deployed
<1>2. StoreInv'
  BY <1>1 DEF Inv, StoreInv, StoreTypeOK, LiveDocsSaySomething, ChunksMatchDoc, ProcessOK
<1>3. MainOK' /\ CallsOK'
  BY <1>1 DEF Inv, MainOK, CallsOK, CallOK, Tip, Listed
<1>4. ProcessOK'
  BY <1>1, "rechunking" # "down" DEF Inv, ProcessOK
<1>5. QED
  BY <1>2, <1>3, <1>4 DEF Inv

LEMMA CrashInv ==
  ASSUME Inv, Crash
  PROVE  Inv'
<1>1. /\ process' = "down" /\ stale' = {} /\ calls' = [s \in Callers |-> Idle]
      /\ restarts < MaxRestarts /\ restarts' = restarts + 1
      /\ UNCHANGED <<docs, chunks, stamp, meta, main, version, trust>>
  BY DEF Crash, store, deployed
<1>2. StoreInv' /\ MainOK'
  BY <1>1, StoreKeeps DEF Inv, MainOK, Tip
<1>3. CallsOK'
  <2>1. calls' \in [Callers -> Call] /\ \A s \in Callers : CallOK(calls'[s])
    BY <1>1, IdleOK DEF Inv
  <2>2. QED
    BY <1>1, <2>1 DEF CallsOK, CallOK, Tip, Listed
<1>4. ProcessOK'
  <2>1. restarts' \in 0..MaxRestarts
    BY <1>1, ReingestConstants DEF Inv, ProcessOK
  <2>2. stale' \subseteq Paths
    BY <1>1
  <2>3. QED
    BY <1>1, <2>1, <2>2 DEF Inv, ProcessOK
<1>5. QED
  BY <1>2, <1>3, <1>4 DEF Inv

LEMMA StillInv ==
  ASSUME Inv, UNCHANGED vars
  PROVE  Inv'
<1>1. StoreInv'
  BY StoreKeeps DEF Inv, vars, store
<1>2. QED
  BY <1>1 DEF Inv, MainOK, CallsOK, CallOK, ProcessOK, Tip, Listed, LiveDocs, vars, store, deployed

LEMMA InvNext == Inv /\ [Next]_vars => Inv'
BY StillInv, PushInv, ListsInv, BeginsInv, FetchesInv, AppliesInv, EndsInv, BootInv, RechunksInv,
   StampsInv, CrashInv DEF Next

LEMMA InvInit == Init => Inv
<1> SUFFICES ASSUME Init PROVE Inv
  OBVIOUS
<1>1. NeverIndexed \in Doc /\ ~NeverIndexed.live
  BY DEF NeverIndexed, Doc
<1>2. StoreInv
  <2>1. StoreTypeOK
    BY <1>1, NoRowsAreRows DEF Init, StoreInit, StoreTypeOK
  <2>2. ChunksMatchDoc
    BY <1>1, NoRowsAreRows DEF Init, StoreInit, ChunksMatchDoc
  <2>3. LiveDocsSaySomething
    BY <1>1 DEF Init, StoreInit, LiveDocsSaySomething
  <2>4. QED
    BY <2>1, <2>2, <2>3 DEF StoreInv
<1>3. MainOK
  <2>1. PICK t \in Trees : main = <<t>>
    BY DEF Init
  <2>2. main \in Seq(Trees) /\ Tip = 1
    BY <2>1 DEF Tip
  <2>3. QED
    BY <2>2, ReingestConstants DEF Init, StoreInit, MainOK
<1>4. CallsOK
  BY <1>3, IdleOK DEF Init, CallsOK
<1>5. ProcessOK
  <2>1. restarts \in 0..MaxRestarts /\ stale \subseteq Paths
    BY ReingestConstants DEF Init
  <2>2. QED
    BY <2>1 DEF Init, ProcessOK
<1>6. QED
  BY <1>2, <1>3, <1>4, <1>5 DEF Inv

(* The store, main, the calls and the process keep the inductive invariant *)
(* under every interleaving of calls, pushes, failures, crashes and boots. *)
THEOREM SpecInv == Spec => []Inv
BY InvInit, InvNext, PTL DEF Spec

(* The store, main, the calls and the process keep their types. *)
THEOREM Typed == Spec => []TypeOK
<1>1. Inv => TypeOK
  BY DEF Inv, StoreInv, StoreTypeOK, LiveDocsSaySomething, LiveDocs, MainOK, CallsOK, ProcessOK, TypeOK
<1>2. QED
  BY <1>1, SpecInv, PTL

(* The index never says anything but what its document row says, whatever  *)
(* overlaps, fails or crashes.                                             *)
THEOREM RowsMatchDocs == Spec => []ChunksMatchDoc
<1>1. Inv => ChunksMatchDoc
  BY DEF Inv, StoreInv
<1>2. QED
  BY <1>1, SpecInv, PTL

-----------------------------------------------------------------------------
(* What each handler does to the documents, for the properties below.      *)
Applying(s) ==
  /\ process = "up" /\ calls[s].phase = "applying"
  /\ UpsertDoc(calls[s].path, calls[s].got, trust, version) /\ UNCHANGED stamp

LEMMA ApplyingFacts ==
  ASSUME Inv, NEW s \in Callers, Applying(s)
  PROVE  LET p == calls[s].path
         IN /\ p \in Paths /\ docs'[p] = Indexed(calls[s].got, trust) /\ docs'[p].live
            /\ \A q \in Paths \ {p} : docs'[q] = docs[q] /\ chunks'[q] = chunks[q]
            /\ chunks'[p].version = version \/ (docs[p].live /\ chunks'[p] = chunks[p])
<1>1. /\ calls[s].path \in Paths /\ calls[s].got \in Contents
      /\ trust \in Trusts /\ version \in Versions
  BY "up" # "down" DEF Inv, CallsOK, CallOK, ProcessOK, Applying
<1>2. Indexed(calls[s].got, trust).live
  BY <1>1, IndexedDocs
<1>3. QED
  BY <1>1, <1>2, UpsertFacts DEF Inv, Applying

(* The tombstones of a call that begins without a document to fetch.       *)
LEMMA BeginsMovesNone ==
  ASSUME Inv, NEW s \in Callers, Begins(s)
  PROVE  UNCHANGED docs /\ (meta' # meta => LiveDocs = {} /\ Listed(calls[s].commit) = {})
<1> DEFINE wanted == Listed(calls[s].commit)
<1>1. CASE wanted = {} /\ ~Refuses(wanted) /\ Tombstone(LiveDocs)
  <2>1. LiveDocs = {} /\ UNCHANGED stamp
    BY <1>1 DEF Refuses, Begins, Outside
  <2>2. \A q \in Paths : docs'[q] = docs[q]
    BY <1>1, <2>1, TombstoneFacts, LiveDocs \in SUBSET LiveDocs DEF Inv
  <2>3. docs' = docs
    BY <1>1, <2>2 DEF Tombstone, Inv, StoreInv, StoreTypeOK
  <2>4. QED
    BY <1>1, <2>1, <2>3
<1>2. CASE UNCHANGED <<docs, meta>>
  BY <1>2
<1>3. QED
  BY <1>1, <1>2 DEF Begins

(* The steps that may move a document, and those that move none. *)
LEMMA DocumentsMove ==
  ASSUME Inv, [Next]_vars
  PROVE  \/ \E s \in Callers : Applies(s) /\ Applying(s)
         \/ \E s \in Callers : Ends(s) \/ EndFails(s)
         \/ UNCHANGED docs
<1>1. ASSUME NEW s \in Callers, Applies(s) PROVE Applying(s)
  BY <1>1 DEF Applies, Applying, Running, Outside
<1>2. CASE UNCHANGED vars
  BY <1>2 DEF vars, store
<1>3. CASE Next
  BY <1>1, <1>3, BeginsMovesNone DEF Next, Push, Lists, Fetches, FetchFails, IngestTool, ApplyFails, Boot,
     Rechunks, Stamps, Crash, store
<1>4. QED
  BY <1>2, <1>3

LEMMA EndsFacts ==
  ASSUME Inv, NEW s \in Callers, Ends(s) \/ EndFails(s)
  PROVE  /\ calls[s].phase = "sweeping" /\ calls[s].todo = {} /\ process = "up"
         /\ calls[s].commit \in 1..Tip /\ Listed(calls[s].commit) # {}
         /\ \E ps \in SUBSET LiveDocs :
              /\ ps \cap Listed(calls[s].commit) = {} /\ Tombstone(ps)
              /\ \A p \in ps : ~docs'[p].live
              /\ \A q \in Paths \ ps : docs'[q] = docs[q] /\ chunks'[q] = chunks[q]
<1>1. /\ calls[s].phase = "sweeping" /\ calls[s].todo = {} /\ process = "up" /\ UNCHANGED stamp
      /\ \E ps \in SUBSET LiveDocs : ps \cap Listed(calls[s].commit) = {} /\ Tombstone(ps)
  BY DEF Ends, EndFails, Running, Outside, Vanished
<1>2. calls[s].commit \in 1..Tip /\ Listed(calls[s].commit) # {}
  BY <1>1, ReingestConstants DEF Inv, MainOK, CallsOK, CallOK
<1>3. QED
  BY <1>1, <1>2, TombstoneFacts DEF Inv

-----------------------------------------------------------------------------
(* Documents leave only because a listing no longer had them.              *)
THEOREM OnlyVanishedLeave == Spec => OnlyVanishedDocsLeave
<1> DEFINE Leaves ==
      \A p \in LiveDocs : ~docs'[p].live =>
        \E s \in Callers :
          /\ calls[s].phase = "sweeping" /\ calls[s].todo = {}
          /\ p \notin Listed(calls[s].commit) /\ Listed(calls[s].commit) # {}
<1>1. ASSUME Inv, [Next]_vars PROVE Leaves
  <2> SUFFICES ASSUME NEW p \in LiveDocs, ~docs'[p].live
               PROVE  \E s \in Callers :
                        /\ calls[s].phase = "sweeping" /\ calls[s].todo = {}
                        /\ p \notin Listed(calls[s].commit) /\ Listed(calls[s].commit) # {}
    OBVIOUS
  <2>1. p \in Paths /\ docs[p].live /\ docs'[p] # docs[p]
    BY LiveDocsArePaths
  <2>2. ASSUME NEW s \in Callers, Applying(s) PROVE FALSE
    BY <1>1, <2>1, <2>2, ApplyingFacts
  <2>3. ASSUME NEW s \in Callers, Ends(s) \/ EndFails(s)
        PROVE  /\ calls[s].phase = "sweeping" /\ calls[s].todo = {}
               /\ p \notin Listed(calls[s].commit) /\ Listed(calls[s].commit) # {}
    BY <1>1, <2>1, <2>3, EndsFacts
  <2>4. QED
    BY <1>1, <2>1, <2>2, <2>3, DocumentsMove
<1>2. Inv /\ [Next]_vars => [Leaves]_vars
  BY <1>1
<1>3. QED
  BY <1>2, SpecInv, PTL DEF Spec, OnlyVanishedDocsLeave

-----------------------------------------------------------------------------
(* The rows a served query reads are cut by the running chunker: a stamp   *)
(* that equals the image's version says that every live row is of that     *)
(* version, whatever boot was cut short before.                            *)
Current == \A p \in LiveDocs : chunks[p].version = version

RowsInv ==
  /\ process = "up" => stamp = version
  /\ stamp = version => Current
  /\ process = "rechunking" => \A p \in LiveDocs \ stale : chunks[p].version = version

LEMMA VersionsAreNumbers ==
  ASSUME Inv
  PROVE  stamp \in Nat /\ version \in Nat
BY StoreConstants DEF Inv, StoreInv, StoreTypeOK, ProcessOK

LEMMA ServingRows ==
  ASSUME Inv, RowsInv, process = "up", UNCHANGED <<stamp, version, process>>,
         \A p \in LiveDocs' : \/ p \in LiveDocs /\ chunks'[p] = chunks[p]
                              \/ chunks'[p].version = version
  PROVE  RowsInv'
BY "up" # "rechunking" DEF RowsInv, Current

LEMMA AppliesRows ==
  ASSUME Inv, RowsInv, NEW s \in Callers, Applies(s)
  PROVE  RowsInv'
<1>1. process = "up" /\ Applying(s) /\ UNCHANGED <<stamp, version, process>>
  BY DEF Applies, Applying, Running, Outside, deployed
<1>2. ASSUME NEW p \in LiveDocs'
      PROVE  \/ p \in LiveDocs /\ chunks'[p] = chunks[p]
             \/ chunks'[p].version = version
  <2>1. p \in Paths /\ docs'[p].live
    BY DEF LiveDocs
  <2>2. CASE p = calls[s].path
    BY <1>1, <2>1, <2>2, ApplyingFacts DEF LiveDocs
  <2>3. CASE p # calls[s].path
    BY <1>1, <2>1, <2>3, ApplyingFacts DEF LiveDocs
  <2>4. QED
    BY <2>2, <2>3
<1>3. QED
  BY <1>1, <1>2, ServingRows

LEMMA TombstonedRows ==
  ASSUME Inv, RowsInv, NEW s \in Callers, Begins(s) \/ Ends(s) \/ EndFails(s)
  PROVE  RowsInv'
<1>1. process = "up" /\ UNCHANGED <<stamp, version, process>>
  BY DEF Begins, Ends, EndFails, Running, Outside, deployed
<1>2. UNCHANGED <<docs, chunks>> \/ \E ps \in SUBSET LiveDocs : Tombstone(ps)
  BY DEF Begins, Ends, EndFails, Vanished
<1>3. ASSUME NEW p \in LiveDocs'
      PROVE  p \in LiveDocs /\ chunks'[p] = chunks[p]
  <2>1. p \in Paths /\ docs'[p].live
    BY DEF LiveDocs
  <2>2. CASE UNCHANGED <<docs, chunks>>
    BY <2>1, <2>2 DEF LiveDocs
  <2>3. CASE \E ps \in SUBSET LiveDocs : Tombstone(ps)
    BY <1>1, <2>1, <2>3, TombstoneFacts DEF LiveDocs, Inv
  <2>4. QED
    BY <1>2, <2>2, <2>3
<1>4. QED
  BY <1>1, <1>3, ServingRows

LEMMA StillRows ==
  ASSUME Inv, RowsInv, UNCHANGED <<docs, chunks, stamp, version, stale, process>>
  PROVE  RowsInv'
BY DEF RowsInv, Current, LiveDocs

(* What a boot must not do: go back to the image whose version is still    *)
(* stamped, over another one that did not come as far as its own stamp.    *)
BackToTheStamp == process = "down" /\ process' # "down" /\ version' = stamp /\ version # stamp

LEMMA BootRows ==
  ASSUME Inv, RowsInv, ~BackToTheStamp, NEW r \in Releases, Boot(r)
  PROVE  RowsInv'
<1>1. /\ process = "down" /\ version' = r.version
      /\ \/ stamp = r.version /\ process' = "up"
         \/ stamp # r.version /\ process' = "rechunking" /\ stale' = LiveDocs
      /\ UNCHANGED <<docs, chunks, stamp>>
  BY DEF Boot, store
<1>2. LiveDocs' = LiveDocs
  BY <1>1 DEF LiveDocs
<1>3. CASE stamp = r.version
  <2>1. version' = version /\ stamp' = version
    BY <1>1, <1>3, "up" # "down" DEF BackToTheStamp
  <2>2. QED
    BY <1>1, <1>2, <1>3, <2>1, "up" # "rechunking" DEF RowsInv, Current
<1>4. CASE stamp # r.version
  BY <1>1, <1>2, <1>4, "up" # "rechunking" DEF RowsInv
<1>5. QED
  BY <1>3, <1>4

LEMMA RechunksRows ==
  ASSUME Inv, RowsInv, NEW p \in Paths, Rechunks(p)
  PROVE  RowsInv'
<1>1. /\ process = "rechunking" /\ p \in stale /\ RechunkDoc(p, version) /\ stale' = stale \ {p}
      /\ UNCHANGED <<docs, stamp, process, version>>
  BY DEF Rechunks, deployed
<1>2. p \in LiveDocs /\ version \in Versions
  BY <1>1, "rechunking" # "down" DEF Inv, ProcessOK
<1>3. /\ chunks'[p].version = version
      /\ \A q \in Paths \ {p} : chunks'[q] = chunks[q]
  BY <1>1, <1>2, RechunkFacts DEF Inv
<1>4. LiveDocs' = LiveDocs /\ LiveDocs \subseteq Paths
  BY <1>1 DEF LiveDocs
<1>5. QED
  BY <1>1, <1>3, <1>4, "up" # "rechunking" DEF RowsInv, Current

LEMMA StampsRows ==
  ASSUME Inv, RowsInv, Stamps
  PROVE  RowsInv'
<1>1. /\ process = "rechunking" /\ stale = {} /\ stamp' = version /\ process' = "up"
      /\ UNCHANGED <<docs, chunks, version>>
  BY DEF Stamps, deployed
<1>2. LiveDocs' = LiveDocs
  BY <1>1 DEF LiveDocs
<1>3. QED
  BY <1>1, <1>2, VersionsAreNumbers, "up" # "rechunking" DEF RowsInv, Current

LEMMA CrashRows ==
  ASSUME Inv, RowsInv, Crash
  PROVE  RowsInv'
<1>1. process' = "down" /\ UNCHANGED <<docs, chunks, stamp, version>>
  BY DEF Crash, store, deployed
<1>2. LiveDocs' = LiveDocs
  BY <1>1 DEF LiveDocs
<1>3. QED
  BY <1>1, <1>2, "down" # "up", "down" # "rechunking" DEF RowsInv, Current

LEMMA RowsNext == ~BackToTheStamp /\ Inv /\ RowsInv /\ [Next]_vars => RowsInv'
<1> SUFFICES ASSUME ~BackToTheStamp, Inv, RowsInv, [Next]_vars PROVE RowsInv'
  OBVIOUS
<1>1. ASSUME NEW t \in Trees, Push(t) PROVE RowsInv'
  BY <1>1, StillRows DEF Push, store, deployed
<1>2. ASSUME NEW s \in Callers, Lists(s) \/ ApplyFails(s) PROVE RowsInv'
  BY <1>2, StillRows DEF Lists, ApplyFails, Outside, deployed
<1>3. ASSUME NEW s \in Callers, NEW p \in Paths, Fetches(s, p) \/ FetchFails(s, p) \/ IngestTool(s, p)
      PROVE  RowsInv'
  BY <1>3, StillRows DEF Fetches, FetchFails, IngestTool, Outside, deployed
<1>4. CASE UNCHANGED vars
  BY <1>4, StillRows DEF vars, store, deployed
<1>5. QED
  BY <1>1, <1>2, <1>3, <1>4, AppliesRows, TombstonedRows, BootRows, RechunksRows, StampsRows,
     CrashRows DEF Next

LEMMA RowsInit == Init => RowsInv
<1> SUFFICES ASSUME Init PROVE RowsInv
  OBVIOUS
<1>1. LiveDocs = {}
  BY DEF Init, StoreInit, LiveDocs, NeverIndexed
<1>2. QED
  BY <1>1 DEF Init, StoreInit, RowsInv, Current

(* Deployments that never go back to the stamp of an unfinished re-chunk;  *)
(* rolling back to any other version, or after a finished one, is allowed. *)
NeverBackToTheStamp == [][~BackToTheStamp]_vars

(* The one deployment rechunkIfStale is blind to is the only one that can  *)
(* leave rows of another chunker under a serving process.                  *)
THEOREM OnlyBackToTheStampMixesRows ==
  Spec /\ NeverBackToTheStamp => []ServedRowsAreCurrent
<1>1. RowsInv => ServedRowsAreCurrent
  BY DEF RowsInv, Current, ServedRowsAreCurrent
<1>2. Inv /\ RowsInv /\ [Next]_vars /\ [~BackToTheStamp]_vars => RowsInv'
  <2>1. CASE UNCHANGED vars
    BY <2>1, StillRows DEF vars, store, deployed
  <2>2. QED
    BY <2>1, RowsNext
<1>3. QED
  BY <1>1, <1>2, RowsInit, SpecInv, PTL DEF Spec, NeverBackToTheStamp

(* The stamp never runs ahead of the image while images only get newer.    *)
StampIsBehind == stamp <= version

LEMMA StampStaysBehind ==
  ASSUME ~CanRollBack, Inv, StampIsBehind, [Next]_vars
  PROVE  StampIsBehind' /\ ~BackToTheStamp
<1>1. stamp \in Nat /\ version \in Nat
  BY VersionsAreNumbers
<1>2. ASSUME NEW r \in Releases, Boot(r) PROVE StampIsBehind' /\ ~BackToTheStamp
  <2>1. r.version >= version /\ version' = r.version /\ stamp' = stamp /\ r.version \in Nat
    BY <1>2, ReingestConstants, StoreConstants DEF Boot, store
  <2>2. QED
    BY <1>1, <2>1 DEF StampIsBehind, BackToTheStamp
<1>3. CASE Stamps
  BY <1>1, <1>3, "rechunking" # "down" DEF Stamps, deployed, StampIsBehind, BackToTheStamp
<1>4. ASSUME UNCHANGED <<stamp, version>>, process = "down" => process' = "down"
      PROVE  StampIsBehind' /\ ~BackToTheStamp
  BY <1>4 DEF StampIsBehind, BackToTheStamp
<1>5. ASSUME NEW s \in Callers,
             \/ Lists(s) \/ Begins(s) \/ Applies(s) \/ ApplyFails(s) \/ Ends(s) \/ EndFails(s)
             \/ \E p \in Paths : Fetches(s, p) \/ FetchFails(s, p) \/ IngestTool(s, p)
      PROVE  UNCHANGED <<stamp, version, process>>
  BY <1>5 DEF Lists, Begins, Applies, ApplyFails, Ends, EndFails, Fetches, FetchFails, IngestTool,
     Outside, deployed
<1>6. ASSUME \/ \E t \in Trees : Push(t)
             \/ \E p \in Paths : Rechunks(p)
             \/ UNCHANGED vars
      PROVE  UNCHANGED <<stamp, version, process>>
  BY <1>6 DEF Push, Rechunks, store, deployed, vars
<1>7. CASE Crash
  BY <1>4, <1>7 DEF Crash, store, deployed
<1>8. QED
  BY <1>2, <1>3, <1>4, <1>5, <1>6, <1>7 DEF Next

(* When no older image is deployed over a newer one. *)
THEOREM ServedRowsHold ==
  ASSUME ~CanRollBack
  PROVE  Spec => []ServedRowsAreCurrent
<1>1. Init => StampIsBehind
  BY DEF Init, StoreInit, StampIsBehind
<1>2. Inv /\ StampIsBehind /\ [Next]_vars => StampIsBehind' /\ [~BackToTheStamp]_vars
  BY StampStaysBehind
<1>3. Spec => NeverBackToTheStamp
  BY <1>1, <1>2, SpecInv, PTL DEF Spec, NeverBackToTheStamp
<1>4. QED
  BY <1>3, OnlyBackToTheStampMixesRows

-----------------------------------------------------------------------------
(* A call that has the corpus to itself and has not skipped has indexed    *)
(* all it fetched, as main's tree was at some commit since its listing.    *)
Said(trees, c, p) == {trees[k][p] : k \in c..Len(trees)}

DocsSaying(trees, c, p, tr) == {Indexed(content, tr) : content \in Said(trees, c, p) \ {Absent}}

AloneOK(s) ==
  calls[s].alone =>
    /\ Busy \subseteq {s}
    /\ calls[s].commit # 0 /\ calls[s].clean =>
         /\ calls[s].phase = "applying" => calls[s].got \in Said(main, calls[s].commit, calls[s].path)
         /\ calls[s].phase \in {"sweeping", "applying"} =>
              \A p \in Listed(calls[s].commit) \ calls[s].todo :
                docs[p] \in DocsSaying(main, calls[s].commit, p, trust)
AloneInv == \A s \in Callers : AloneOK(s)

(* What main had at a commit it keeps, also when a push moves the tip.     *)
LEMMA MainGrows ==
  ASSUME Inv, UNCHANGED main \/ \E t \in Trees : main' = Append(main, t)
  PROVE  /\ Tip \in Nat /\ Tip' \in Nat /\ Tip <= Tip'
         /\ \A k \in 1..Tip : k \in 1..Tip' /\ main'[k] = main[k] /\ Listed(k)' = Listed(k)
<1>1. Tip \in Nat /\ Tip = Len(main) /\ Tip' = Len(main') /\ main \in Seq(Trees)
  BY ReingestConstants DEF Inv, MainOK, Tip
<1>2. /\ Tip' \in Nat /\ Tip <= Tip'
      /\ \A k \in 1..Tip : k \in 1..Tip' /\ main'[k] = main[k]
  BY <1>1
<1>3. QED
  BY <1>1, <1>2 DEF Listed

LEMMA SaidStays ==
  ASSUME Inv, UNCHANGED main \/ \E t \in Trees : main' = Append(main, t),
         NEW c \in 1..Tip, NEW p, NEW tr
  PROVE  /\ Said(main, c, p) \subseteq Said(main', c, p)
         /\ DocsSaying(main, c, p, tr) \subseteq DocsSaying(main', c, p, tr)
<1>1. \A k \in c..Len(main) : k \in c..Len(main') /\ main'[k] = main[k]
  BY MainGrows DEF Tip
<1>2. Said(main, c, p) \subseteq Said(main', c, p)
  BY <1>1 DEF Said
<1>3. QED
  BY <1>2 DEF DocsSaying

(* A call begins: the others in progress are no longer alone. *)
LEMMA StartsAlone ==
  ASSUME Inv, NEW s \in Callers, NEW c, CallOK(c), Starts(s, c), UNCHANGED <<main, meta>>,
         c.phase = "listed" \/ c.commit = 0
  PROVE  AloneInv'
<1> DEFINE a == Busy = {}
           d == [c EXCEPT !.alone = a]
<1>1. /\ calls'[s] = d
      /\ \A t \in Callers \ {s} : calls'[t] = Idle \/ (t \in Busy /\ ~calls'[t].alone)
  BY StartsFacts DEF Inv
<1>2. a \in BOOLEAN
  OBVIOUS
<1> HIDE DEF a
<1>3. d.phase = c.phase /\ d.commit = c.commit /\ d.alone = a
  BY <1>2 DEF CallOK, Call
<1> HIDE DEF d
<1>4. \A t \in Callers \ {s} : ~calls'[t].alone
  BY <1>1, IdleOK DEF Inv
<1>5. d.alone => Busy' \subseteq {s}
  BY <1>1, <1>3 DEF Busy, a
<1>6. AloneOK(s)'
  BY <1>1, <1>3, <1>5 DEF AloneOK
<1>7. QED
  BY <1>4, <1>6 DEF AloneInv, AloneOK

(* A call in progress goes on or ends: no other is alone meanwhile. *)
LEMMA BecomesAlone ==
  ASSUME Inv, AloneInv, NEW s \in Callers, calls[s].phase # "idle", UNCHANGED main,
         NEW c, CallOK(c), Becomes(s, c), c.alone => calls[s].alone,
         c.alone /\ c.commit # 0 /\ c.clean =>
           /\ c.phase = "applying" => c.got \in Said(main, c.commit, c.path)
           /\ c.phase \in {"sweeping", "applying"} =>
                \A p \in Listed(c.commit) \ c.todo :
                  docs'[p] \in DocsSaying(main, c.commit, p, trust')
  PROVE  AloneInv'
<1>1. calls'[s] = c /\ \A t \in Callers \ {s} : calls'[t] = calls[t]
  BY BecomesFacts DEF Inv
<1>2. s \in Busy
  BY IdleOK DEF Inv, Busy
<1>3. \A t \in Callers \ {s} : ~calls'[t].alone
  BY <1>1, <1>2 DEF AloneInv, AloneOK
<1>4. Busy' \subseteq Busy \cup {s}
  BY <1>1 DEF Busy
<1>5. calls'[s].commit = c.commit /\ Listed(calls[s].commit)' = Listed(c.commit)
  BY <1>1 DEF Listed
<1>6. calls'[s].alone => Busy' \subseteq {s}
  BY <1>1, <1>4 DEF AloneInv, AloneOK
<1>7. AloneOK(s)'
  BY <1>1, <1>5, <1>6 DEF AloneOK
<1>8. QED
  BY <1>3, <1>7 DEF AloneInv, AloneOK

LEMMA IdleAlone ==
  ASSUME Inv, AloneInv, NEW s \in Callers, calls[s].phase # "idle", UNCHANGED main,
         Becomes(s, Idle)
  PROVE  AloneInv'
BY IdleOK, BecomesAlone DEF Inv

LEMMA BeginsAlone ==
  ASSUME Inv, AloneInv, NEW s \in Callers, Begins(s)
  PROVE  AloneInv'
<1> DEFINE wanted == Listed(calls[s].commit)
           c == [calls[s] EXCEPT !.phase = "sweeping", !.todo = wanted]
<1>1. calls[s].phase = "listed" /\ UNCHANGED main
  BY DEF Begins, Running, Outside
<1>2. CASE Becomes(s, Idle)
  BY <1>1, <1>2, IdleAlone
<1>3. CASE Becomes(s, c) /\ wanted # {}
  <2>1. CallOK(c)
    BY <1>1, <1>3, SweepingCall
  <2>2. calls[s] \in Call /\ wanted \in SUBSET Paths
    BY DEF Inv, CallsOK, Listed
  <2>3. /\ c.alone = calls[s].alone /\ c.commit = calls[s].commit /\ c.phase = "sweeping"
        /\ c.todo = wanted
    BY <2>2 DEF Call
  <2>4. Listed(c.commit) \ c.todo = {}
    BY <2>3
  <2> HIDE DEF c
  <2>5. QED
    BY <1>1, <1>3, <2>1, <2>3, <2>4, BecomesAlone
<1>4. QED
  BY <1>2, <1>3 DEF Begins

LEMMA FetchesAlone ==
  ASSUME Inv, AloneInv, NEW s \in Callers, NEW p \in Paths, Fetches(s, p)
  PROVE  AloneInv'
<1>1. /\ calls[s].phase = "sweeping" /\ Found(p) /\ Becomes(s, Fetched(s, p))
      /\ UNCHANGED <<docs, main, trust>>
  BY DEF Fetches, Running, Outside, deployed
<1>2. /\ CallOK(Fetched(s, p)) /\ Fetched(s, p).commit = calls[s].commit
      /\ Fetched(s, p).phase = "applying" /\ Fetched(s, p).got = main[Tip][p]
      /\ Fetched(s, p).path = p /\ Fetched(s, p).todo = calls[s].todo
      /\ Fetched(s, p).clean = calls[s].clean /\ Fetched(s, p).alone = calls[s].alone
  BY <1>1, FetchedCall
<1>3. AloneOK(s) /\ calls[s].commit \in 1..Tip /\ Tip \in calls[s].commit..Tip
  BY <1>1, ReingestConstants DEF AloneInv, Inv, MainOK, CallsOK, CallOK
<1>4. main[Tip][p] \in Said(main, calls[s].commit, p)
  BY <1>3 DEF Said, Tip
<1>5. QED
  BY <1>1, <1>2, <1>3, <1>4, BecomesAlone DEF AloneOK

LEMMA FailsAlone ==
  ASSUME Inv, AloneInv, NEW s \in Callers,
         ApplyFails(s) \/ \E p \in Paths : FetchFails(s, p)
  PROVE  AloneInv'
<1>1. CASE ApplyFails(s)
  <2> DEFINE m == Missed(s, calls[s].path)
  <2>1. calls[s].phase = "applying" /\ UNCHANGED main /\ Becomes(s, Applied(s, m))
    BY <1>1 DEF ApplyFails, Running, Outside
  <2>2. CallOK(m) /\ m.phase = "applying" /\ ~m.clean /\ m.alone = calls[s].alone
    BY <2>1, MissedCall
  <2> HIDE DEF m
  <2>3. /\ CallOK(Applied(s, m))
        /\ Applied(s, m) = Idle \/ (~Applied(s, m).clean /\ Applied(s, m).alone = calls[s].alone)
    BY <2>2, AppliedCall
  <2>4. CASE Applied(s, m) = Idle
    BY <2>1, <2>4, IdleAlone
  <2>5. CASE ~Applied(s, m).clean /\ Applied(s, m).alone = calls[s].alone
    BY <2>1, <2>3, <2>5, BecomesAlone
  <2>6. QED
    BY <2>3, <2>4, <2>5
<1>2. ASSUME NEW p \in Paths, FetchFails(s, p) PROVE AloneInv'
  <2>1. calls[s].phase = "sweeping" /\ UNCHANGED main /\ Becomes(s, Missed(s, p))
    BY <1>2 DEF FetchFails, Running, Outside
  <2>2. QED
    BY <2>1, MissedCall, BecomesAlone
<1>3. QED
  BY <1>1, <1>2

LEMMA AppliesAlone ==
  ASSUME Inv, AloneInv, NEW s \in Callers, Applies(s)
  PROVE  AloneInv'
<1> DEFINE path == calls[s].path
           d == [calls[s] EXCEPT !.todo = @ \ {calls[s].path}]
           c == Applied(s, d)
<1>1. /\ calls[s].phase = "applying" /\ Applying(s) /\ Becomes(s, c) /\ UNCHANGED <<main, trust>>
  BY DEF Applies, Applying, Running, Outside, deployed
<1>2. /\ CallOK(d) /\ d.phase = "applying" /\ d.commit = calls[s].commit
      /\ d.todo = calls[s].todo \ {path} /\ d.clean = calls[s].clean /\ d.alone = calls[s].alone
  BY <1>1, DoneCall
<1>3. /\ path \in Paths /\ docs'[path] = Indexed(calls[s].got, trust)
      /\ \A q \in Paths \ {path} : docs'[q] = docs[q]
  BY <1>1, ApplyingFacts
<1> HIDE DEF d
<1>4. /\ CallOK(c)
      /\ d.commit = 0 => c = Idle
      /\ d.commit # 0 => /\ c.phase = "sweeping" /\ c.commit = d.commit /\ c.todo = d.todo
                         /\ c.clean = d.clean /\ c.alone = d.alone
  BY <1>2, AppliedCall
<1> HIDE DEF c, path
<1>5. CASE d.commit = 0
  BY <1>1, <1>4, <1>5, IdleAlone
<1>6. CASE d.commit # 0
  <2>1. ASSUME c.alone, c.clean, NEW p \in Listed(c.commit) \ c.todo
        PROVE  docs'[p] \in DocsSaying(main, c.commit, p, trust')
    <3>1. /\ c.commit = calls[s].commit /\ c.commit \in 1..Tip
          /\ calls[s].got \in Contents /\ p \in Paths
      BY <1>1, <1>2, <1>4, <1>6, ReingestConstants DEF Inv, MainOK, CallsOK, CallOK, Listed
    <3>2. /\ calls[s].got \in Said(main, c.commit, path)
          /\ \A q \in Listed(c.commit) \ calls[s].todo : docs[q] \in DocsSaying(main, c.commit, q, trust)
      BY <1>1, <1>2, <1>4, <1>6, <2>1, <3>1 DEF AloneInv, AloneOK, path
    <3>3. CASE p = path
      <4>1. calls[s].got # Absent
        BY <3>1, StoreConstants
      <4>2. QED
        BY <1>1, <1>3, <3>2, <3>3, <4>1 DEF DocsSaying
    <3>4. CASE p # path
      <4>1. p \in Listed(c.commit) \ calls[s].todo
        BY <1>2, <1>4, <1>6, <3>4
      <4>2. QED
        BY <1>1, <1>3, <3>1, <3>2, <3>4, <4>1
    <3>5. QED
      BY <3>3, <3>4
  <2>2. QED
    BY <1>1, <1>2, <1>4, <1>6, <2>1, BecomesAlone
<1>7. QED
  BY <1>5, <1>6

LEMMA StillAlone ==
  ASSUME AloneInv, UNCHANGED <<docs, main, trust, calls>>
  PROVE  AloneInv'
BY DEF AloneInv, AloneOK, Busy, Tip, Listed

LEMMA IdleCallsAlone ==
  ASSUME Inv, \A s \in Callers : calls'[s] = Idle
  PROVE  AloneInv'
BY IdleOK DEF Inv, AloneInv, AloneOK

LEMMA PushAlone ==
  ASSUME Inv, AloneInv, NEW t \in Trees, Push(t)
  PROVE  AloneInv'
<1>1. main' = Append(main, t) /\ UNCHANGED <<calls, docs, trust>>
  BY DEF Push, store, deployed
<1>2. Busy' = Busy
  BY <1>1 DEF Busy
<1>3. ASSUME NEW s \in Callers PROVE AloneOK(s)'
  <2>1. AloneOK(s) /\ calls'[s] = calls[s] /\ calls[s].commit \in 0..Tip /\ Tip \in Nat
    BY <1>1, MainGrows DEF AloneInv, Inv, CallsOK, CallOK
  <2>2. CASE calls[s].commit = 0
    BY <1>2, <2>1, <2>2 DEF AloneOK
  <2>3. CASE calls[s].commit \in 1..Tip
    <3>1. /\ Listed(calls[s].commit)' = Listed(calls[s].commit)
          /\ \A p : Said(main, calls[s].commit, p) \subseteq Said(main', calls[s].commit, p)
          /\ \A p : DocsSaying(main, calls[s].commit, p, trust) \subseteq
                    DocsSaying(main', calls[s].commit, p, trust)
      BY <1>1, <2>1, <2>3, MainGrows, SaidStays
    <3>2. QED
      BY <1>1, <1>2, <2>1, <3>1 DEF AloneOK
  <2>4. QED
    BY <2>1, <2>2, <2>3
<1>4. QED
  BY <1>3 DEF AloneInv

LEMMA AloneNext == Inv /\ AloneInv /\ [Next]_vars => AloneInv'
<1> SUFFICES ASSUME Inv, AloneInv, [Next]_vars PROVE AloneInv'
  OBVIOUS
<1>1. CASE UNCHANGED vars
  BY <1>1, StillAlone DEF vars, store, deployed
<1>2. ASSUME NEW s \in Callers, Lists(s) PROVE AloneInv'
  <2> DEFINE c == [Idle EXCEPT !.phase = "listed", !.commit = Tip]
  <2>1. Starts(s, c) /\ UNCHANGED <<main, meta>>
    BY <1>2 DEF Lists, Outside
  <2>2. Idle \in Call /\ Tip \in Nat
    BY IdleOK, ReingestConstants DEF Inv, MainOK
  <2>3. c.phase = "listed"
    BY <2>2 DEF Call
  <2>4. CallOK(c)
    BY ListedCall
  <2> HIDE DEF c
  <2>5. QED
    BY <2>1, <2>3, <2>4, StartsAlone
<1>3. ASSUME NEW s \in Callers, NEW p \in Paths, IngestTool(s, p) PROVE AloneInv'
  <2>1. calls[s].phase = "idle" /\ Found(p) /\ Starts(s, Fetched(s, p)) /\ UNCHANGED <<main, meta>>
    BY <1>3 DEF IngestTool, Running, Outside
  <2>2. CallOK(Fetched(s, p)) /\ Fetched(s, p).commit = 0
    BY <2>1, FetchedCall DEF Inv, CallsOK, CallOK
  <2>3. QED
    BY <2>1, <2>2, StartsAlone
<1>4. ASSUME NEW s \in Callers, Ends(s) \/ EndFails(s) PROVE AloneInv'
  BY <1>4, IdleAlone, "sweeping" # "idle" DEF Ends, EndFails, Running, Outside
<1>5. ASSUME NEW r \in Releases, Boot(r) PROVE AloneInv'
  BY <1>5, IdleCallsAlone, "down" # "up" DEF Boot, Inv, ProcessOK
<1>6. ASSUME NEW p \in Paths, Rechunks(p) PROVE AloneInv'
  BY <1>6, StillAlone DEF Rechunks, deployed
<1>7. CASE Stamps
  BY <1>7, StillAlone DEF Stamps, deployed
<1>8. CASE Crash
  BY <1>8, IdleCallsAlone DEF Crash
<1>9. QED
  BY <1>1, <1>2, <1>3, <1>4, <1>5, <1>6, <1>7, <1>8, PushAlone, BeginsAlone, FetchesAlone,
     FailsAlone, AppliesAlone DEF Next

(* The index as of some commit since c: what c's tree did not have is not  *)
(* live, and every other document says what main said of it at c or later. *)
AsOf(c) ==
  \A p \in Paths : IF main[c][p] = Absent THEN ~docs[p].live
                   ELSE docs[p] \in DocsSaying(main, c, p, trust)

(* The end of a sweep, for the caller that had the corpus to itself. *)
LEMMA EndIsRecent ==
  ASSUME Inv, AloneInv, NEW s \in Callers, calls[s].alone, [Next]_vars, meta' # meta
  PROVE  AsOf(meta)' /\ UNCHANGED main /\ meta' \in 1..Tip
<1>1. PICK t \in Callers : Begins(t) \/ Ends(t)
  BY DEF Next, Push, Lists, Fetches, FetchFails, IngestTool, Applies, ApplyFails, EndFails, Boot,
     Rechunks, Stamps, Crash, store, vars
<1>2. /\ calls[t].phase \in {"listed", "sweeping"} /\ calls[t].commit = meta'
      /\ UNCHANGED <<main, stamp, trust>>
  BY <1>1 DEF Begins, Ends, Running, Outside, deployed
<1>3. t = s
  BY <1>2, IdleOK DEF Inv, AloneInv, AloneOK, Busy
<1>4. meta' \in 1..Tip /\ Tip \in Nat
  BY <1>2, ReingestConstants DEF Inv, MainOK, CallsOK, CallOK
<1>5. CASE Begins(s)
  <2>1. \A p \in Paths : main[meta'][p] = Absent /\ ~docs'[p].live
    BY <1>2, <1>3, <1>5, BeginsMovesNone DEF Listed, LiveDocs
  <2>2. QED
    BY <1>2, <1>4, <2>1 DEF AsOf
<1>6. CASE Ends(s)
  <2>1. /\ calls[s].phase = "sweeping" /\ calls[s].todo = {} /\ calls[s].clean
        /\ Tombstone(Vanished(s))
    BY <1>2, <1>6 DEF Ends, Running
  <2>2. Vanished(s) = LiveDocs \ Listed(meta')
    BY <1>2, <1>3 DEF Vanished
  <2>3. Vanished(s) \in SUBSET LiveDocs
    BY <2>2
  <2>4. /\ \A p \in Vanished(s) : ~docs'[p].live
        /\ \A q \in Paths \ Vanished(s) : docs'[q] = docs[q]
    BY <1>2, <2>1, <2>3, TombstoneFacts DEF Inv
  <2>5. \A p \in Listed(meta') : docs[p] \in DocsSaying(main, meta', p, trust)
    BY <1>2, <1>3, <1>4, <2>1 DEF AloneInv, AloneOK
  <2>6. ASSUME NEW p \in Paths, main[meta'][p] # Absent
        PROVE  docs'[p] \in DocsSaying(main', meta', p, trust')
    <3>1. p \in Listed(meta') /\ docs'[p] = docs[p]
      BY <2>2, <2>4, <2>6 DEF Listed
    <3>2. QED
      BY <1>2, <2>5, <3>1
  <2>7. ASSUME NEW p \in Paths, main[meta'][p] = Absent PROVE ~docs'[p].live
    BY <2>2, <2>4, <2>7 DEF Listed, LiveDocs
  <2>8. QED
    BY <1>2, <1>4, <2>6, <2>7 DEF AsOf
<1>7. QED
  BY <1>1, <1>2, <1>3, <1>4, <1>5, <1>6

LEMMA AlwaysAlone == Spec => []AloneInv
<1>1. Init => AloneInv
  <2> SUFFICES ASSUME Init PROVE AloneInv
    OBVIOUS
  <2>1. \A s \in Callers : calls[s] = Idle
    BY DEF Init
  <2>2. QED
    BY <2>1, InvInit, IdleOK DEF Inv, AloneInv, AloneOK
<1>2. QED
  BY <1>1, AloneNext, SpecInv, PTL DEF Spec

(* What is left of reingest.ts:130-132, "must not claim a commit it never  *)
(* fully applied", once main may move under a sweep: a sweep that had the  *)
(* corpus to itself and records commit c leaves no document older than c,  *)
(* none that c's tree did not have, and each in the corpus's trust.        *)
LoneSweepsNeverGoBack ==
  [][\A s \in Callers : calls[s].alone /\ calls'[s] = Idle /\ meta' # meta => AsOf(meta)']_vars

(* A lone sweep's index is nowhere older than the commit it records.       *)
THEOREM LoneSweepsAreRecent == Spec => LoneSweepsNeverGoBack
<1>1. Inv /\ AloneInv /\ [Next]_vars =>
        [\A s \in Callers : calls[s].alone /\ calls'[s] = Idle /\ meta' # meta => AsOf(meta)']_vars
  BY EndIsRecent
<1>2. QED
  BY <1>1, AlwaysAlone, SpecInv, PTL DEF Spec, LoneSweepsNeverGoBack

(* An undisturbed sweep leaves exactly main's tree. *)
THEOREM UndisturbedMirrors == Spec => UndisturbedSweepMirrorsMain
<1> DEFINE Exact ==
      \A s \in Callers :
        calls[s].alone /\ calls'[s] = Idle /\ meta' # meta /\ meta' = Tip => Mirrors(meta)'
<1>1. ASSUME Inv, AloneInv, NEW s \in Callers, calls[s].alone, [Next]_vars,
             meta' # meta, meta' = Tip
      PROVE  Mirrors(meta)'
  <2>1. AsOf(meta)' /\ UNCHANGED main /\ Tip \in Nat
    BY <1>1, EndIsRecent, MainGrows
  <2>2. meta'..Len(main') = {meta'}
    BY <1>1, <2>1 DEF Tip
  <2>3. ASSUME NEW p \in Paths
        PROVE  IF main'[meta'][p] = Absent THEN ~docs'[p].live
               ELSE docs'[p] = Indexed(main'[meta'][p], trust')
    BY <2>1, <2>2 DEF AsOf, DocsSaying, Said
  <2>4. QED
    BY <2>3 DEF Mirrors
<1>2. Inv /\ AloneInv /\ [Next]_vars => [Exact]_vars
  BY <1>1
<1>3. QED
  BY <1>2, AlwaysAlone, SpecInv, PTL DEF Spec, UndisturbedSweepMirrorsMain

-----------------------------------------------------------------------------
(* Nothing is invented.  However calls overlap, fetches fail, processes    *)
(* die and releases change, a live document says what main said of it at   *)
(* some commit: no half-applied, mixed-up or foreign content.              *)
EveryDocWasOnMain == \A p \in LiveDocs : docs[p].content \in Said(main, 1, p)

(* And so does what a call has fetched and not yet written. *)
FetchesWereOnMain ==
  \A s \in Callers : calls[s].phase = "applying" => calls[s].got \in Said(main, 1, calls[s].path)

(* A call that is about to write fetched what it writes, or did before. *)
LEMMA WhoApplies ==
  ASSUME Inv, [Next]_vars, NEW t \in Callers, calls'[t].phase = "applying"
  PROVE  \/ calls[t].phase = "applying" /\ calls'[t].path = calls[t].path /\ calls'[t].got = calls[t].got
         \/ \E s \in Callers, p \in Paths :
              (Fetches(s, p) \/ IngestTool(s, p)) /\ calls'[t].path = p /\ calls'[t].got = main[Tip][p]
<1> DEFINE Kept == /\ calls[t].phase = "applying"
                   /\ calls'[t].path = calls[t].path /\ calls'[t].got = calls[t].got
<1>1. CASE calls'[t] = calls[t]
  BY <1>1
<1>2. calls'[t] # Idle
  BY IdleOK DEF Inv
<1>3. ASSUME NEW s \in Callers, NEW c, CallOK(c), Starts(s, c), UNCHANGED <<main, meta>>, t # s
      PROVE  Kept
  <2>1. calls' = [u \in Callers |->
          IF u = s THEN [c EXCEPT !.alone = Busy = {}]
          ELSE IF u \in Busy THEN [calls[u] EXCEPT !.alone = FALSE] ELSE Idle]
    BY <1>3 DEF Starts
  <2>2. calls'[t] = [calls[t] EXCEPT !.alone = FALSE] /\ calls[t] \in Call
    BY <1>2, <1>3, <2>1 DEF Inv, CallsOK
  <2>3. QED
    BY <2>2 DEF Call
<1>4. ASSUME NEW s \in Callers, NEW c, CallOK(c), Becomes(s, c), UNCHANGED main, t # s
      PROVE  calls'[t] = calls[t]
  BY <1>4, BecomesFacts DEF Inv
<1>5. ASSUME NEW s \in Callers, Lists(s) PROVE Kept
  <2> DEFINE c == [Idle EXCEPT !.phase = "listed", !.commit = Tip]
  <2>1. Starts(s, c) /\ CallOK(c) /\ UNCHANGED <<main, meta>>
    BY <1>5, ListedCall DEF Lists, Outside
  <2>2. c.phase = "listed" /\ c \in Call
    <3>1. Idle \in Call /\ CallOK(c)
      BY IdleOK, ListedCall DEF Inv
    <3>2. QED
      BY <3>1 DEF Call, CallOK
  <2> HIDE DEF c
  <2>3. t # s
    <3> DEFINE a == Busy = {}
    <3>1. calls'[s] = [c EXCEPT !.alone = a]
      BY <2>1, StartsFacts DEF Inv
    <3>2. calls'[s].phase = "listed"
      BY <2>2, <3>1 DEF Call
    <3>3. QED
      BY <3>2
  <2>4. QED
    BY <1>3, <2>1, <2>3
<1>6. ASSUME NEW s \in Callers, NEW p \in Paths, IngestTool(s, p)
      PROVE  Kept \/ (calls'[t].path = p /\ calls'[t].got = main[Tip][p])
  <2>1. /\ Starts(s, Fetched(s, p)) /\ UNCHANGED <<main, meta>> /\ Found(p)
        /\ calls[s].phase = "idle"
    BY <1>6 DEF IngestTool, Running, Outside
  <2>2. CallOK(Fetched(s, p)) /\ Fetched(s, p).got = main[Tip][p] /\ Fetched(s, p).path = p
    BY <2>1, FetchedCall
  <2>3. CASE t # s
    BY <1>3, <2>1, <2>2, <2>3
  <2>4. CASE t = s
    <3> DEFINE a == Busy = {}
               f == Fetched(s, p)
    <3>1. calls'[s] = [f EXCEPT !.alone = a] /\ f \in Call
      BY <2>1, <2>2, StartsFacts DEF Inv, CallOK
    <3> HIDE DEF f
    <3>2. calls'[s].path = f.path /\ calls'[s].got = f.got
      BY <3>1 DEF Call
    <3>3. QED
      BY <2>2, <2>4, <3>2 DEF f
  <2>5. QED
    BY <2>3, <2>4
<1>7. ASSUME NEW s \in Callers, NEW p \in Paths, Fetches(s, p)
      PROVE  Kept \/ (calls'[t].path = p /\ calls'[t].got = main[Tip][p])
  <2>1. /\ Becomes(s, Fetched(s, p)) /\ UNCHANGED main /\ Found(p)
        /\ calls[s].phase = "sweeping"
    BY <1>7 DEF Fetches, Running, Outside
  <2>2. CallOK(Fetched(s, p)) /\ Fetched(s, p).got = main[Tip][p] /\ Fetched(s, p).path = p
    BY <2>1, FetchedCall
  <2>3. QED
    BY <1>1, <1>4, <2>1, <2>2, BecomesFacts DEF Inv
<1>8. ASSUME NEW s \in Callers, NEW p \in Paths, FetchFails(s, p)
      PROVE  Kept
  <2>1. Becomes(s, Missed(s, p)) /\ UNCHANGED main /\ calls[s].phase = "sweeping"
    BY <1>8 DEF FetchFails, Running, Outside
  <2>2. CallOK(Missed(s, p)) /\ Missed(s, p).phase = "sweeping"
    BY <2>1, MissedCall
  <2>3. t # s
    BY <2>1, <2>2, BecomesFacts DEF Inv
  <2>4. QED
    BY <1>1, <1>4, <2>1, <2>2, <2>3
<1>9. ASSUME NEW s \in Callers, Applies(s) \/ ApplyFails(s) PROVE Kept
  <2>1. PICK c : /\ CallOK(c) /\ c.phase = "applying" /\ Becomes(s, Applied(s, c)) /\ UNCHANGED main
    BY <1>9, DoneCall, MissedCall DEF Applies, ApplyFails, Running, Outside
  <2>2. CallOK(Applied(s, c)) /\ Applied(s, c).phase # "applying"
    BY <2>1, AppliedCall, IdleOK DEF Inv
  <2>3. t # s
    BY <2>1, <2>2, BecomesFacts DEF Inv
  <2>4. QED
    BY <1>1, <1>4, <2>1, <2>2, <2>3
<1>10. ASSUME NEW s \in Callers, Begins(s) \/ Ends(s) \/ EndFails(s) PROVE Kept
  <2>1. UNCHANGED main
    BY <1>10 DEF Begins, Ends, EndFails, Outside
  <2>2. PICK c : CallOK(c) /\ c.phase # "applying" /\ Becomes(s, c)
    <3>1. CASE Becomes(s, Idle)
      BY <3>1, IdleOK DEF Inv
    <3>2. CASE Begins(s) /\ ~Becomes(s, Idle)
      <4> DEFINE wanted == Listed(calls[s].commit)
                 c == [calls[s] EXCEPT !.phase = "sweeping", !.todo = wanted]
      <4>1. Becomes(s, c) /\ wanted # {} /\ calls[s].phase = "listed"
        BY <3>2 DEF Begins, Running
      <4>2. CallOK(c)
        BY <4>1, SweepingCall
      <4>3. calls[s] \in Call
        BY DEF Inv, CallsOK
      <4>4. c.phase = "sweeping"
        BY <4>3 DEF Call
      <4> HIDE DEF c
      <4>5. QED
        BY <4>1, <4>2, <4>4
    <3>3. QED
      BY <1>10, <3>1, <3>2 DEF Ends, EndFails
  <2>3. t # s
    BY <2>1, <2>2, BecomesFacts DEF Inv
  <2>4. QED
    BY <1>1, <1>4, <2>1, <2>2, <2>3
<1>11. ASSUME \/ \E tr \in Trees : Push(tr)
              \/ \E r \in Releases : Boot(r)
              \/ \E p \in Paths : Rechunks(p)
              \/ Stamps \/ UNCHANGED vars
       PROVE  Kept
  BY <1>1, <1>11 DEF Push, Boot, Rechunks, Stamps, vars
<1>12. CASE Crash
  BY <1>2, <1>12 DEF Crash
<1> DEFINE Got(s, p) ==
      (Fetches(s, p) \/ IngestTool(s, p)) /\ calls'[t].path = p /\ calls'[t].got = main[Tip][p]
<1>13. ASSUME NEW s \in Callers, NEW p \in Paths, Fetches(s, p) \/ IngestTool(s, p)
       PROVE  Kept \/ Got(s, p)
  BY <1>6, <1>7, <1>13
<1>14. CASE \E s \in Callers :
              \/ Lists(s) \/ Begins(s) \/ Applies(s) \/ ApplyFails(s) \/ Ends(s) \/ EndFails(s)
              \/ \E p \in Paths : FetchFails(s, p)
  <2> HIDE DEF Kept
  <2>1. Kept
    BY <1>5, <1>8, <1>9, <1>10, <1>14
  <2>2. QED
    BY <2>1 DEF Kept
<1>15. CASE \E s \in Callers, p \in Paths : Fetches(s, p) \/ IngestTool(s, p)
  <2> HIDE DEF Kept, Got
  <2>1. Kept \/ \E s \in Callers, p \in Paths : Got(s, p)
    BY <1>13, <1>15
  <2>2. QED
    BY <2>1 DEF Kept, Got
<1>16. CASE \/ \E tr \in Trees : Push(tr)
            \/ \E r \in Releases : Boot(r)
            \/ \E p \in Paths : Rechunks(p)
            \/ Stamps \/ UNCHANGED vars
  BY <1>11, <1>16
<1>17. QED
  BY <1>12, <1>14, <1>15, <1>16 DEF Next

LEMMA SourcedNext ==
  ASSUME Inv, EveryDocWasOnMain, FetchesWereOnMain, [Next]_vars
  PROVE  EveryDocWasOnMain' /\ FetchesWereOnMain'
<1>1. UNCHANGED main \/ \E t \in Trees : main' = Append(main, t)
  BY DEF Next, Push, Lists, Begins, Fetches, FetchFails, IngestTool, Applies, ApplyFails, Ends,
     EndFails, Boot, Rechunks, Stamps, Crash, Outside, vars
<1>2. 1 \in 1..Tip /\ Tip \in Nat
  BY ReingestConstants DEF Inv, MainOK
<1>3. \A p : Said(main, 1, p) \subseteq Said(main', 1, p)
  BY <1>1, <1>2, SaidStays
<1>4. EveryDocWasOnMain'
  <2> SUFFICES ASSUME NEW p \in LiveDocs' PROVE docs'[p].content \in Said(main', 1, p)
    BY DEF EveryDocWasOnMain
  <2>1. p \in Paths /\ docs'[p].live
    BY DEF LiveDocs
  <2>2. CASE docs'[p] = docs[p]
    BY <1>3, <2>1, <2>2 DEF EveryDocWasOnMain, LiveDocs
  <2>3. ASSUME NEW s \in Callers, Applies(s), Applying(s), p = calls[s].path
        PROVE  docs'[p].content \in Said(main', 1, p)
    <3>1. docs'[p] = Indexed(calls[s].got, trust)
      BY <2>3, ApplyingFacts
    <3>2. docs'[p].content = calls[s].got
      BY <3>1 DEF Indexed
    <3>3. calls[s].got \in Said(main, 1, p)
      BY <2>3 DEF FetchesWereOnMain, Applying
    <3>4. QED
      BY <1>3, <3>2, <3>3
  <2>4. ASSUME NEW s \in Callers, Applies(s), Applying(s), p # calls[s].path PROVE docs'[p] = docs[p]
    BY <2>1, <2>4, ApplyingFacts
  <2>5. ASSUME NEW s \in Callers, Ends(s) \/ EndFails(s) PROVE docs'[p] = docs[p]
    BY <2>1, <2>5, EndsFacts
  <2>6. QED
    BY <2>2, <2>3, <2>4, <2>5, DocumentsMove
<1>5. FetchesWereOnMain'
  <2> SUFFICES ASSUME NEW t \in Callers, calls'[t].phase = "applying"
               PROVE  calls'[t].got \in Said(main', 1, calls'[t].path)
    BY DEF FetchesWereOnMain
  <2>1. CASE /\ calls[t].phase = "applying"
             /\ calls'[t].path = calls[t].path /\ calls'[t].got = calls[t].got
    BY <1>3, <2>1 DEF FetchesWereOnMain
  <2>2. ASSUME NEW p \in Paths, calls'[t].path = p, calls'[t].got = main[Tip][p]
        PROVE  calls'[t].got \in Said(main', 1, calls'[t].path)
    <3>1. main[Tip][p] \in Said(main, 1, p)
      BY <1>2 DEF Said, Tip
    <3>2. QED
      BY <1>3, <2>2, <3>1
  <2>3. QED
    BY <2>1, <2>2, WhoApplies
<1>6. QED
  BY <1>4, <1>5

(* A live document's content was on main. *)
THEOREM NothingIsInvented == Spec => []EveryDocWasOnMain
<1>1. Init => EveryDocWasOnMain /\ FetchesWereOnMain
  <2> SUFFICES ASSUME Init PROVE EveryDocWasOnMain /\ FetchesWereOnMain
    OBVIOUS
  <2>1. LiveDocs = {} /\ \A s \in Callers : calls[s] = Idle
    BY DEF Init, StoreInit, LiveDocs, NeverIndexed
  <2>2. QED
    BY <2>1, InvInit, IdleOK DEF Inv, EveryDocWasOnMain, FetchesWereOnMain
<1>2. QED
  BY <1>1, SourcedNext, SpecInv, PTL DEF Spec
=============================================================================
