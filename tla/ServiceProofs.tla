---------------------------- MODULE ServiceProofs ----------------------------
(***************************************************************************)
(* The service applies a request at most once, on the revision it names,   *)
(* never to a sealed dossier, and acknowledges only what is stored: for    *)
(* any dossiers, requests, handlers and processes, whatever is             *)
(* interleaved, repeated, lost or restarted.                               *)
(*                                                                         *)
(* The argument does not use the locks, which belong to one process each.  *)
(* It is that a copy stays a prefix of what is stored (only Save changes a *)
(* dossier, and it appends), so that an equal revision means an equal      *)
(* dossier; and that a request id is on record exactly if its change is.   *)
(***************************************************************************)
EXTENDS Service, SequenceTheorems, FiniteSetTheorems, TLAPS

\* The copy is what was stored when it was loaded, at the revision asked for.
Loaded(h) ==
  /\ call[h].rid \in RequestIds
  /\ Len(copy[h]) = call[h].expected
  /\ Len(copy[h]) <= Len(log[Target(call[h])])
  /\ \A n \in 1..Len(copy[h]) : copy[h][n] = log[Target(call[h])][n]
  /\ ~IsSealed(copy[h])

\* The answer a is on record for the request c.
IsOnRecord(c, a) ==
  /\ c.rid \in RequestIds
  /\ receipts[c.rid] # NoReceipt
  /\ receipts[c.rid].fingerprint = Fingerprint(c)
  /\ receipts[c.rid].answer = a

HandlerInv(h) ==
  /\ pc[h] # "idle" => call[h] \in Calls
  /\ pc[h] \in {"idle", "waiting", "replaying", "loading"} => copy[h] = <<>>
  /\ pc[h] \in {"idle", "waiting", "replaying", "loading", "saving"} =>
       outcome[h] = NoOutcome
  /\ pc[h] = "loading" => call[h].rid \in RequestIds
  /\ pc[h] = "saving" => Loaded(h)
  /\ outcome[h].kind = "saved" => IsOnRecord(call[h], outcome[h])

\* What is on record was asked for by a client, and is in the log as asked.
ReceiptHasOrigin(r) ==
  \E c \in Calls :
    /\ c.rid = r
    /\ receipts[r].fingerprint = Fingerprint(c)
    /\ receipts[r].answer =
         [kind |-> "saved", dossier |-> Target(c), revision |-> c.expected + 1]
    /\ c.expected + 1 \in DOMAIN log[Target(c)]
    /\ log[Target(c)][c.expected + 1] = Entry(c)

AnswerOf(a) == [kind |-> "saved", dossier |-> a.dossier, revision |-> a.revision]

\* The inductive invariant.
ServiceInv ==
  /\ TypeOK
  /\ \A h \in Handlers : HandlerInv(h)
  /\ ReceiptsMatchLog
  /\ SealedIsFinal
  /\ \A r \in RequestIds : receipts[r] # NoReceipt => ReceiptHasOrigin(r)
  /\ \A a \in answered : IsOnRecord(a.call, AnswerOf(a))

-----------------------------------------------------------------------------
\* The parts of a request.
LEMMA CallType ==
  ASSUME NEW c \in Calls
  PROVE  /\ c.key \in Keys /\ Target(c) \in Dossiers
         /\ c.input \in Inputs /\ c.expected \in Nat
         /\ c.rid \in RequestIds \cup {NoRequestId}
         /\ Fingerprint(c) \in Fingerprints
         /\ c # NoCall
<1>1. c \in Call
  BY ServiceAssumption
<1>2. c.key \in Keys /\ c.input \in Inputs /\ c.expected \in Nat
      /\ c.rid \in RequestIds \cup {NoRequestId}
  BY <1>1 DEF Call
<1>3. Target(c) \in Dossiers
  BY <1>2, ServiceAssumption DEF Target
<1>4. Fingerprint(c) \in Fingerprints
  BY <1>2 DEF Fingerprint, Fingerprints
<1> QED
  BY <1>1, <1>2, <1>3, <1>4, ServiceAssumption

LEMMA InitInv == Init => ServiceInv
<1> SUFFICES ASSUME Init PROVE ServiceInv
  OBVIOUS
<1>1. TypeOK
  BY DEF Init, TypeOK, Mutex!Init, Stages, NoOutcome
<1>2. \A h \in Handlers : HandlerInv(h)
  BY DEF Init, HandlerInv, NoOutcome
<1>3. ReceiptsMatchLog /\ SealedIsFinal
  BY DEF Init, ReceiptsMatchLog, SealedIsFinal
<1> QED
  BY <1>1, <1>2, <1>3 DEF Init, ServiceInv

\* A step that leaves the database alone keeps what is said of it, and of the
\* handlers it leaves alone.
LEMMA QuietStep ==
  ASSUME ServiceInv, TypeOK', UNCHANGED durableVars,
         \A h \in Handlers : HandlerInv(h)',
         \A a \in answered' : a \in answered \/ IsOnRecord(a.call, AnswerOf(a))
  PROVE  ServiceInv'
<1>1. log' = log /\ receipts' = receipts
  BY DEF durableVars
<1>2. ReceiptsMatchLog' /\ SealedIsFinal'
  BY <1>1 DEF ServiceInv, ReceiptsMatchLog, SealedIsFinal
<1>3. \A r \in RequestIds : (receipts[r] # NoReceipt => ReceiptHasOrigin(r))'
  BY <1>1 DEF ServiceInv, ReceiptHasOrigin
<1>4. \A a \in answered' : IsOnRecord(a.call, AnswerOf(a))'
  BY <1>1 DEF ServiceInv, IsOnRecord
<1> QED
  BY <1>2, <1>3, <1>4 DEF ServiceInv

\* A handler whose own state and whose dossier stay keeps its invariant.
LEMMA OtherHandler ==
  ASSUME NEW h \in Handlers, HandlerInv(h),
         pc'[h] = pc[h], call'[h] = call[h], copy'[h] = copy[h],
         outcome'[h] = outcome[h], UNCHANGED durableVars
  PROVE  HandlerInv(h)'
BY DEF HandlerInv, Loaded, IsOnRecord, durableVars

LEMMA SendInv ==
  ASSUME ServiceInv, NEW h \in Handlers, NEW c \in Calls, Send(h, c)
  PROVE  ServiceInv'
<1>1. TypeOK'
  BY DEF Send, ServiceInv, TypeOK, Stages, durableVars
<1>2. ASSUME NEW g \in Handlers PROVE HandlerInv(g)'
  <2>1. CASE g = h
    <3>1. /\ pc[h] = "idle" /\ pc'[h] = "waiting" /\ call'[h] = c
          /\ copy'[h] = copy[h] /\ outcome'[h] = outcome[h]
      BY DEF Send, ServiceInv, TypeOK
    <3>2. copy[h] = <<>> /\ outcome[h] = NoOutcome
      BY <3>1 DEF ServiceInv, HandlerInv
    <3> QED
      BY <2>1, <3>1, <3>2 DEF HandlerInv, NoOutcome
  <2>2. CASE g # h
    BY <2>2, OtherHandler DEF Send, ServiceInv, TypeOK
  <2> QED
    BY <2>1, <2>2
<1> QED
  BY <1>1, <1>2, QuietStep DEF Send

LEMMA LockInv ==
  ASSUME ServiceInv, NEW h \in Handlers, Lock(h)
  PROVE  ServiceInv'
<1>1. TypeOK'
  BY DEF Lock, Mutex!Acquire, ServiceInv, TypeOK, Stages, durableVars
<1>2. ASSUME NEW g \in Handlers PROVE HandlerInv(g)'
  <2>1. CASE g = h
    <3>1. /\ pc[h] = "waiting" /\ pc'[h] = "replaying" /\ call'[h] = call[h]
          /\ copy'[h] = copy[h] /\ outcome'[h] = outcome[h]
      BY DEF Lock, ServiceInv, TypeOK
    <3> QED
      BY <2>1, <3>1 DEF ServiceInv, HandlerInv, NoOutcome
  <2>2. CASE g # h
    BY <2>2, OtherHandler DEF Lock, ServiceInv, TypeOK
  <2> QED
    BY <2>1, <2>2
<1> QED
  BY <1>1, <1>2, QuietStep DEF Lock

\* Giving up with an error, at any point.
LEMMA ErrorInv ==
  ASSUME ServiceInv, NEW h \in Handlers, NEW e \in Errors,
         pc[h] \in {"replaying", "loading", "saving"}, Finish(h, e),
         UNCHANGED <<durableVars, holder, call, copy, answered>>
  PROVE  ServiceInv'
<1>1. TypeOK'
  BY DEF Finish, ServiceInv, TypeOK, Stages, durableVars
<1>2. ASSUME NEW g \in Handlers PROVE HandlerInv(g)'
  <2>1. CASE g = h
    <3>1. /\ pc'[h] = "unlocking" /\ call'[h] = call[h]
          /\ copy'[h] = copy[h] /\ outcome'[h] = e
      BY DEF Finish, ServiceInv, TypeOK
    <3>2. e.kind # "saved"
      BY DEF Errors
    <3>3. call[h] \in Calls
      BY DEF ServiceInv, HandlerInv
    <3> QED
      BY <2>1, <3>1, <3>2, <3>3 DEF HandlerInv
  <2>2. CASE g # h
    BY <2>2, OtherHandler DEF Finish, ServiceInv, TypeOK
  <2> QED
    BY <2>1, <2>2
<1> QED
  BY <1>1, <1>2, QuietStep

LEMMA FailInv ==
  ASSUME ServiceInv, NEW h \in Handlers, Fail(h)
  PROVE  ServiceInv'
<1>1. [kind |-> "failed"] \in Errors
  BY DEF Errors
<1> QED
  BY <1>1, ErrorInv DEF Fail

\* The same answer again is on record for the same request.
LEMMA ReplayKnownInv ==
  ASSUME ServiceInv, NEW h \in Handlers, ReplayKnown(h)
  PROVE  ServiceInv'
<1> DEFINE c == call[h]
<1>1. /\ pc[h] = "replaying" /\ c.rid \in RequestIds
      /\ receipts[c.rid] # NoReceipt
      /\ UNCHANGED <<durableVars, holder, call, copy, answered>>
  BY DEF ReplayKnown, IsKnown
<1>2. CASE ~Matches(h)
  <2>1. [kind |-> "failed"] \in Errors
    BY DEF Errors
  <2>2. Finish(h, [kind |-> "failed"])
    BY <1>2 DEF ReplayKnown
  <2> QED
    BY <1>1, <2>1, <2>2, ErrorInv
<1>3. CASE Matches(h)
  <2> DEFINE a == receipts[c.rid].answer
  <2>1. Finish(h, a)
    BY <1>3 DEF ReplayKnown
  <2>2. receipts[c.rid] \in Receipt
    BY <1>1 DEF ServiceInv, TypeOK
  <2>3. a \in Success
    BY <2>2 DEF Receipt
  <2>4. TypeOK'
    BY <1>1, <2>1, <2>3 DEF Finish, ServiceInv, TypeOK, Stages, durableVars
  <2>5. ASSUME NEW g \in Handlers PROVE HandlerInv(g)'
    <3>1. CASE g = h
      <4>1. /\ pc'[h] = "unlocking" /\ call'[h] = c /\ outcome'[h] = a
            /\ receipts' = receipts
        BY <1>1, <2>1 DEF Finish, ServiceInv, TypeOK, durableVars
      <4>2. c \in Calls
        BY <1>1 DEF ServiceInv, HandlerInv
      <4>3. IsOnRecord(c, a)
        BY <1>1, <1>3 DEF IsOnRecord, Matches
      <4> QED
        BY <3>1, <4>1, <4>2, <4>3 DEF HandlerInv, IsOnRecord
    <3>2. CASE g # h
      BY <3>2, <1>1, <2>1, OtherHandler DEF Finish, ServiceInv, TypeOK
    <3> QED
      BY <3>1, <3>2
  <2> QED
    BY <1>1, <2>4, <2>5, QuietStep
<1> QED
  BY <1>2, <1>3

\* A creation starts from nothing, which is a prefix of anything.
LEMMA ReplayNewInv ==
  ASSUME ServiceInv, NEW h \in Handlers, ReplayNew(h)
  PROVE  ServiceInv'
<1>1. TypeOK'
  BY DEF ReplayNew, ServiceInv, TypeOK, Stages, durableVars
<1>2. ASSUME NEW g \in Handlers PROVE HandlerInv(g)'
  <2>1. CASE g = h
    <3>1. /\ pc[h] = "replaying" /\ call'[h] = call[h] /\ copy'[h] = copy[h]
          /\ outcome'[h] = outcome[h] /\ log' = log /\ receipts' = receipts
          /\ call[h].rid # NoRequestId
          /\ pc'[h] = IF IsCreation(call[h]) THEN "saving" ELSE "loading"
      BY DEF ReplayNew, IsWellFormed, ServiceInv, TypeOK, durableVars
    <3>2. call[h] \in Calls /\ copy[h] = <<>> /\ outcome[h] = NoOutcome
      BY <3>1 DEF ServiceInv, HandlerInv
    <3>3. call[h].rid \in RequestIds /\ Target(call[h]) \in Dossiers
      BY <3>1, <3>2, CallType
    <3>4. ASSUME IsCreation(call[h]) PROVE Loaded(h)
      <4>1. call[h].expected = 0
        BY <3>2, <3>4, ServiceAssumption DEF IsCreation
      <4>2. log[Target(call[h])] \in Seq(Entries)
        BY <3>3 DEF ServiceInv, TypeOK
      <4>3. Len(log[Target(call[h])]) \in Nat
        BY <4>2
      <4> QED
        BY <3>2, <3>3, <4>1, <4>3 DEF Loaded, IsSealed
    <3>5. Loaded(h)' <=> Loaded(h)
      BY <3>1 DEF Loaded
    <3> QED
      BY <2>1, <3>1, <3>2, <3>3, <3>4, <3>5 DEF HandlerInv, NoOutcome
  <2>2. CASE g # h
    BY <2>2, OtherHandler DEF ReplayNew, ServiceInv, TypeOK
  <2> QED
    BY <2>1, <2>2
<1> QED
  BY <1>1, <1>2, QuietStep DEF ReplayNew

LEMMA LoadInv ==
  ASSUME ServiceInv, NEW h \in Handlers, Load(h)
  PROVE  ServiceInv'
<1> DEFINE c == call[h]
           stored == log[Target(c)]
<1>1. /\ pc[h] = "loading"
      /\ UNCHANGED <<durableVars, holder, call, answered>>
  BY DEF Load
<1>2. /\ c \in Calls /\ c.rid \in RequestIds /\ Target(c) \in Dossiers
      /\ stored \in Seq(Entries)
  BY <1>1, CallType DEF ServiceInv, HandlerInv, TypeOK
<1>4. CASE /\ pc' = [pc EXCEPT ![h] = "saving"] /\ UNCHANGED outcome
           /\ copy' = [copy EXCEPT ![h] = stored]
           /\ IsMutable(h) /\ IsExpected(h)
  <2>1. TypeOK'
    BY <1>1, <1>2, <1>4 DEF ServiceInv, TypeOK, Stages, durableVars
  <2>2. ASSUME NEW g \in Handlers PROVE HandlerInv(g)'
    <3>1. CASE g = h
      <4>1. /\ pc'[h] = "saving" /\ call'[h] = c /\ copy'[h] = stored
            /\ outcome'[h] = outcome[h] /\ log' = log /\ receipts' = receipts
        BY <1>1, <1>4 DEF ServiceInv, TypeOK, durableVars
      <4>2. outcome[h] = NoOutcome
        BY <1>1 DEF ServiceInv, HandlerInv
      <4>3. Len(stored) \in Nat /\ Len(stored) = c.expected /\ ~IsSealed(stored)
        BY <1>2, <1>4 DEF IsMutable, IsExpected
      <4>4. Loaded(h)'
        BY <1>2, <4>1, <4>3 DEF Loaded
      <4> QED
        BY <3>1, <1>2, <4>1, <4>2, <4>4 DEF HandlerInv, NoOutcome
    <3>2. CASE g # h
      BY <3>2, <1>1, <1>4, OtherHandler DEF ServiceInv, TypeOK
    <3> QED
      BY <3>1, <3>2
  <2> QED
    BY <1>1, <2>1, <2>2, QuietStep
<1>3. CASE \/ UNCHANGED copy /\ Finish(h, [kind |-> "sealed"])
           \/ UNCHANGED copy /\ Finish(h, [kind |-> "conflict"])
  <2>1. [kind |-> "sealed"] \in Errors /\ [kind |-> "conflict"] \in Errors
    BY DEF Errors
  <2> QED
    BY <1>1, <1>3, <2>1, ErrorInv
<1> QED
  BY <1>3, <1>4 DEF Load

LEMMA UnlockInv ==
  ASSUME ServiceInv, NEW h \in Handlers, Unlock(h)
  PROVE  ServiceInv'
<1>1. TypeOK'
  BY DEF Unlock, Mutex!Release, ServiceInv, TypeOK, Stages, durableVars
<1>2. ASSUME NEW g \in Handlers PROVE HandlerInv(g)'
  <2>1. CASE g = h
    <3>1. /\ pc[h] = "unlocking" /\ pc'[h] = "replying" /\ call'[h] = call[h]
          /\ copy'[h] = copy[h] /\ outcome'[h] = outcome[h] /\ receipts' = receipts
      BY DEF Unlock, ServiceInv, TypeOK, durableVars
    <3> QED
      BY <2>1, <3>1 DEF ServiceInv, HandlerInv, IsOnRecord
  <2>2. CASE g # h
    BY <2>2, OtherHandler DEF Unlock, ServiceInv, TypeOK
  <2> QED
    BY <2>1, <2>2
<1> QED
  BY <1>1, <1>2, QuietStep DEF Unlock

\* A handler that is done has forgotten everything.
LEMMA DoneInv ==
  ASSUME ServiceInv, NEW h \in Handlers, Done(h), NEW g \in Handlers
  PROVE  HandlerInv(g)'
<1>1. CASE g = h
  <2>1. /\ pc'[h] = "idle" /\ copy'[h] = <<>> /\ outcome'[h] = NoOutcome
    BY DEF Done, ServiceInv, TypeOK
  <2> QED
    BY <1>1, <2>1 DEF HandlerInv, NoOutcome
<1>2. CASE g # h
  BY <1>2, OtherHandler DEF Done, ServiceInv, TypeOK
<1> QED
  BY <1>1, <1>2

\* What is acknowledged is on record.
LEMMA ReplyInv ==
  ASSUME ServiceInv, NEW h \in Handlers, Reply(h) \/ LoseReply(h)
  PROVE  ServiceInv'
<1>1. pc[h] = "replying" /\ Done(h)
  BY DEF Reply, LoseReply
<1>2. \/ answered' = answered
      \/ /\ outcome[h].kind = "saved"
         /\ answered' = answered \cup {Answer(h)}
  <2>1. CASE LoseReply(h)
    BY <2>1 DEF LoseReply
  <2>2. CASE Reply(h) /\ outcome[h].kind = "saved"
    BY <2>2 DEF Reply
  <2>3. CASE Reply(h) /\ outcome[h].kind # "saved"
    BY <2>3 DEF Reply
  <2> QED
    BY <2>1, <2>2, <2>3
<1>3. CASE answered' = answered
  <2>1. TypeOK'
    BY <1>1, <1>3 DEF Done, ServiceInv, TypeOK, Stages, durableVars
  <2> QED
    BY <1>1, <1>3, <2>1, DoneInv, QuietStep DEF Done
<1>4. CASE outcome[h].kind = "saved" /\ answered' = answered \cup {Answer(h)}
  <2>1. outcome[h] \in Success
    BY <1>4 DEF ServiceInv, TypeOK, Errors, NoOutcome
  <2>2. call[h] \in Calls /\ IsOnRecord(call[h], outcome[h])
    BY <1>1, <1>4 DEF ServiceInv, HandlerInv
  <2>3. Answer(h) \in [call : Calls, dossier : Dossiers, revision : Nat \ {0}]
    BY <2>1, <2>2 DEF Success, Answer
  <2>4. AnswerOf(Answer(h)) = outcome[h] /\ Answer(h).call = call[h]
    BY <2>1 DEF Success, Answer, AnswerOf
  <2>5. TypeOK'
    BY <1>1, <1>4, <2>3 DEF Done, ServiceInv, TypeOK, Stages, durableVars
  <2>6. \A a \in answered' : a \in answered \/ IsOnRecord(a.call, AnswerOf(a))
    BY <1>4, <2>2, <2>4
  <2> QED
    BY <1>1, <2>5, <2>6, DoneInv, QuietStep DEF Done
<1> QED
  BY <1>2, <1>3, <1>4

\* A crash loses handlers and locks, not the database.
LEMMA CrashInv ==
  ASSUME ServiceInv, NEW i \in Instances, Crash(i)
  PROVE  ServiceInv'
<1>1. TypeOK'
  BY DEF Crash, ServiceInv, TypeOK, Stages, durableVars
<1>2. ASSUME NEW g \in Handlers PROVE HandlerInv(g)'
  <2>1. CASE On[g] = i
    <3>1. pc'[g] = "idle" /\ copy'[g] = <<>> /\ outcome'[g] = NoOutcome
      BY <2>1 DEF Crash
    <3> QED
      BY <3>1 DEF HandlerInv, NoOutcome
  <2>2. CASE On[g] # i
    BY <2>2, OtherHandler DEF Crash, ServiceInv
  <2> QED
    BY <2>1, <2>2
<1> QED
  BY <1>1, <1>2, QuietStep DEF Crash

-----------------------------------------------------------------------------
(***************************************************************************)
(* Save, the only step that changes the database.                          *)
(***************************************************************************)
Commits(h) ==
  /\ pc[h] = "saving"
  /\ IsCurrent(h)
  /\ IsNewId(h)
  /\ log' = [log EXCEPT ![Target(call[h])] = Append(copy[h], Entry(call[h]))]
  /\ receipts' = ReceiptsAfter(h)
  /\ Finish(h, Saved(h))
  /\ UNCHANGED <<holder, call, copy, answered>>

\* Equal revisions mean equal dossiers: the change is appended to what is
\* stored, and nothing else of the database changes.
LEMMA CommitAppends ==
  ASSUME ServiceInv, NEW h \in Handlers, Commits(h)
  PROVE  LET c == call[h]
             d == Target(call[h])
         IN  /\ c \in Calls /\ c.rid \in RequestIds /\ d \in Dossiers
             /\ receipts[c.rid] = NoReceipt
             /\ Len(log[d]) = c.expected
             /\ ~IsSealed(log[d])
             /\ log' = [log EXCEPT ![d] = Append(log[d], Entry(c))]
             /\ Saved(h) = [kind |-> "saved", dossier |-> d, revision |-> c.expected + 1]
<1> DEFINE c == call[h]
           d == Target(c)
<1>1. /\ c \in Calls /\ Loaded(h)
  BY DEF Commits, ServiceInv, HandlerInv
<1>2. c.rid \in RequestIds /\ d \in Dossiers
  BY <1>1, CallType DEF Loaded
<1>3. copy[h] \in Seq(Entries) /\ log[d] \in Seq(Entries)
  BY <1>2 DEF ServiceInv, TypeOK
<1>4. Len(copy[h]) = Len(log[d])
  BY DEF Commits, IsCurrent
<1>5. copy[h] = log[d]
  BY <1>1, <1>3, <1>4, SeqEqual DEF Loaded
<1> QED
  BY <1>1, <1>2, <1>5 DEF Commits, IsNewId, IsKnown, Loaded, Saved

\* What that means for the stored dossiers: all that was there stays, and one
\* entry is new.
LEMMA LogGrows ==
  ASSUME ServiceInv, NEW h \in Handlers, Commits(h)
  PROVE  LET c == call[h]
             d == Target(call[h])
         IN  /\ log' \in [Dossiers -> Seq(Entries)]
             /\ \A e \in Dossiers : \A m \in DOMAIN log[e] :
                  m \in DOMAIN log'[e] /\ log'[e][m] = log[e][m]
             /\ \A e \in Dossiers : \A m \in DOMAIN log'[e] :
                  m \in DOMAIN log[e] \/ (e = d /\ m = c.expected + 1)
             /\ \A e \in Dossiers : Len(log[e]) <= Len(log'[e])
             /\ c.expected + 1 \in DOMAIN log'[d]
             /\ log'[d][c.expected + 1] = Entry(c)
             /\ Len(log'[d]) = c.expected + 1
<1> DEFINE c == call[h]
           d == Target(c)
<1>1. /\ c \in Calls /\ c.rid \in RequestIds /\ d \in Dossiers
      /\ Len(log[d]) = c.expected
      /\ log' = [log EXCEPT ![d] = Append(log[d], Entry(c))]
  BY CommitAppends
<1>2. Entry(c) \in Entries
  BY <1>1, CallType DEF Entry, Entries
<1>3. log \in [Dossiers -> Seq(Entries)]
  BY DEF ServiceInv, TypeOK
<1>4. log' \in [Dossiers -> Seq(Entries)]
  BY <1>1, <1>2, <1>3
<1>5. /\ log'[d] = Append(log[d], Entry(c))
      /\ \A e \in Dossiers : e # d => log'[e] = log[e]
  BY <1>1, <1>3
<1>6. /\ Len(log'[d]) = Len(log[d]) + 1
      /\ \A m \in 1..Len(log[d]) : log'[d][m] = log[d][m]
      /\ log'[d][Len(log[d]) + 1] = Entry(c)
  BY <1>1, <1>2, <1>3, <1>5, AppendProperties
<1>7. \A e \in Dossiers : /\ Len(log[e]) \in Nat /\ DOMAIN log[e] = 1..Len(log[e])
                          /\ Len(log'[e]) \in Nat /\ DOMAIN log'[e] = 1..Len(log'[e])
  BY <1>3, <1>4, LenProperties
<1>8. \A e \in Dossiers : \A m \in DOMAIN log[e] :
        m \in DOMAIN log'[e] /\ log'[e][m] = log[e][m]
  BY <1>1, <1>5, <1>6, <1>7
<1>9. \A e \in Dossiers : \A m \in DOMAIN log'[e] :
        m \in DOMAIN log[e] \/ (e = d /\ m = c.expected + 1)
  BY <1>1, <1>5, <1>6, <1>7
<1>10. \A e \in Dossiers : Len(log[e]) <= Len(log'[e])
  BY <1>1, <1>5, <1>6, <1>7
<1> QED
  BY <1>1, <1>4, <1>6, <1>7, <1>8, <1>9, <1>10

LEMMA CommitType ==
  ASSUME ServiceInv, NEW h \in Handlers, Commits(h)
  PROVE  TypeOK'
<1> DEFINE c == call[h]
           d == Target(c)
           receipt == [fingerprint |-> Fingerprint(c), answer |-> Saved(h)]
<1>1. /\ c \in Calls /\ c.rid \in RequestIds /\ d \in Dossiers
      /\ Saved(h) = [kind |-> "saved", dossier |-> d, revision |-> c.expected + 1]
  BY CommitAppends
<1>2. c.expected + 1 \in Nat \ {0}
  BY <1>1, CallType
<1>3. Saved(h) \in Success
  BY <1>1, <1>2 DEF Success
<1>4. receipt \in Receipt
  BY <1>1, <1>3, CallType DEF Receipt
<1>5. receipts' = [receipts EXCEPT ![c.rid] = receipt]
  BY DEF Commits, ReceiptsAfter
<1>6. receipts' \in [RequestIds -> Receipt \cup {NoReceipt}]
  BY <1>1, <1>4, <1>5 DEF ServiceInv, TypeOK
<1>7. outcome' \in [Handlers -> Success \cup Errors \cup {NoOutcome}]
  BY <1>3 DEF Commits, Finish, ServiceInv, TypeOK
<1>8. pc' \in [Handlers -> Stages]
  BY DEF Commits, Finish, ServiceInv, TypeOK, Stages
<1>9. log' \in [Dossiers -> Seq(Entries)]
  BY LogGrows
<1> QED
  BY <1>6, <1>7, <1>8, <1>9 DEF Commits, ServiceInv, TypeOK

\* The receipt is new, and the others stay.
LEMMA ReceiptIsNew ==
  ASSUME ServiceInv, NEW h \in Handlers, Commits(h)
  PROVE  LET c == call[h]
         IN  /\ receipts'[c.rid] =
                  [fingerprint |-> Fingerprint(c), answer |-> Saved(h)]
             /\ receipts'[c.rid].answer = Saved(h)
             /\ receipts'[c.rid].fingerprint = Fingerprint(c)
             /\ receipts'[c.rid] # NoReceipt
             /\ \A r \in RequestIds : receipts[r] # NoReceipt =>
                  r # c.rid /\ receipts'[r] = receipts[r]
             /\ \A r \in RequestIds : r # c.rid => receipts'[r] = receipts[r]
<1> DEFINE c == call[h]
           receipt == [fingerprint |-> Fingerprint(c), answer |-> Saved(h)]
<1>1. /\ c.rid \in RequestIds /\ receipts[c.rid] = NoReceipt
      /\ c \in Calls /\ Target(c) \in Dossiers
      /\ Saved(h) = [kind |-> "saved", dossier |-> Target(c),
                     revision |-> c.expected + 1]
  BY CommitAppends
<1>2. receipts' = [receipts EXCEPT ![c.rid] = receipt]
  BY DEF Commits, ReceiptsAfter
<1>3. receipts \in [RequestIds -> Receipt \cup {NoReceipt}]
  BY DEF ServiceInv, TypeOK
<1>4. c.expected + 1 \in Nat \ {0}
  BY <1>1, CallType
<1>5. Saved(h) \in Success
  BY <1>1, <1>4 DEF Success
<1>6. receipt \in Receipt
  BY <1>1, <1>5, CallType DEF Receipt
<1> QED
  BY <1>1, <1>2, <1>3, <1>6, ServiceAssumption

\* The other handlers: their copies are still prefixes, their answers on record.
LEMMA CommitHandlers ==
  ASSUME ServiceInv, NEW h \in Handlers, Commits(h), NEW g \in Handlers
  PROVE  HandlerInv(g)'
<1>1. CASE g = h
  <2>1. /\ pc'[h] = "unlocking" /\ call'[h] = call[h] /\ outcome'[h] = Saved(h)
    BY DEF Commits, Finish, ServiceInv, TypeOK
  <2>2. call[h] \in Calls /\ call[h].rid \in RequestIds
    BY CommitAppends
  <2>3. IsOnRecord(call[h], Saved(h))'
    <3>1. /\ receipts'[call[h].rid] =
               [fingerprint |-> Fingerprint(call[h]), answer |-> Saved(h)]
          /\ receipts'[call[h].rid] # NoReceipt
      BY ReceiptIsNew
    <3>2. call' = call /\ copy' = copy
      BY DEF Commits
    <3> QED
      BY <2>2, <3>1, <3>2 DEF IsOnRecord, Saved
  <2>4. Saved(h)' = Saved(h)
    BY DEF Commits, Saved
  <2> QED
    BY <1>1, <2>1, <2>2, <2>3, <2>4 DEF HandlerInv
<1>2. CASE g # h
  <2>1. /\ pc'[g] = pc[g] /\ call'[g] = call[g] /\ copy'[g] = copy[g]
        /\ outcome'[g] = outcome[g]
    BY <1>2 DEF Commits, Finish, ServiceInv, TypeOK
  <2>2. HandlerInv(g)
    BY DEF ServiceInv
  <2>3. ASSUME pc[g] = "saving" PROVE Loaded(g)'
    <3>1. Loaded(g) /\ call[g] \in Calls
      BY <2>2, <2>3 DEF HandlerInv
    <3>2. Target(call[g]) \in Dossiers
      BY <3>1, CallType
    <3> DEFINE d == Target(call[g])
    <3>3. /\ log[d] \in Seq(Entries) /\ log'[d] \in Seq(Entries)
          /\ copy[g] \in Seq(Entries)
      BY <3>2, LogGrows DEF ServiceInv, TypeOK
    <3>4. /\ Len(log[d]) <= Len(log'[d])
          /\ \A m \in DOMAIN log[d] : log'[d][m] = log[d][m]
      BY <3>2, LogGrows
    <3>5. /\ Len(log[d]) \in Nat /\ DOMAIN log[d] = 1..Len(log[d])
          /\ Len(log'[d]) \in Nat /\ Len(copy[g]) \in Nat
      BY <3>3, LenProperties
    <3>6. Len(copy[g]) <= Len(log'[d])
      BY <3>1, <3>4, <3>5 DEF Loaded
    <3>7. \A n \in 1..Len(copy[g]) : copy[g][n] = log'[d][n]
      BY <3>1, <3>4, <3>5 DEF Loaded
    <3> QED
      BY <2>1, <3>1, <3>6, <3>7 DEF Loaded
  <2>4. ASSUME outcome[g].kind = "saved" PROVE IsOnRecord(call[g], outcome[g])'
    <3>1. IsOnRecord(call[g], outcome[g])
      BY <2>2, <2>4 DEF HandlerInv
    <3>2. receipts'[call[g].rid] = receipts[call[g].rid]
      BY <3>1, ReceiptIsNew DEF IsOnRecord
    <3> QED
      BY <2>1, <3>1, <3>2 DEF IsOnRecord
  <2> QED
    BY <2>1, <2>2, <2>3, <2>4 DEF HandlerInv
<1> QED
  BY <1>1, <1>2

LEMMA CommitReceipts ==
  ASSUME ServiceInv, NEW h \in Handlers, Commits(h)
  PROVE  ReceiptsMatchLog'
<1> DEFINE c == call[h]
           d == Target(c)
<1>1. /\ c \in Calls /\ c.rid \in RequestIds /\ d \in Dossiers
      /\ receipts[c.rid] = NoReceipt
      /\ Saved(h) = [kind |-> "saved", dossier |-> d, revision |-> c.expected + 1]
  BY CommitAppends
<1>2. ASSUME NEW r \in RequestIds, receipts'[r] # NoReceipt
      PROVE  LET a == receipts'[r].answer
             IN  a.revision \in DOMAIN log'[a.dossier] /\ log'[a.dossier][a.revision].rid = r
  <2>1. CASE r = c.rid
    <3>1. receipts'[r].answer = Saved(h)
      BY <2>1, ReceiptIsNew
    <3>2. c.expected + 1 \in DOMAIN log'[d] /\ log'[d][c.expected + 1] = Entry(c)
      BY LogGrows
    <3>3. Entry(c).rid = c.rid
      BY DEF Entry
    <3> QED
      BY <2>1, <3>1, <3>2, <3>3, <1>1
  <2>2. CASE r # c.rid
    <3>1. receipts'[r] = receipts[r]
      BY <2>2, ReceiptIsNew
    <3>2. receipts[r] \in Receipt
      BY <1>2, <3>1 DEF ServiceInv, TypeOK
    <3>3. receipts[r].answer \in Success
      BY <3>2 DEF Receipt
    <3>4. receipts[r].answer.dossier \in Dossiers
      BY <3>3 DEF Success
    <3>5. /\ receipts[r].answer.revision \in DOMAIN log[receipts[r].answer.dossier]
          /\ log[receipts[r].answer.dossier][receipts[r].answer.revision].rid = r
      BY <1>2, <3>1 DEF ServiceInv, ReceiptsMatchLog
    <3> QED
      BY <3>1, <3>4, <3>5, LogGrows
  <2> QED
    BY <2>1, <2>2
<1>3. ASSUME NEW e \in Dossiers, NEW m \in DOMAIN log'[e]
      PROVE  LET receipt == receipts'[log'[e][m].rid]
             IN  /\ receipt # NoReceipt
                 /\ receipt.answer = [kind |-> "saved", dossier |-> e, revision |-> m]
  <2>1. CASE m \in DOMAIN log[e]
    <3>1. log'[e][m] = log[e][m]
      BY <2>1, LogGrows
    <3>2. /\ receipts[log[e][m].rid] # NoReceipt
          /\ receipts[log[e][m].rid].answer =
               [kind |-> "saved", dossier |-> e, revision |-> m]
      BY <2>1 DEF ServiceInv, ReceiptsMatchLog
    <3>3. log[e] \in Seq(Entries)
      BY DEF ServiceInv, TypeOK
    <3>4. log[e][m] \in Entries
      BY <2>1, <3>3, ElementOfSeq, LenProperties
    <3>5. log[e][m].rid \in RequestIds
      BY <3>4 DEF Entries
    <3> QED
      BY <3>1, <3>2, <3>5, ReceiptIsNew
  <2>2. CASE e = d /\ m = c.expected + 1
    <3>1. log'[e][m] = Entry(c)
      BY <2>2, LogGrows
    <3>2. receipts'[c.rid].answer = Saved(h) /\ receipts'[c.rid] # NoReceipt
      BY ReceiptIsNew
    <3>3. Entry(c).rid = c.rid
      BY DEF Entry
    <3> QED
      BY <2>2, <3>1, <3>2, <3>3, <1>1
  <2> QED
    BY <2>1, <2>2, <1>3, LogGrows
<1> QED
  BY <1>2, <1>3 DEF ReceiptsMatchLog

\* The dossier that was changed was not sealed.
LEMMA CommitSeals ==
  ASSUME ServiceInv, NEW h \in Handlers, Commits(h)
  PROVE  SealedIsFinal'
<1> DEFINE c == call[h]
           d == Target(c)
<1>1. d \in Dossiers /\ ~IsSealed(log[d])
  BY CommitAppends
<1>2. log \in [Dossiers -> Seq(Entries)] /\ log' \in [Dossiers -> Seq(Entries)]
  BY LogGrows DEF ServiceInv, TypeOK
<1>3. /\ log' = [log EXCEPT ![d] = Append(log[d], Entry(c))]
  BY CommitAppends
<1> SUFFICES ASSUME NEW e \in Dossiers, NEW m \in DOMAIN log'[e],
                    log'[e][m].input \in Seals
             PROVE  m = Len(log'[e])
  BY DEF SealedIsFinal
<1>4. CASE e # d
  <2>1. log'[e] = log[e]
    BY <1>2, <1>3, <1>4
  <2> QED
    BY <2>1 DEF ServiceInv, SealedIsFinal
<1>5. CASE e = d
  <2>1. m \in DOMAIN log[d] \/ m = c.expected + 1
    BY <1>5, LogGrows
  <2>2. CASE m \in DOMAIN log[d]
    <3>1. log'[d][m] = log[d][m]
      BY <1>1, <2>2, LogGrows
    <3> QED
      BY <1>1, <1>5, <2>2, <3>1 DEF IsSealed
  <2>3. CASE m = c.expected + 1
    <3>1. Len(log'[d]) = c.expected + 1
      BY LogGrows
    <3> QED
      BY <1>5, <2>3, <3>1
  <2> QED
    BY <2>1, <2>2, <2>3
<1> QED
  BY <1>4, <1>5

LEMMA CommitOrigins ==
  ASSUME ServiceInv, NEW h \in Handlers, Commits(h),
         NEW r \in RequestIds, receipts'[r] # NoReceipt
  PROVE  ReceiptHasOrigin(r)'
<1>1. CASE r = call[h].rid
  <2>1. /\ call[h] \in Calls
        /\ Saved(h) = [kind |-> "saved", dossier |-> Target(call[h]),
                       revision |-> call[h].expected + 1]
    BY CommitAppends
  <2>2. /\ receipts'[r].answer = Saved(h)
        /\ receipts'[r].fingerprint = Fingerprint(call[h])
    BY <1>1, ReceiptIsNew
  <2>3. /\ call[h].expected + 1 \in DOMAIN log'[Target(call[h])]
        /\ log'[Target(call[h])][call[h].expected + 1] = Entry(call[h])
    BY LogGrows
  <2> QED
    BY <1>1, <2>1, <2>2, <2>3 DEF ReceiptHasOrigin
<1>2. CASE r # call[h].rid
  <2>1. receipts'[r] = receipts[r] /\ receipts[r] # NoReceipt
    BY <1>2, ReceiptIsNew
  <2>2. ReceiptHasOrigin(r)
    BY <2>1 DEF ServiceInv
  <2>3. PICK c \in Calls :
          /\ c.rid = r
          /\ receipts[r].fingerprint = Fingerprint(c)
          /\ receipts[r].answer =
               [kind |-> "saved", dossier |-> Target(c), revision |-> c.expected + 1]
          /\ c.expected + 1 \in DOMAIN log[Target(c)]
          /\ log[Target(c)][c.expected + 1] = Entry(c)
    BY <2>2 DEF ReceiptHasOrigin
  <2>4. Target(c) \in Dossiers
    BY CallType
  <2>5. /\ c.expected + 1 \in DOMAIN log'[Target(c)]
        /\ log'[Target(c)][c.expected + 1] = Entry(c)
    BY <2>3, <2>4, LogGrows
  <2> QED
    BY <2>1, <2>3, <2>5 DEF ReceiptHasOrigin
<1> QED
  BY <1>1, <1>2

LEMMA CommitInv ==
  ASSUME ServiceInv, NEW h \in Handlers, Commits(h)
  PROVE  ServiceInv'
<1>1. \A a \in answered' : IsOnRecord(a.call, AnswerOf(a))'
  <2> SUFFICES ASSUME NEW a \in answered
               PROVE  IsOnRecord(a.call, AnswerOf(a))'
    BY DEF Commits
  <2>1. IsOnRecord(a.call, AnswerOf(a))
    BY DEF ServiceInv
  <2>2. receipts'[a.call.rid] = receipts[a.call.rid]
    BY <2>1, ReceiptIsNew DEF IsOnRecord
  <2> QED
    BY <2>1, <2>2 DEF IsOnRecord
<1> QED
  BY <1>1, CommitType, CommitHandlers, CommitReceipts, CommitSeals, CommitOrigins
  DEF ServiceInv

LEMMA SaveInv ==
  ASSUME ServiceInv, NEW h \in Handlers, Save(h)
  PROVE  ServiceInv'
<1>1. CASE Commits(h)
  BY <1>1, CommitInv
<1>2. CASE /\ Finish(h, [kind |-> "conflict"])
           /\ UNCHANGED durableVars
  <2>1. [kind |-> "conflict"] \in Errors
    BY DEF Errors
  <2>2. pc[h] = "saving" /\ UNCHANGED <<durableVars, holder, call, copy, answered>>
    BY <1>2 DEF Save
  <2> QED
    BY <1>2, <2>1, <2>2, ErrorInv
<1> QED
  BY <1>1, <1>2 DEF Save, Commits

-----------------------------------------------------------------------------
LEMMA StutterInv ==
  ASSUME ServiceInv, UNCHANGED serviceVars
  PROVE  ServiceInv'
<1>1. TypeOK'
  BY DEF serviceVars, durableVars, handlerVars, ServiceInv, TypeOK
<1>2. \A h \in Handlers : HandlerInv(h)'
  BY OtherHandler DEF serviceVars, handlerVars, ServiceInv
<1> QED
  BY <1>1, <1>2, QuietStep DEF serviceVars

LEMMA NextInv ==
  ASSUME ServiceInv, [Next]_serviceVars
  PROVE  ServiceInv'
<1>1. ASSUME NEW h \in Handlers, Work(h) PROVE ServiceInv'
  BY <1>1, ReplayKnownInv, ReplayNewInv, LoadInv, SaveInv, FailInv, UnlockInv
  DEF Work
<1>2. ASSUME NEW h \in Handlers, NEW c \in Calls, Send(h, c) PROVE ServiceInv'
  BY <1>2, SendInv
<1>3. ASSUME NEW h \in Handlers, Lock(h) \/ Reply(h) \/ LoseReply(h)
      PROVE  ServiceInv'
  BY <1>3, LockInv, ReplyInv
<1>4. ASSUME NEW i \in Instances, Crash(i) PROVE ServiceInv'
  BY <1>4, CrashInv
<1> QED
  BY <1>1, <1>2, <1>3, <1>4, StutterInv DEF Next

LEMMA ServiceInvariant == Safety => []ServiceInv
<1>1. Init => ServiceInv
  BY InitInv
<1>2. ServiceInv /\ [Next]_serviceVars => ServiceInv'
  BY NextInv
<1> QED
  BY <1>1, <1>2, PTL DEF Safety

\* Every part of the state of the service keeps its type.
THEOREM ServiceTypeCorrect == Safety => []TypeOK
<1>1. ServiceInv => TypeOK
  BY DEF ServiceInv
<1> QED
  BY <1>1, ServiceInvariant, PTL

\* The request ids on record and the changes in the dossiers match one to one,
\* whatever crashes or runs beside: no request takes effect twice.
THEOREM AppliedOnce == Safety => []ReceiptsMatchLog
<1>1. ServiceInv => ReceiptsMatchLog
  BY DEF ServiceInv
<1> QED
  BY <1>1, ServiceInvariant, PTL

\* No process changes a dossier after the request that sealed it.
THEOREM SealsHold == Safety => []SealedIsFinal
<1>1. ServiceInv => SealedIsFinal
  BY DEF ServiceInv
<1> QED
  BY <1>1, ServiceInvariant, PTL

-----------------------------------------------------------------------------
(***************************************************************************)
(* The service implements Ledger: Save is Apply, Reply is Acknowledge, and *)
(* everything else, crashes included, is invisible.                        *)
(***************************************************************************)
Acknowledged ==
  {[request |-> AsRequest(a.call), revision |-> a.revision] : a \in answered}

LEMMA CommitApplies ==
  ASSUME ServiceInv, NEW h \in Handlers, Commits(h)
  PROVE  L!Next
<1> DEFINE c == call[h]
           d == Target(c)
           r == AsRequest(c)
<1>1. /\ c \in Calls /\ c.rid \in RequestIds /\ d \in Dossiers
      /\ receipts[c.rid] = NoReceipt
      /\ Len(log[d]) = c.expected
      /\ ~IsSealed(log[d])
      /\ log' = [log EXCEPT ![d] = Append(log[d], Entry(c))]
  BY CommitAppends
<1>2. r.dossier = d /\ r.rid = c.rid /\ r.input = c.input /\ r.expected = c.expected
  BY DEF AsRequest
<1>3. ~L!IsSealed(d)
  BY <1>1 DEF L!IsSealed, IsSealed
<1>4. ~L!IsUsed(c.rid)
  BY <1>1 DEF L!IsUsed, ServiceInv, ReceiptsMatchLog
<1>5. log' = [log EXCEPT ![d] = Append(@, [rid |-> r.rid, input |-> r.input])]
  BY <1>1, <1>2 DEF Entry
<1>6. Acknowledged' = Acknowledged
  BY DEF Commits, Acknowledged
<1>7. L!Apply(r)
  BY <1>1, <1>2, <1>3, <1>4, <1>5, <1>6 DEF L!Apply, Acknowledged
<1> QED
  BY <1>1, <1>7 DEF L!Next

\* What is acknowledged has taken effect as it was asked for, if different
\* requests have different ids.
LEMMA ReplyAcknowledges ==
  ASSUME RequestsAreDistinct, ServiceInv, NEW h \in Handlers,
         pc[h] = "replying", outcome[h].kind = "saved",
         answered' = answered \cup {Answer(h)}, log' = log
  PROVE  L!Next
<1> DEFINE c == call[h]
           a == outcome[h]
<1>1. c \in Calls /\ IsOnRecord(c, a)
  BY DEF ServiceInv, HandlerInv
<1>2. ReceiptHasOrigin(c.rid)
  BY <1>1 DEF IsOnRecord, ServiceInv
<1>3. PICK e \in Calls :
        /\ e.rid = c.rid
        /\ receipts[c.rid].fingerprint = Fingerprint(e)
        /\ receipts[c.rid].answer =
             [kind |-> "saved", dossier |-> Target(e), revision |-> e.expected + 1]
        /\ e.expected + 1 \in DOMAIN log[Target(e)]
        /\ log[Target(e)][e.expected + 1] = Entry(e)
  BY <1>2 DEF ReceiptHasOrigin
<1>4. Fingerprint(e) = Fingerprint(c)
  BY <1>1, <1>3 DEF IsOnRecord
<1>5. Target(e) = Target(c)
  BY <1>1, <1>3, <1>4 DEF RequestsAreDistinct
<1>6. e.input = c.input /\ e.expected = c.expected
  <2>1. Fingerprint(e).input = e.input /\ Fingerprint(c).input = c.input
    BY DEF Fingerprint
  <2>2. Fingerprint(e).expected = e.expected /\ Fingerprint(c).expected = c.expected
    BY <1>1, ServiceAssumption DEF Fingerprint, IsCreation
  <2> QED
    BY <1>4, <2>1, <2>2
<1>r. PICK r \in {AsRequest(q) : q \in Calls} : r = AsRequest(c)
  BY <1>1
<1>n. PICK n \in DOMAIN log[Target(c)] : n = c.expected + 1
  BY <1>3, <1>5, <1>6
<1>7. r.dossier = Target(c) /\ r.rid = c.rid /\ r.input = c.input
      /\ r.expected = c.expected
  BY <1>r DEF AsRequest
<1>8. a.revision = n
  <2>1. a = [kind |-> "saved", dossier |-> Target(e), revision |-> e.expected + 1]
    BY <1>1, <1>3 DEF IsOnRecord
  <2> QED
    BY <2>1, <1>6, <1>n
<1>9. n \in DOMAIN log[r.dossier]
      /\ log[r.dossier][n] = [rid |-> r.rid, input |-> r.input]
  BY <1>3, <1>5, <1>6, <1>7, <1>n DEF Entry
<1>10. Acknowledged' = Acknowledged \cup {[request |-> r, revision |-> n]}
  <2>1. Answer(h).call = c /\ Answer(h).revision = n
    BY <1>8 DEF Answer
  <2> QED
    BY <2>1, <1>r DEF Acknowledged
<1>11. L!Acknowledge(r, n)
  BY <1>7, <1>9, <1>10, <1>n DEF L!Acknowledge, Acknowledged
<1> QED
  BY <1>9, <1>11 DEF L!Next

LEMMA LedgerStep ==
  ASSUME RequestsAreDistinct, ServiceInv, [Next]_serviceVars
  PROVE  [L!Next]_<<log, Acknowledged>>
<1>1. ASSUME UNCHANGED <<durableVars, answered>>
      PROVE  UNCHANGED <<log, Acknowledged>>
  BY <1>1 DEF durableVars, Acknowledged
<1>2. ASSUME NEW h \in Handlers, Save(h)
      PROVE  [L!Next]_<<log, Acknowledged>>
  <2>1. Commits(h) \/ UNCHANGED <<durableVars, answered>>
    BY <1>2 DEF Save, Commits
  <2> QED
    BY <2>1, <1>1, CommitApplies
<1>3. ASSUME NEW h \in Handlers, Reply(h)
      PROVE  [L!Next]_<<log, Acknowledged>>
  <2>1. CASE outcome[h].kind = "saved"
    BY <2>1, <1>3, ReplyAcknowledges DEF Reply, Done, durableVars
  <2>2. CASE outcome[h].kind # "saved"
    BY <2>2, <1>3, <1>1 DEF Reply, Done
  <2> QED
    BY <2>1, <2>2
<1>4. ASSUME NEW h \in Handlers,
             \/ \E c \in Calls : Send(h, c)
             \/ Lock(h) \/ ReplayKnown(h) \/ ReplayNew(h) \/ Load(h) \/ Fail(h)
             \/ Unlock(h) \/ LoseReply(h)
      PROVE  UNCHANGED <<log, Acknowledged>>
  BY <1>4, <1>1
  DEF Send, Lock, ReplayKnown, ReplayNew, Load, Fail, Unlock, LoseReply, Done
<1>5. ASSUME NEW i \in Instances, Crash(i)
      PROVE  UNCHANGED <<log, Acknowledged>>
  BY <1>5, <1>1 DEF Crash
<1>6. ASSUME UNCHANGED serviceVars
      PROVE  UNCHANGED <<log, Acknowledged>>
  BY <1>6, <1>1 DEF serviceVars
<1> QED
  BY <1>2, <1>3, <1>4, <1>5, <1>6 DEF Next, Work

\* If different requests have different ids, the service keeps the promise of
\* Ledger: at most once, in order, on the expected revision, never after the
\* seal, and no acknowledgement of what is not stored.
THEOREM ServiceIsLedger ==
  ASSUME RequestsAreDistinct
  PROVE  Safety => ImplementsLedger
<1>1. Init => L!Init
  BY DEF Init, L!Init
<1>2. ServiceInv /\ [Next]_serviceVars => [L!Next]_<<log, Acknowledged>>
  BY LedgerStep
<1> QED
  BY <1>1, <1>2, ServiceInvariant, PTL
  DEF Safety, ImplementsLedger, L!Spec, L!ledgerVars, Acknowledged

\* A retry is recognised by its id and its fingerprint, and the dossier is in
\* neither.  If no two requests that agree in both are for different dossiers,
\* every answer is about the dossier that was asked for.
THEOREM AnswersAreAboutTheRequest ==
  ASSUME RequestsAreDistinct
  PROVE  Safety => []AnswersAreOwn
<1>1. ASSUME ServiceInv, NEW a \in answered
      PROVE  a.dossier = Target(a.call)
  <2>1. a.call \in Calls /\ IsOnRecord(a.call, AnswerOf(a))
    BY <1>1 DEF ServiceInv, TypeOK
  <2>2. PICK e \in Calls :
          /\ e.rid = a.call.rid
          /\ receipts[a.call.rid].fingerprint = Fingerprint(e)
          /\ receipts[a.call.rid].answer =
               [kind |-> "saved", dossier |-> Target(e), revision |-> e.expected + 1]
    BY <1>1, <2>1 DEF ServiceInv, IsOnRecord, ReceiptHasOrigin
  <2>3. Target(e) = Target(a.call)
    BY <2>1, <2>2 DEF IsOnRecord, RequestsAreDistinct
  <2>4. a.dossier = Target(e)
    BY <2>1, <2>2 DEF IsOnRecord, AnswerOf
  <2> QED
    BY <2>3, <2>4
<1>2. ServiceInv => AnswersAreOwn
  BY <1>1 DEF AnswersAreOwn
<1> QED
  BY <1>2, ServiceInvariant, PTL

-----------------------------------------------------------------------------
(***************************************************************************)
(* One process.  Here the locks count: a handler at work holds the lock of *)
(* the id its client spelled, and of the mutations only those that spell   *)
(* it as it is stored get as far as the dossier.  A creation may hold      *)
(* another lock, but saves only where nothing is stored yet.               *)
(***************************************************************************)
OneProcess == \A h, g \in Handlers : On[h] = On[g]

LEMMA SingleInstance ==
  ASSUME IsFiniteSet(Instances), Cardinality(Instances) = 1
  PROVE  OneProcess
<1>1. PICK i : Instances = {i}
  BY FS_Singleton
<1> QED
  BY <1>1, ServiceAssumption DEF OneProcess

AtWork(h) == pc[h] \in {"replaying", "loading", "saving", "unlocking"}

\* A mutation under way that spells the id as it is stored.
ChangesStored(h) ==
  /\ pc[h] \in {"loading", "saving"}
  /\ ~IsCreation(call[h])
  /\ call[h].key \in Dossiers

LockPart(h) ==
  /\ AtWork(h) => holder[LockOf(h)] = h
  /\ pc[h] = "loading" => ~IsCreation(call[h])
  /\ pc[h] = "saving" /\ ~IsCreation(call[h]) =>
       /\ call[h].key \in Dossiers
       /\ copy[h] = log[Target(call[h])]
       /\ copy[h] # <<>>
  /\ ChangesStored(h) =>
       \A n \in DOMAIN log[Target(call[h])] : log[Target(call[h])][n] # Entry(call[h])

LocksInv == ServiceInv /\ \A h \in Handlers : LockPart(h)

\* A handler that does nothing keeps its part, if its lock and the dossiers stay.
LEMMA OtherLock ==
  ASSUME NEW g \in Handlers, LockPart(g), log' = log,
         pc'[g] = pc[g], call'[g] = call[g], copy'[g] = copy[g],
         AtWork(g) => holder'[LockOf(g)] = holder[LockOf(g)]
  PROVE  LockPart(g)'
BY DEF LockPart, AtWork, ChangesStored, LockOf

\* A handler that is not, or no more, before its answer.
LEMMA AnsweredLock ==
  ASSUME NEW h \in Handlers, pc'[h] \notin {"replaying", "loading", "saving"},
         pc'[h] = "unlocking" => holder'[LockOf(h)'] = h
  PROVE  LockPart(h)'
BY DEF LockPart, AtWork, ChangesStored

\* The lock a handler works under is one of the lock table.
LEMMA LockIsThere ==
  ASSUME ServiceInv, NEW h \in Handlers, pc[h] # "idle"
  PROVE  call[h] \in Calls /\ LockOf(h) \in Locks /\ Target(call[h]) \in Dossiers
<1>1. call[h] \in Calls
  BY DEF ServiceInv, HandlerInv
<1>2. call[h].key \in Keys /\ Target(call[h]) \in Dossiers
  BY <1>1, CallType
<1> QED
  BY <1>1, <1>2, ServiceAssumption DEF LockOf, Locks

\* A handler that finishes keeps its lock, and everybody else everything.
LEMMA FinishLocks ==
  ASSUME LocksInv, NEW h \in Handlers, NEW result, Finish(h, result),
         pc[h] \in {"replaying", "loading", "saving"},
         UNCHANGED <<log, holder, call, copy>>,
         NEW g \in Handlers
  PROVE  LockPart(g)'
<1>1. CASE g = h
  <2>1. pc'[h] = "unlocking" /\ LockOf(h)' = LockOf(h)
    BY DEF Finish, LocksInv, ServiceInv, TypeOK, LockOf
  <2>2. holder[LockOf(h)] = h
    BY DEF LocksInv, LockPart, AtWork
  <2> QED
    BY <1>1, <2>1, <2>2, AnsweredLock
<1>2. CASE g # h
  <2>1. pc'[g] = pc[g]
    BY <1>2 DEF Finish, LocksInv, ServiceInv, TypeOK
  <2> QED
    BY <2>1, OtherLock DEF LocksInv
<1> QED
  BY <1>1, <1>2

LEMMA AcquireLocks ==
  ASSUME LocksInv, NEW h \in Handlers, Lock(h), NEW g \in Handlers
  PROVE  LockPart(g)'
<1>1. /\ pc[h] = "waiting"
      /\ holder[LockOf(h)] = Nobody
      /\ holder' = [holder EXCEPT ![LockOf(h)] = h]
      /\ UNCHANGED <<log, call, copy>>
      /\ pc' = [pc EXCEPT ![h] = "replaying"]
  BY DEF Lock, Mutex!Acquire, Mutex!Free, durableVars
<1>2. LockOf(h) \in Locks
  BY <1>1, LockIsThere DEF LocksInv
<1>3. CASE g = h
  <2>1. pc'[h] = "replaying" /\ LockOf(h)' = LockOf(h)
    BY <1>1 DEF LocksInv, ServiceInv, TypeOK, LockOf
  <2>2. holder'[LockOf(h)] = h
    BY <1>1, <1>2 DEF LocksInv, ServiceInv, TypeOK
  <2> QED
    BY <1>3, <2>1, <2>2 DEF LockPart, AtWork, ChangesStored
<1>4. CASE g # h
  <2>1. pc'[g] = pc[g]
    BY <1>1, <1>4 DEF LocksInv, ServiceInv, TypeOK
  <2>2. ASSUME AtWork(g)
        PROVE  holder'[LockOf(g)] = holder[LockOf(g)]
    <3>1. holder[LockOf(g)] = g /\ g # Nobody
      BY <2>2, ServiceAssumption DEF LocksInv, LockPart
    <3> QED
      BY <1>1, <3>1
  <2> QED
    BY <1>1, <2>1, <2>2, OtherLock DEF LocksInv
<1> QED
  BY <1>3, <1>4

LEMMA ReleaseLocks ==
  ASSUME LocksInv, NEW h \in Handlers, Unlock(h), NEW g \in Handlers
  PROVE  LockPart(g)'
<1>1. /\ holder[LockOf(h)] = h
      /\ holder' = [holder EXCEPT ![LockOf(h)] = Nobody]
      /\ UNCHANGED <<log, call, copy>>
      /\ pc' = [pc EXCEPT ![h] = "replying"]
  BY DEF Unlock, Mutex!Release, durableVars
<1>2. CASE g = h
  <2>1. pc'[h] = "replying"
    BY <1>1 DEF LocksInv, ServiceInv, TypeOK
  <2> QED
    BY <1>2, <2>1, AnsweredLock
<1>3. CASE g # h
  <2>1. pc'[g] = pc[g]
    BY <1>1, <1>3 DEF LocksInv, ServiceInv, TypeOK
  <2>2. ASSUME AtWork(g)
        PROVE  holder'[LockOf(g)] = holder[LockOf(g)]
    <3>1. holder[LockOf(g)] = g
      BY <2>2 DEF LocksInv, LockPart
    <3> QED
      BY <1>1, <1>3, <3>1
  <2> QED
    BY <1>1, <2>1, <2>2, OtherLock DEF LocksInv
<1> QED
  BY <1>2, <1>3

\* A request that is new is nowhere in the dossiers.
LEMMA ReplayNewLocks ==
  ASSUME LocksInv, NEW h \in Handlers, ReplayNew(h), NEW g \in Handlers
  PROVE  LockPart(g)'
<1>1. /\ pc[h] = "replaying"
      /\ ~IsKnown(call[h].rid)
      /\ call[h].rid # NoRequestId
      /\ pc' = [pc EXCEPT ![h] = IF IsCreation(call[h]) THEN "saving" ELSE "loading"]
      /\ UNCHANGED <<log, holder, call, copy>>
  BY DEF ReplayNew, IsWellFormed, durableVars
<1>2. CASE g = h
  <2>1. /\ pc'[h] = IF IsCreation(call[h]) THEN "saving" ELSE "loading"
        /\ LockOf(h)' = LockOf(h)
    BY <1>1 DEF LocksInv, ServiceInv, TypeOK, LockOf
  <2>2. holder[LockOf(h)] = h
    BY <1>1 DEF LocksInv, LockPart, AtWork
  <2>3. ASSUME NEW n \in DOMAIN log[Target(call[h])]
        PROVE  log[Target(call[h])][n] # Entry(call[h])
    <3>1. Target(call[h]) \in Dossiers /\ call[h] \in Calls
      BY <1>1, LockIsThere DEF LocksInv
    <3>2. receipts[log[Target(call[h])][n].rid] # NoReceipt
      BY <3>1 DEF LocksInv, ServiceInv, ReceiptsMatchLog
    <3>3. call[h].rid \in RequestIds
      BY <1>1, <3>1, CallType
    <3>4. receipts[call[h].rid] = NoReceipt
      BY <1>1, <3>3 DEF IsKnown
    <3> QED
      BY <3>2, <3>4 DEF Entry
  <2> QED
    BY <1>1, <1>2, <2>1, <2>2, <2>3 DEF LockPart, AtWork, ChangesStored
<1>3. CASE g # h
  <2>1. pc'[g] = pc[g]
    BY <1>1, <1>3 DEF LocksInv, ServiceInv, TypeOK
  <2> QED
    BY <1>1, <2>1, OtherLock DEF LocksInv
<1> QED
  BY <1>2, <1>3

LEMMA LoadLocks ==
  ASSUME LocksInv, NEW h \in Handlers, Load(h), NEW g \in Handlers
  PROVE  LockPart(g)'
<1> DEFINE stored == log[Target(call[h])]
<1>1. /\ pc[h] = "loading"
      /\ IsFound(h)
      /\ UNCHANGED <<log, holder, call>>
  BY DEF Load, durableVars
<1>2. CASE \E result : Finish(h, result) /\ UNCHANGED copy
  BY <1>1, <1>2, FinishLocks
<1>3. CASE /\ copy' = [copy EXCEPT ![h] = stored]
           /\ pc' = [pc EXCEPT ![h] = "saving"]
  <2>1. CASE g = h
    <3>1. /\ pc'[h] = "saving"
          /\ copy'[h] = stored
          /\ LockOf(h)' = LockOf(h)
      BY <1>1, <1>3 DEF LocksInv, ServiceInv, TypeOK, LockOf
    <3>2. /\ holder[LockOf(h)] = h
          /\ ~IsCreation(call[h])
          /\ ChangesStored(h)
          /\ stored # <<>>
      BY <1>1 DEF LocksInv, LockPart, AtWork, ChangesStored, IsFound
    <3>3. \A n \in DOMAIN stored : stored[n] # Entry(call[h])
      BY <3>2 DEF LocksInv, LockPart
    <3> QED
      BY <1>1, <2>1, <3>1, <3>2, <3>3 DEF LockPart, AtWork, ChangesStored
  <2>2. CASE g # h
    <3>1. pc'[g] = pc[g] /\ copy'[g] = copy[g]
      BY <1>3, <2>2 DEF LocksInv, ServiceInv, TypeOK
    <3> QED
      BY <1>1, <3>1, OtherLock DEF LocksInv
  <2> QED
    BY <2>1, <2>2
<1> QED
  BY <1>2, <1>3 DEF Load

\* Whoever else changes a dossier that a mutation is at work on creates it, and
\* the mutation has not loaded it yet.
LEMMA CommitsElsewhere ==
  ASSUME OneProcess, LocksInv, NEW h \in Handlers, Commits(h),
         NEW g \in Handlers, g # h, ChangesStored(g),
         Target(call[g]) = Target(call[h])
  PROVE  IsCreation(call[h]) /\ pc[g] = "loading"
<1> DEFINE d == Target(call[h])
<1>1. /\ call[h] \in Calls /\ d \in Dossiers
      /\ Len(log[d]) = call[h].expected
  BY CommitAppends DEF LocksInv
<1>2. call[g].key = d
  BY ServiceAssumption DEF ChangesStored, Target
<1>3. CASE ~IsCreation(call[h])
  <2>1. call[h].key \in Dossiers /\ holder[LockOf(h)] = h
    BY <1>3 DEF Commits, LocksInv, LockPart, AtWork
  <2>2. call[h].key = d
    BY <2>1, ServiceAssumption DEF Target
  <2>3. LockOf(g) = LockOf(h)
    BY <1>2, <2>2 DEF LockOf, OneProcess
  <2>4. holder[LockOf(g)] = g
    BY DEF LocksInv, LockPart, AtWork, ChangesStored
  <2> QED
    BY <2>1, <2>3, <2>4
<1>4. CASE IsCreation(call[h])
  <2>1. Len(log[d]) = 0
    BY <1>1, <1>4, ServiceAssumption DEF IsCreation
  <2>2. log[d] = <<>>
    BY <1>1, <2>1, EmptySeq DEF LocksInv, ServiceInv, TypeOK
  <2>3. pc[g] # "saving"
    BY <2>2 DEF ChangesStored, LocksInv, LockPart
  <2> QED
    BY <1>4, <2>3 DEF ChangesStored
<1> QED
  BY <1>3, <1>4

LEMMA CommitLocks ==
  ASSUME OneProcess, LocksInv, NEW h \in Handlers, Commits(h), NEW g \in Handlers
  PROVE  LockPart(g)'
<1>1. /\ pc' = [pc EXCEPT ![h] = "unlocking"]
      /\ UNCHANGED <<holder, call, copy>>
  BY DEF Commits, Finish
<1>2. CASE g = h
  <2>1. pc'[h] = "unlocking" /\ LockOf(h)' = LockOf(h)
    BY <1>1 DEF LocksInv, ServiceInv, TypeOK, LockOf
  <2>2. holder[LockOf(h)] = h
    BY DEF LocksInv, LockPart, AtWork, Commits
  <2> QED
    BY <1>1, <1>2, <2>1, <2>2, AnsweredLock
<1>3. CASE g # h
  <2> DEFINE d == Target(call[g])
  <2>1. /\ pc'[g] = pc[g] /\ call'[g] = call[g] /\ copy'[g] = copy[g]
        /\ LockOf(g)' = LockOf(g)
    BY <1>1, <1>3 DEF LocksInv, ServiceInv, TypeOK, LockOf
  <2>2. LockPart(g)
    BY DEF LocksInv
  <2>3. ASSUME ChangesStored(g)
        PROVE  \/ log'[d] = log[d]
               \/ /\ pc[g] = "loading"
                  /\ \A n \in DOMAIN log'[d] : log'[d][n] # Entry(call[g])
    <3>1. d \in Dossiers
      BY <2>3, LockIsThere DEF ChangesStored, LocksInv
    <3>2. CASE d # Target(call[h])
      BY <3>1, <3>2, CommitAppends DEF LocksInv, ServiceInv, TypeOK
    <3>3. CASE d = Target(call[h])
      <4>1. IsCreation(call[h]) /\ pc[g] = "loading"
        BY <1>3, <2>3, <3>3, CommitsElsewhere
      <4>2. Entry(call[h]) # Entry(call[g])
        BY <2>3, <4>1 DEF Entry, IsCreation, ChangesStored
      <4>3. \A n \in DOMAIN log[d] : log[d][n] # Entry(call[g])
        BY <2>2, <2>3 DEF LockPart
      <4>4. ASSUME NEW n \in DOMAIN log'[d]
            PROVE  log'[d][n] # Entry(call[g])
        <5>1. \/ n \in DOMAIN log[d] /\ log'[d][n] = log[d][n]
              \/ log'[d][n] = Entry(call[h])
          BY <3>1, <3>3, LogGrows DEF LocksInv
        <5> QED
          BY <4>2, <4>3, <5>1
      <4> QED
        BY <4>1, <4>4
    <3> QED
      BY <3>2, <3>3
  <2>4. ChangesStored(g)' <=> ChangesStored(g)
    BY <2>1 DEF ChangesStored
  <2>5. ChangesStored(g)' =>
          \A n \in DOMAIN log'[d] : log'[d][n] # Entry(call[g])
    BY <2>2, <2>3, <2>4 DEF LockPart
  <2>6. pc[g] = "saving" /\ ~IsCreation(call[g]) => copy[g] = log'[d]
    BY <2>2, <2>3 DEF LockPart, ChangesStored
  <2> QED
    BY <1>1, <2>1, <2>2, <2>5, <2>6 DEF LockPart, AtWork
<1> QED
  BY <1>2, <1>3

LEMMA CrashLocks ==
  ASSUME LocksInv, NEW i \in Instances, Crash(i), NEW g \in Handlers
  PROVE  LockPart(g)'
<1>1. CASE On[g] = i
  <2>1. pc'[g] = "idle"
    BY <1>1 DEF Crash
  <2> QED
    BY <2>1, AnsweredLock
<1>2. CASE On[g] # i
  <2>1. /\ pc'[g] = pc[g] /\ call'[g] = call[g] /\ copy'[g] = copy[g]
        /\ log' = log
    BY <1>2 DEF Crash, durableVars
  <2>2. ASSUME AtWork(g)
        PROVE  holder'[LockOf(g)] = holder[LockOf(g)]
    <3>1. LockOf(g) \in Locks /\ LockOf(g)[1] = On[g]
      BY <2>2, LockIsThere DEF AtWork, LocksInv, LockOf
    <3> QED
      BY <1>2, <3>1 DEF Crash
  <2> QED
    BY <2>1, <2>2, OtherLock DEF LocksInv
<1> QED
  BY <1>1, <1>2

LEMMA LocksInvNext ==
  ASSUME OneProcess, LocksInv, Next
  PROVE  LocksInv'
<1>1. ServiceInv'
  BY NextInv DEF LocksInv
<1>2. ASSUME NEW h \in Handlers, Fail(h) \/ ReplayKnown(h)
      PROVE  \A g \in Handlers : LockPart(g)'
  <2>1. /\ \E result : Finish(h, result)
        /\ pc[h] \in {"replaying", "loading", "saving"}
        /\ UNCHANGED <<log, holder, call, copy>>
    BY <1>2 DEF Fail, ReplayKnown, durableVars
  <2> QED
    BY <2>1, FinishLocks
<1>3. ASSUME NEW h \in Handlers, Save(h)
      PROVE  \A g \in Handlers : LockPart(g)'
  <2>1. CASE Commits(h)
    BY <2>1, CommitLocks
  <2>2. CASE /\ Finish(h, [kind |-> "conflict"])
             /\ UNCHANGED durableVars
    BY <1>3, <2>2, FinishLocks DEF Save, durableVars
  <2> QED
    BY <1>3, <2>1, <2>2 DEF Save, Commits
<1>4. ASSUME NEW h \in Handlers, pc' \in {[pc EXCEPT ![h] = s] : s \in {"waiting", "idle"}},
             \A g \in Handlers \ {h} : call'[g] = call[g] /\ copy'[g] = copy[g],
             UNCHANGED <<log, holder>>
      PROVE  \A g \in Handlers : LockPart(g)'
  <2>1. pc'[h] \in {"waiting", "idle"}
    BY <1>4 DEF LocksInv, ServiceInv, TypeOK
  <2>2. LockPart(h)'
    BY <2>1, AnsweredLock
  <2>3. ASSUME NEW g \in Handlers \ {h}
        PROVE  LockPart(g)'
    <3>1. pc'[g] = pc[g]
      BY <1>4, <2>3 DEF LocksInv, ServiceInv, TypeOK
    <3> QED
      BY <1>4, <3>1, OtherLock DEF LocksInv
  <2> QED
    BY <2>2, <2>3
<1>5. ASSUME NEW h \in Handlers,
             (\E c \in Calls : Send(h, c)) \/ Reply(h) \/ LoseReply(h)
      PROVE  \A g \in Handlers : LockPart(g)'
  <2>1. CASE \E c \in Calls : Send(h, c)
    BY <1>4, <2>1 DEF Send, durableVars, LocksInv, ServiceInv, TypeOK
  <2>2. CASE Done(h)
    BY <1>4, <2>2 DEF Done, durableVars, LocksInv, ServiceInv, TypeOK
  <2> QED
    BY <1>5, <2>1, <2>2 DEF Reply, LoseReply
<1>6. \A g \in Handlers : LockPart(g)'
  BY <1>2, <1>3, <1>5, AcquireLocks, ReleaseLocks, ReplayNewLocks, LoadLocks, CrashLocks
  DEF Next, Work
<1> QED
  BY <1>1, <1>6 DEF LocksInv

LEMMA LocksInvariant ==
  ASSUME OneProcess
  PROVE  Safety => []LocksInv
<1>1. Init => LocksInv
  <2>1. ASSUME Init, NEW h \in Handlers PROVE LockPart(h)
    BY <2>1 DEF Init, LockPart, AtWork, ChangesStored
  <2> QED
    BY <2>1, InitInv DEF LocksInv
<1>2. ASSUME LocksInv, UNCHANGED serviceVars
      PROVE  LocksInv'
  <2>1. ASSUME NEW h \in Handlers PROVE LockPart(h)'
    BY <1>2, OtherLock DEF LocksInv, serviceVars, handlerVars, durableVars
  <2> QED
    BY <1>2, <2>1, StutterInv DEF LocksInv
<1>3. LocksInv /\ [Next]_serviceVars => LocksInv'
  BY <1>2, LocksInvNext
<1> QED
  BY <1>1, <1>3, PTL DEF Safety

\* In a single process the copy a mutation works on is what is stored, until it
\* is saved.
THEOREM CopiesStayCurrent ==
  ASSUME IsFiniteSet(Instances)
  PROVE  Safety => []LockedCopiesAreCurrent
<1>1. CASE Cardinality(Instances) = 1
  <2>1. OneProcess
    BY <1>1, SingleInstance
  <2>2. LocksInv => LockedCopiesAreCurrent
    BY DEF LocksInv, LockPart, LockedCopiesAreCurrent
  <2> QED
    BY <2>1, <2>2, LocksInvariant, PTL
<1>2. CASE Cardinality(Instances) # 1
  <2>1. LockedCopiesAreCurrent
    BY <1>2 DEF LockedCopiesAreCurrent
  <2> QED
    BY <2>1, PTL
<1> QED
  BY <1>1, <1>2

\* In a single process a retry of what took effect is answered as the first
\* time, or fails, but never with a conflict.
THEOREM RetriesGetTheirAnswer ==
  ASSUME IsFiniteSet(Instances)
  PROVE  Safety => RetriesAreRecognised
<1>1. CASE Cardinality(Instances) = 1
  <2>1. OneProcess
    BY <1>1, SingleInstance
  <2>2. ASSUME LocksInv, Next
        PROVE  Recognises
    <3> SUFFICES ASSUME NEW h \in Handlers,
                        outcome'[h].kind \in {"conflict", "sealed"},
                        outcome[h].kind = "none"
                 PROVE  ~TookEffect(call[h])
      BY DEF Recognises
    <3>1. Load(h) \/ (Save(h) /\ ~IsCreation(call[h]))
      <4>1. outcome'[h] # outcome[h]
        OBVIOUS
      <4>2. ASSUME NEW g \in Handlers, NEW result, Finish(g, result)
            PROVE  g = h /\ outcome'[h] = result
        BY <4>1, <4>2 DEF Finish, LocksInv, ServiceInv, TypeOK
      <4>3. ASSUME NEW g \in Handlers, ReplayKnown(g)
            PROVE  FALSE
        <5>1. IsKnown(call[g].rid)
          BY <4>3 DEF ReplayKnown
        <5>2. receipts[call[g].rid] \in Receipt
          BY <2>2, <5>1 DEF IsKnown, LocksInv, ServiceInv, TypeOK
        <5>3. receipts[call[g].rid].answer.kind = "saved"
          BY <5>2 DEF Receipt, Success
        <5> QED
          BY <4>2, <4>3, <5>3 DEF ReplayKnown
      <4>4. ASSUME NEW g \in Handlers, Fail(g)
            PROVE  FALSE
        BY <4>2, <4>4 DEF Fail
      <4>5. ASSUME NEW g \in Handlers, Save(g)
            PROVE  g = h /\ ~IsCreation(call[h])
        BY <4>2, <4>5 DEF Save, Saved
      <4>6. ASSUME NEW g \in Handlers, Load(g)
            PROVE  g = h
        BY <4>1, <4>2, <4>6 DEF Load
      <4>7. ASSUME NEW g \in Handlers, Done(g)
            PROVE  FALSE
        BY <4>1, <4>7 DEF Done, NoOutcome, LocksInv, ServiceInv, TypeOK
      <4>8. ASSUME NEW i \in Instances, Crash(i)
            PROVE  FALSE
        BY <4>1, <4>8 DEF Crash, NoOutcome
      <4> QED
        BY <2>2, <4>1, <4>3, <4>4, <4>5, <4>6, <4>7, <4>8
        DEF Next, Work, Send, Lock, ReplayNew, Unlock, Reply, LoseReply
    <3>2. ChangesStored(h)
      BY <2>2, <3>1 DEF Load, Save, IsFound, LocksInv, LockPart, ChangesStored
    <3> QED
      BY <2>2, <3>2 DEF LocksInv, LockPart, TookEffect
  <2> QED
    BY <2>1, <2>2, LocksInvariant, PTL DEF Safety, RetriesAreRecognised
<1>2. CASE Cardinality(Instances) # 1
  <2>1. ASSUME Next PROVE Recognises
    BY <1>2 DEF Recognises
  <2> QED
    BY <2>1, PTL DEF Safety, RetriesAreRecognised
<1> QED
  BY <1>1, <1>2
=============================================================================
