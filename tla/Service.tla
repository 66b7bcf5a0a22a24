------------------------------- MODULE Service -------------------------------
(***************************************************************************)
(* The requests that change a dossier, as the service runs them (Create    *)
(* and mutateWithBody in internal/application/service.go) against the      *)
(* database (Create, Save, Get and Replay in                               *)
(* internal/repository/store.go): lock the id, look for an answer already  *)
(* given, load, check, change the copy, save it with the answer in one     *)
(* transaction, unlock, answer.  Handlers interleave at every access to    *)
(* the database and to a lock.  Requests are sent again or twice, answers  *)
(* are lost, the process crashes and starts again, and a second process    *)
(* may serve the same file.                                                *)
(*                                                                         *)
(* A dossier is the sequence of requests that made it; its revision is     *)
(* their number.  What a request does to the dossier is in Dossier.        *)
(* D_Fault is D with a fault, as in Dossier.                               *)
(***************************************************************************)
EXTENDS Naturals, Sequences, FiniteSets

CONSTANTS Dossiers,    \* ids of dossiers, as stored
          Keys,        \* ids as clients spell them
          Cleaned,     \* the id a spelling is trimmed to
          RequestIds,  \* request ids
          NoRequestId, \* a blank request id
          Inputs,      \* action and fields of a request, without the metadata
          Creations,   \* the inputs that create a dossier
          Seals,       \* the inputs that seal one
          Calls,       \* the requests clients send
          Handlers,    \* the goroutines that serve requests
          Instances,   \* running processes
          On,          \* the process of a handler
          Nobody, NoCall, NoReceipt

Call == [key      : Keys,
         rid      : RequestIds \cup {NoRequestId},
         input    : Inputs,
         expected : Nat]

VARIABLES log,       \* dossiers: the requests that made each
          receipts,  \* table idempotency: request id to what was answered
          holder,    \* the lock tables of the processes
          pc,        \* where a handler is
          call,      \* the request it serves
          copy,      \* the dossier it loaded
          outcome,   \* the answer it will give
          answered   \* history: the answers clients got

durableVars == <<log, receipts>>
handlerVars == <<pc, call, copy, outcome>>
serviceVars == <<durableVars, holder, handlerVars, answered>>

-----------------------------------------------------------------------------
Stages == {"idle", "waiting", "replaying", "loading", "saving", "unlocking",
           "replying"}

Entry(c) == [rid |-> c.rid, input |-> c.input]

Entries == [rid : RequestIds, input : Inputs]

IsCreation(c) == c.input \in Creations

\* The action and the input the digest is taken of.  A mutation has its dossier
\* in the path, not in the input; a creation has no metadata in its input.
Fingerprint_InputOnly(c) == [input |-> c.input, key |-> {}, expected |-> 0]
Fingerprint(c) ==
  IF IsCreation(c)
    THEN [input |-> c.input, key |-> {c.key}, expected |-> 0]
    ELSE [input |-> c.input, key |-> {}, expected |-> c.expected]

Fingerprints == [input : Inputs, key : SUBSET Keys, expected : Nat]

\* The dossier a request is about.
Target(c) == Cleaned[c.key]

\* What clients are told: the dossier as it was saved, or an error.
Success == [kind : {"saved"}, dossier : Dossiers, revision : Nat \ {0}]
Errors == {[kind |-> "conflict"], [kind |-> "sealed"], [kind |-> "failed"]}
NoOutcome == [kind |-> "none"]

Receipt == [fingerprint : Fingerprints, answer : Success]

ASSUME ServiceAssumption ==
  /\ Dossiers \subseteq Keys
  /\ Cleaned \in [Keys -> Dossiers]
  /\ \A d \in Dossiers : Cleaned[d] = d
  /\ NoRequestId \notin RequestIds
  /\ Calls \subseteq Call
  /\ Creations \subseteq Inputs /\ Seals \subseteq Inputs
  /\ \A c \in Calls : c.input \in Creations => c.expected = 0
  /\ On \in [Handlers -> Instances]
  /\ Nobody \notin Handlers /\ NoCall \notin Call /\ NoReceipt \notin Receipt

Locks == Instances \X Keys
LockOf(h) == <<On[h], call[h].key>>

Mutex == INSTANCE KeyedMutex WITH Keys <- Locks, Clients <- Handlers

IsSealed(entries) == \E n \in DOMAIN entries : entries[n].input \in Seals

-----------------------------------------------------------------------------
Init ==
  /\ log = [d \in Dossiers |-> <<>>]
  /\ receipts = [r \in RequestIds |-> NoReceipt]
  /\ Mutex!Init
  /\ pc = [h \in Handlers |-> "idle"]
  /\ call = [h \in Handlers |-> NoCall]
  /\ copy = [h \in Handlers |-> <<>>]
  /\ outcome = [h \in Handlers |-> NoOutcome]
  /\ answered = {}

\* A client sends a request: a new one, one it sent before, or one twice.
Send(h, c) ==
  /\ pc[h] = "idle"
  /\ pc' = [pc EXCEPT ![h] = "waiting"]
  /\ call' = [call EXCEPT ![h] = c]
  /\ UNCHANGED <<durableVars, holder, copy, outcome, answered>>

Lock(h) ==
  /\ pc[h] = "waiting"
  /\ Mutex!Acquire(h, LockOf(h))
  /\ pc' = [pc EXCEPT ![h] = "replaying"]
  /\ UNCHANGED <<durableVars, call, copy, outcome, answered>>

\* The deferred unlock runs on every return, error or not.
Finish_ErrorKeepsLock(h, result) ==
  /\ outcome' = [outcome EXCEPT ![h] = result]
  /\ pc' = [pc EXCEPT ![h] = IF result.kind = "saved" THEN "unlocking" ELSE "replying"]
Finish(h, result) ==
  /\ outcome' = [outcome EXCEPT ![h] = result]
  /\ pc' = [pc EXCEPT ![h] = "unlocking"]

IsKnown(rid) == rid \in RequestIds /\ receipts[rid] # NoReceipt

Matches_AnyRequest(h) == receipts[call[h].rid].fingerprint \in Fingerprints
Matches(h) == receipts[call[h].rid].fingerprint = Fingerprint(call[h])

\* The request was answered before: the same answer again, or an error if the
\* id was used for a different request.
ReplayKnown(h) ==
  /\ pc[h] = "replaying"
  /\ IsKnown(call[h].rid)
  /\ Finish(h, IF Matches(h) THEN receipts[call[h].rid].answer
                             ELSE [kind |-> "failed"])
  /\ UNCHANGED <<durableVars, holder, call, copy, answered>>

\* validateMeta wants an id, and a revision of a mutation.
IsWellFormed(h) ==
  /\ call[h].rid # NoRequestId
  /\ IsCreation(call[h]) \/ call[h].expected >= 1

\* The request is new.  A creation starts from an empty dossier, a mutation has
\* one to load.
ReplayNew(h) ==
  /\ pc[h] = "replaying"
  /\ ~IsKnown(call[h].rid)
  /\ IsWellFormed(h)
  /\ pc' = [pc EXCEPT ![h] = IF IsCreation(call[h]) THEN "saving" ELSE "loading"]
  /\ UNCHANGED <<durableVars, holder, call, copy, outcome, answered>>

\* A mutation finds only ids spelled as they are stored.
IsFound(h) == call[h].key \in Dossiers /\ log[Target(call[h])] # <<>>

IsMutable(h) == ~IsSealed(log[Target(call[h])])

IsExpected_NotNewer(h) == call[h].expected <= Len(log[Target(call[h])])
IsExpected(h) == call[h].expected = Len(log[Target(call[h])])

Load(h) ==
  /\ pc[h] = "loading"
  /\ IsFound(h)
  /\ \/ /\ IsMutable(h)
        /\ IsExpected(h)
        /\ copy' = [copy EXCEPT ![h] = log[Target(call[h])]]
        /\ pc' = [pc EXCEPT ![h] = "saving"]
        /\ UNCHANGED outcome
     \/ /\ ~IsMutable(h)
        /\ Finish(h, [kind |-> "sealed"])
        /\ UNCHANGED copy
     \/ /\ IsMutable(h)
        /\ ~IsExpected(h)
        /\ Finish(h, [kind |-> "conflict"])
        /\ UNCHANGED copy
  /\ UNCHANGED <<durableVars, holder, call, answered>>

\* The row is the one loaded; for a creation, there is none.
IsCurrent_Unchecked(h) == IsCreation(call[h]) => log[Target(call[h])] = <<>>
IsCurrent(h) == Len(log[Target(call[h])]) = Len(copy[h])

IsNewId_Overwrites(h) == pc[h] = "saving"
IsNewId(h) == ~IsKnown(call[h].rid)

Saved(h) == [kind     |-> "saved",
             dossier  |-> Target(call[h]),
             revision |-> Len(copy[h]) + 1]

\* The receipt goes into the transaction that writes the dossier.
ReceiptsAfter_None(h) == receipts
ReceiptsAfter(h) ==
  [receipts EXCEPT ![call[h].rid] =
     [fingerprint |-> Fingerprint(call[h]), answer |-> Saved(h)]]

Save(h) ==
  /\ pc[h] = "saving"
  /\ \/ /\ IsCurrent(h)
        /\ IsNewId(h)
        /\ log' = [log EXCEPT ![Target(call[h])] = Append(copy[h], Entry(call[h]))]
        /\ receipts' = ReceiptsAfter(h)
        /\ Finish(h, Saved(h))
     \/ /\ ~IsCreation(call[h])
        /\ ~IsCurrent(h)
        /\ Finish(h, [kind |-> "conflict"])
        /\ UNCHANGED durableVars
  /\ UNCHANGED <<holder, call, copy, answered>>

\* Everything else that can go wrong: the request is not well formed, the
\* dossier is not there or already there, the domain refuses the change, the
\* request id was taken meanwhile, the database fails, the client has gone and
\* its context is cancelled.  What a transaction has written is rolled back.
Fail(h) ==
  /\ pc[h] \in {"replaying", "loading", "saving"}
  /\ Finish(h, [kind |-> "failed"])
  /\ UNCHANGED <<durableVars, holder, call, copy, answered>>

Unlock(h) ==
  /\ pc[h] = "unlocking"
  /\ Mutex!Release(h, LockOf(h))
  /\ pc' = [pc EXCEPT ![h] = "replying"]
  /\ UNCHANGED <<durableVars, call, copy, outcome, answered>>

Done(h) ==
  /\ pc' = [pc EXCEPT ![h] = "idle"]
  /\ call' = [call EXCEPT ![h] = NoCall]
  /\ copy' = [copy EXCEPT ![h] = <<>>]
  /\ outcome' = [outcome EXCEPT ![h] = NoOutcome]
  /\ UNCHANGED <<durableVars, holder>>

Answer(h) == [call     |-> call[h],
              dossier  |-> outcome[h].dossier,
              revision |-> outcome[h].revision]

Reply(h) ==
  /\ pc[h] = "replying"
  /\ answered' = IF outcome[h].kind = "saved"
                   THEN answered \cup {Answer(h)}
                   ELSE answered
  /\ Done(h)

LoseReply(h) ==
  /\ pc[h] = "replying"
  /\ Done(h)
  /\ UNCHANGED answered

\* A process dies and is started again: the database stays, a transaction that
\* was not committed is undone, the locks and the requests in hand are gone.
Crash(i) ==
  /\ LET lost(h) == On[h] = i
     IN  /\ pc' = [h \in Handlers |-> IF lost(h) THEN "idle" ELSE pc[h]]
         /\ call' = [h \in Handlers |-> IF lost(h) THEN NoCall ELSE call[h]]
         /\ copy' = [h \in Handlers |-> IF lost(h) THEN <<>> ELSE copy[h]]
         /\ outcome' = [h \in Handlers |-> IF lost(h) THEN NoOutcome ELSE outcome[h]]
  /\ holder' = [l \in Locks |-> IF l[1] = i THEN Nobody ELSE holder[l]]
  /\ UNCHANGED <<durableVars, answered>>

Work(h) == \/ ReplayKnown(h) \/ ReplayNew(h) \/ Load(h) \/ Save(h) \/ Fail(h)
           \/ Unlock(h)

Next ==
  \/ \E h \in Handlers :
       \/ \E c \in Calls : Send(h, c)
       \/ Lock(h) \/ Work(h) \/ Reply(h) \/ LoseReply(h)
  \/ \E i \in Instances : Crash(i)

Safety == Init /\ [][Next]_serviceVars

\* The database answers and goroutines are scheduled; sync.Mutex hands a lock
\* to a goroutine that has waited long (its starvation mode).
Fairness == \A h \in Handlers : /\ SF_serviceVars(Lock(h))
                                /\ WF_serviceVars(Work(h))
                                /\ WF_serviceVars(Reply(h) \/ LoseReply(h))

Spec == Safety /\ Fairness

-----------------------------------------------------------------------------
(***************************************************************************)
(* Properties.                                                             *)
(***************************************************************************)
\* The shape of every part of the state.
TypeOK ==
  /\ log \in [Dossiers -> Seq(Entries)]
  /\ receipts \in [RequestIds -> Receipt \cup {NoReceipt}]
  /\ holder \in [Locks -> Handlers \cup {Nobody}]
  /\ pc \in [Handlers -> Stages]
  /\ call \in [Handlers -> Calls \cup {NoCall}]
  /\ copy \in [Handlers -> Seq(Entries)]
  /\ outcome \in [Handlers -> Success \cup Errors \cup {NoOutcome}]
  /\ answered \subseteq [call : Calls, dossier : Dossiers, revision : Nat \ {0}]

\* The request ids on record and the changes they stand for match one to one:
\* no crash, failed transaction or second process leaves a change without its
\* receipt or a receipt without its change, and no id is used for two changes.
ReceiptsMatchLog ==
  /\ \A r \in RequestIds : receipts[r] # NoReceipt =>
       LET a == receipts[r].answer
       IN  a.revision \in DOMAIN log[a.dossier] /\ log[a.dossier][a.revision].rid = r
  /\ \A d \in Dossiers : \A n \in DOMAIN log[d] :
       LET receipt == receipts[log[d][n].rid]
       IN  /\ receipt # NoReceipt
           /\ receipt.answer = [kind |-> "saved", dossier |-> d, revision |-> n]

\* Sealing is final, although the seal and the revision are read from a copy
\* and another process may save between the reading and the writing.
SealedIsFinal ==
  \A d \in Dossiers : \A n \in DOMAIN log[d] :
    log[d][n].input \in Seals => n = Len(log[d])

\* While a mutation of the only process is being worked on under the lock of
\* its dossier, nobody changes that dossier: the copy stays what is stored, and
\* the guarded update cannot fail.  A creation locks the id as it was spelled,
\* which does no harm: it never touches a dossier that exists.
LockedCopiesAreCurrent ==
  Cardinality(Instances) = 1 =>
    \A h \in Handlers :
      pc[h] = "saving" /\ ~IsCreation(call[h]) => copy[h] = log[Target(call[h])]

\* What a client asked for is in the dossier, where it asked for it.
TookEffect(c) ==
  /\ c.expected + 1 \in DOMAIN log[Target(c)]
  /\ log[Target(c)][c.expected + 1] = Entry(c)

Recognises ==
  \A h \in Handlers :
    /\ Cardinality(Instances) = 1
    /\ outcome'[h].kind \in {"conflict", "sealed"}
    /\ outcome[h].kind = "none"
    => ~TookEffect(call[h])

\* Whoever retries a request that took effect is never told that the dossier
\* has moved on or is sealed, as it has and is by that very request: the search
\* for an answer and the check of the revision are under one lock.
RetriesAreRecognised == [][Recognises]_serviceVars

\* Every request comes to an end, whatever other requests for the same dossier
\* do: no path through the handler keeps the lock.
RequestsEnd == \A h \in Handlers : pc[h] # "idle" ~> pc[h] = "idle"

AsRequest(c) == [dossier  |-> Target(c),
                 rid      |-> c.rid,
                 input    |-> c.input,
                 expected |-> c.expected]

L == INSTANCE Ledger
       WITH Requests <- {AsRequest(c) : c \in Calls},
            answered <- {[request |-> AsRequest(a.call), revision |-> a.revision] :
                           a \in answered}

\* The service keeps the promise of Ledger.
ImplementsLedger == L!Spec

\* Clients give different requests different ids (app.js draws them at random).
\* The fingerprint tells a reuse for other fields or for another revision, but
\* not for another dossier: it has to be the client that avoids that one.
RequestsAreDistinct ==
  \A c, e \in Calls :
    c.rid = e.rid /\ Fingerprint(c) = Fingerprint(e) => Target(c) = Target(e)

\* A request id that was used for a different request is refused, and so an
\* answer is always about the dossier that was asked for (store.go:321).
AnswersAreOwn == \A a \in answered : a.dossier = Target(a.call)
=============================================================================
