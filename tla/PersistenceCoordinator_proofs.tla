---------------- MODULE PersistenceCoordinator_proofs ----------------
(***************************************************************************)
(* Theorems about the persistence coordinator, for any number of calls and *)
(* of Sessions, any limits on what a run appends, and any retries: a       *)
(* Session is live only as long as the state in memory covers the stored   *)
(* log, a reserved log is the one that was read, a retired Session has     *)
(* left all its events in the store, and a repair is written only to a log *)
(* no Session of this process is writing.                                  *)
(*                                                                         *)
(* None of these is inductive. What a step of the chain does was decided   *)
(* by whoever queued it, often many steps before, so the strengthening     *)
(* IInv says what every queued operation still may rely on: which calls    *)
(* wait for it (OpsInv), that the one initializing a Session meets no read *)
(* of the entry (RegInv), that a Session has one batch and one release in  *)
(* flight at most (LiveInv), who may commit a prepared entry and who holds *)
(* it (EntryInv), what the awaited repair or append was handed (RunInv),   *)
(* whose claim on the log is in memory (OwnerInv), when the cursor in      *)
(* memory is the length of the log (CursorInv), and what a reader holds    *)
(* while others write (HeldInv, SavedInv).                                 *)
(*                                                                         *)
(* The proof has three layers. Effect lemmas say what an action leaves of  *)
(* the chain, the calls, the entry and the state: a step of the chain      *)
(* drops its head, the others append to it or withdraw one operation. A    *)
(* step that moves no Session, a quiet one, keeps each part of the         *)
(* invariant by what its effect lemma says; the steps of a Session are     *)
(* taken one by one.                                                       *)
(***************************************************************************)
EXTENDS PersistenceCoordinator, SequenceTheorems, FiniteSetTheorems, TLAPS

\* The kinds of operation that initialize a live Session, that a Session
\* queues, and that a single call queues.
RegKinds     == {"init", "suffix"}
SessionKinds == RegKinds \cup {"write", "release"}
CallKinds    == {"commit", "check", "append"}

\* The types of the log, of the state in memory, of the preparation, of the chain
\* and of the calls.
EventType  == [by : Sessions \cup {"base", "closer", "api", "other"}, open : BOOLEAN]
SourceType == [log : Seq(EventType), torn : BOOLEAN]
StateType  == [tracked : BOOLEAN, cursor : Nat, materialized : BOOLEAN,
               owner : Sessions \cup {None}]
Phases     == {"none", "loading", "ready", "committing", "reserved"}
EntryType  == [phase : Phases, source : SourceType]
OpType     == [kind : {"load"} \cup CallKinds \cup SessionKinds,
               for : SUBSET (Callers \cup Sessions), n : Nat, current : BOOLEAN]
Points     == {"idle", "begin", "retirement", "flush", "loading", "loaded",
               "blocked", "check", "commit", "held", "append", "over"}
Names      == {"none", "prepare", "load", "inspect", "append"}
CallType   == [at : Points, kind : Names,
               mine : BOOLEAN, source : SourceType,
               session : Sessions \cup {None}, upTo : Nat, grown : Nat]

\* Operation op initializes, writes or releases Session s.
Inits(op, s)  == op.kind \in RegKinds /\ op.for = {s}
OpOf(op, k, s) == op.kind = k /\ op.for = {s}

\* The type invariant, by part: the store, the live Sessions, the preparation.
DiskType ==
  /\ store \in Seq(EventType)
  /\ torn \in BOOLEAN
  /\ external \in BOOLEAN
  /\ intruded \in BOOLEAN

LiveType ==
  /\ registered \in Sessions \cup {None}
  /\ events \in [Sessions -> Seq(EventType)]
  /\ init \in [Sessions -> {"unused", "pending", "ok", "failed", "gone"}]
  /\ saved \in [Sessions -> Nat]
  /\ writing \in [Sessions -> Nat]
  /\ retiring \in [Sessions -> {"no", "flush", "release", "done", "failed"}]
  /\ retirement \in Sessions \cup {None}
  /\ \A s \in Sessions : saved[s] <= Len(events[s]) /\ writing[s] <= Len(events[s])

PrepType ==
  /\ state \in StateType
  /\ entry \in EntryType
  /\ chain \in Seq(OpType)
  /\ running \in BOOLEAN
  /\ call \in [Callers -> CallType]
  /\ state.owner # None => state.tracked

Types == DiskType /\ LiveType /\ PrepType

\* Every operation is that of calls that wait for it, or of one Session, and a
\* call waits for at most one; a read that fills the entry is the only such one.
OpsInv ==
  /\ \A i \in DOMAIN chain : LET op == chain[i] IN
       /\ op.kind = "load" =>
            /\ op.for \subseteq Callers
            /\ \A c \in op.for : call[c].at = "loading" /\ (call[c].mine => op.current)
       /\ op.kind \in CallKinds =>
            \E c \in Callers : op.for = {c} /\ call[c].at = op.kind
       /\ op.kind \in SessionKinds => \E s \in Sessions : op.for = {s}
       /\ op.current => op.kind = "load" /\ entry.phase = "loading"
  /\ \A i, j \in DOMAIN chain : i # j =>
       /\ ~ (chain[i].current /\ chain[j].current)
       /\ chain[i].kind = "load" /\ chain[j].kind = "load" =>
            chain[i].for \cap chain[j].for = {}
       /\ chain[i].kind \in CallKinds /\ chain[j].kind = chain[i].kind =>
            chain[i].for # chain[j].for
  /\ running => chain # <<>> /\ Head(chain).kind \in {"commit", "append"}

\* A Session that is being initialized has one operation in the chain, found
\* with no read of the entry before it and no reservation beside it; a registered
\* one is the last to be initialized.
RegInv ==
  /\ \A i \in DOMAIN chain, s \in Sessions : Inits(chain[i], s) =>
       /\ init[s] = "pending"
       /\ entry.phase \in {"none", "loading"}
       /\ chain[i].kind = "init" => chain[i].n = saved[s]
       /\ chain[i].kind = "suffix" =>
            /\ state.owner = s /\ state.materialized
            /\ intruded \/ state.cursor <= saved[s]
  /\ \A i, j \in DOMAIN chain, s \in Sessions :
       /\ Inits(chain[i], s) /\ Inits(chain[j], s) => i = j
       /\ Inits(chain[i], s) /\ chain[j].current => i < j
       /\ Inits(chain[i], s) /\ registered = s /\ chain[j].kind \in RegKinds => j <= i
  /\ \A i \in DOMAIN chain :
       chain[i].kind \in RegKinds /\ registered # None => init[registered] = "pending"
  /\ \A s \in Sessions : init[s] = "pending" => \E i \in DOMAIN chain : Inits(chain[i], s)

\* The steps of a Session's life come in their order: nothing is in flight or
\* left to write once it is released, and a batch is in flight only when its
\* events are not yet saved.
Ordered(s) ==
  /\ writing[s] # 0 =>
       init[s] = "ok" /\ saved[s] < writing[s] /\ retiring[s] \in {"no", "flush"}
  /\ retiring[s] = "release" => init[s] = "ok" /\ saved[s] = Len(events[s])
  /\ retiring[s] = "done" => init[s] = "gone"
  /\ retiring[s] # "no" => registered # s /\ init[s] # "unused"
  /\ init[s] \in {"unused", "gone"} => saved[s] = Len(events[s]) /\ registered # s

\* A Session has at most one batch and at most one release in the chain.
LiveInv ==
  /\ \A i \in DOMAIN chain, s \in Sessions :
       /\ OpOf(chain[i], "write", s) => writing[s] # 0 /\ chain[i].n = writing[s]
       /\ OpOf(chain[i], "release", s) => retiring[s] = "release"
  /\ \A i, j \in DOMAIN chain, s \in Sessions :
       /\ OpOf(chain[i], "write", s) /\ OpOf(chain[j], "write", s) => i = j
       /\ OpOf(chain[i], "release", s) /\ OpOf(chain[j], "release", s) => i = j
  /\ \A s \in Sessions : Ordered(s)

\* The entry and the calls that joined it agree on who may commit it and who
\* holds it; nothing of the identity is live or writes beside a reservation.
EntryInv ==
  /\ entry.phase # "none" => registered = None
  /\ entry.phase = "reserved" =>
       /\ state.owner = None /\ state.tracked /\ state.materialized
       /\ \E c \in Callers : call[c].at = "held"
  /\ \A c \in Callers :
       /\ call[c].mine /\ call[c].at \in {"loaded", "blocked", "check"} =>
            entry.phase \in {"ready", "committing", "reserved"}
       /\ call[c].mine /\ call[c].at = "commit" => entry.phase = "committing"
       /\ call[c].at = "held" => call[c].mine /\ entry.phase = "reserved"
  /\ \A c, d \in Callers :
       /\ call[c].mine /\ call[d].mine /\ call[c].at = "commit" /\ call[d].at = "commit"
            => c = d
       /\ call[c].at = "held" /\ call[d].at = "held" => c = d

\* What awaits the backend: a repair of the very log that was read, by the call
\* that commits the entry, with no state of the log in memory; or an append to a
\* tracked log that no preparation reserves.
RunInv ==
  running =>
    /\ Head(chain).kind = "append" => state.tracked /\ entry.phase # "reserved"
    /\ Head(chain).kind = "commit" =>
         /\ \A c \in Callers : Head(chain).for = {c} => call[c].mine
         /\ state.owner = None
         /\ intruded \/ (~ state.tracked /\ entry.source = Cold(store, torn))

\* A claim on the log: the Session that owns it is one of the live ones; with
\* events of its own in memory a Session owns the log.
OwnerInv ==
  \A s \in Sessions :
    /\ state.owner = s => init[s] \notin {"unused", "gone"}
    /\ init[s] = "ok" /\ (registered = s \/ saved[s] < Len(events[s])) => state.owner = s

\* The cursor is the length of the log while somebody relies on it, and a log
\* that is tracked for nobody is whole and balanced.
CursorInv ==
  /\ state.cursor <= Len(store)
  /\ state.tracked /\ ~ intruded /\ (state.owner # None \/ ~ external) =>
       state.cursor = Len(store)
  /\ state.tracked /\ state.owner = None => ~ torn /\ Closers(store) = <<>>

\* The held source is the stored log.
HeldInv ==
  \A c \in Callers : call[c].at = "held" =>
    /\ Len(call[c].source.log) <= Len(store)
    /\ intruded \/ (call[c].source = Cold(store, torn) /\ state.cursor = Len(store))

\* What a Session counts as saved is stored; so are the closers it was given.
SavedInv ==
  \A s \in Sessions :
    /\ init[s] \in {"ok", "gone"} /\ ~ intruded => IsPrefix(SubSeq(events[s], 1, saved[s]), store)
    /\ \A i \in DOMAIN events[s] : events[s][i].by = "closer" => i <= Len(store)

\* The log is a prefix of what its owner holds in memory (OwnerCoversStore).
OwnerCovers ==
  state.owner # None /\ ~ intruded => IsPrefix(store, events[state.owner])
-----------------------------------------------------------------------------
(* Operators of the model.                                                 *)

\* The records calls are made of.
LEMMA CallRecords ==
  /\ NoSource \in SourceType
  /\ Idle \in CallType /\ Over \in CallType
  /\ NoEntry \in EntryType
  /\ Untracked \in StateType
  /\ \A kind \in Names, source \in SourceType :
       /\ Reading(kind) \in CallType /\ Loaded(kind, source) \in CallType
       /\ Reading(kind).at = "loading" /\ Reading(kind).mine
       /\ Loaded(kind, source).at = "loaded" /\ Loaded(kind, source).mine
<1>1. NoSource \in SourceType
  BY EmptySeq DEF NoSource, Cold, SourceType
<1>2. Idle \in CallType
  BY <1>1 DEF Idle, CallType, Points, Names
<1>3. Over \in CallType
  BY <1>2 DEF Over, CallType, Points
<1>4. NoEntry \in EntryType
  BY <1>1 DEF NoEntry, EntryType, Phases
<1>5. Untracked \in StateType
  BY DEF Untracked, StateType
<1>6. ASSUME NEW kind \in Names, NEW source \in SourceType
      PROVE  /\ Reading(kind) \in CallType /\ Loaded(kind, source) \in CallType
             /\ Reading(kind).at = "loading" /\ Reading(kind).mine
             /\ Loaded(kind, source).at = "loaded" /\ Loaded(kind, source).mine
  <2>1. (IF kind = "inspect" THEN source ELSE NoSource) \in SourceType
    BY <1>1
  <2>. QED
    BY <1>2, <2>1 DEF Idle, CallType, Points, Reading, Loaded
<1>. QED
  BY <1>1, <1>2, <1>3, <1>4, <1>5, <1>6

\* What remove() does to the calls.
LEMMA OrphanFields ==
  ASSUME NEW calls \in [Callers -> CallType]
  PROVE  /\ Orphan(calls) \in [Callers -> CallType]
         /\ \A c \in Callers :
              /\ ~ Orphan(calls)[c].mine
              /\ Orphan(calls)[c].at =
                   IF calls[c].at = "blocked" THEN "loaded" ELSE calls[c].at
              /\ Orphan(calls)[c].source = calls[c].source
<1>1. ASSUME NEW c \in Callers
      PROVE  /\ [Wake(calls[c]) EXCEPT !.mine = FALSE] \in CallType
             /\ ~ [Wake(calls[c]) EXCEPT !.mine = FALSE].mine
             /\ [Wake(calls[c]) EXCEPT !.mine = FALSE].at =
                  IF calls[c].at = "blocked" THEN "loaded" ELSE calls[c].at
             /\ [Wake(calls[c]) EXCEPT !.mine = FALSE].source = calls[c].source
  <2>1. calls[c] \in CallType
    OBVIOUS
  <2>. QED
    BY <2>1 DEF Wake, CallType, Points
<1>. QED
  BY <1>1 DEF Orphan

\* What makeReady() does to the calls.
Waked(calls) == [c \in Callers |-> Wake(calls[c])]

\* makeReady() changes nothing of a call but where it waits.
LEMMA WakedFields ==
  ASSUME NEW calls \in [Callers -> CallType]
  PROVE  /\ Waked(calls) \in [Callers -> CallType]
         /\ \A c \in Callers :
              /\ Waked(calls)[c].mine = calls[c].mine
              /\ Waked(calls)[c].at =
                   IF calls[c].at = "blocked" THEN "loaded" ELSE calls[c].at
              /\ Waked(calls)[c].source = calls[c].source
<1>1. ASSUME NEW c \in Callers
      PROVE  /\ Wake(calls[c]) \in CallType
             /\ Wake(calls[c]).mine = calls[c].mine
             /\ Wake(calls[c]).at =
                  IF calls[c].at = "blocked" THEN "loaded" ELSE calls[c].at
             /\ Wake(calls[c]).source = calls[c].source
  <2>1. calls[c] \in CallType
    OBVIOUS
  <2>. QED
    BY <2>1 DEF Wake, CallType, Points
<1>. QED
  BY <1>1 DEF Waked

\* One call goes on, the others stay.
LEMMA WithFields ==
  ASSUME NEW c \in Callers, NEW next \in CallType, call \in [Callers -> CallType]
  PROVE  /\ With(c, next) \in [Callers -> CallType]
         /\ With(c, next)[c] = next
         /\ \A d \in Callers : d # c => With(c, next)[d] = call[d]
BY DEF With

\* A call that returns, or starts over.
LEMMA ExitFields ==
  ASSUME NEW c \in Callers, call \in [Callers -> CallType]
  PROVE  /\ Exit(c) \in [Callers -> CallType]
         /\ Exit(c)[c].at = "over" /\ ~ Exit(c)[c].mine
         /\ Retry(c) \in [Callers -> CallType]
         /\ Retry(c)[c].at = "begin" /\ ~ Retry(c)[c].mine
         /\ \A d \in Callers : d # c => Exit(c)[d] = call[d] /\ Retry(c)[d] = call[d]
<1>1. Over \in CallType /\ Over.at = "over" /\ ~ Over.mine
  <2>1. Over \in CallType
    BY CallRecords
  <2>. QED
    BY <2>1 DEF Over, Idle, CallType, Points
<1>2. [Idle EXCEPT !.at = "begin", !.kind = call[c].kind] \in CallType
  <2>1. call[c].kind \in Names
    BY DEF CallType
  <2>2. Idle \in CallType
    BY CallRecords
  <2>. QED
    BY <2>1, <2>2 DEF Idle, CallType, Points, Names
<1>3. /\ [Idle EXCEPT !.at = "begin", !.kind = call[c].kind].at = "begin"
      /\ ~ [Idle EXCEPT !.at = "begin", !.kind = call[c].kind].mine
  BY DEF Idle
<1>4. /\ Exit(c) \in [Callers -> CallType]
      /\ Exit(c)[c] = Over
      /\ \A d \in Callers : d # c => Exit(c)[d] = call[d]
  BY <1>1, WithFields DEF Exit
<1>5. /\ Retry(c) \in [Callers -> CallType]
      /\ Retry(c)[c] = [Idle EXCEPT !.at = "begin", !.kind = call[c].kind]
      /\ \A d \in Callers : d # c => Retry(c)[d] = call[d]
  BY <1>2, WithFields DEF Retry
<1>. QED
  BY <1>1, <1>3, <1>4, <1>5

-----------------------------------------------------------------------------
(* Sequences.                                                              *)

\* A sequence without its head.
LEMMA TailValue ==
  ASSUME NEW S, NEW q \in Seq(S), q # <<>>
  PROVE  /\ Tail(q) \in Seq(S) /\ Len(q) \in Nat \ {0}
         /\ 1 \in DOMAIN q /\ Head(q) = q[1]
         /\ DOMAIN Tail(q) = 1 .. Len(q) - 1 /\ Len(Tail(q)) = Len(q) - 1
         /\ \A i \in 1 .. Len(q) - 1 : i + 1 \in DOMAIN q /\ Tail(q)[i] = q[i + 1]
OBVIOUS

\* A sequence with one more element.
LEMMA AppendValue ==
  ASSUME NEW S, NEW q \in Seq(S), NEW x \in S
  PROVE  /\ Append(q, x) \in Seq(S) /\ Len(q) \in Nat
         /\ Len(Append(q, x)) = Len(q) + 1
         /\ DOMAIN Append(q, x) = 1 .. Len(q) + 1 /\ DOMAIN q = 1 .. Len(q)
         /\ Append(q, x)[Len(q) + 1] = x
         /\ \A i \in 1 .. Len(q) : Append(q, x)[i] = q[i]
OBVIOUS

\* A prefix agrees with the sequence as far as it reaches.
LEMMA PrefixMeans ==
  ASSUME NEW S, NEW p \in Seq(S), NEW q \in Seq(S)
  PROVE  IsPrefix(p, q) <=> Len(p) <= Len(q) /\ \A i \in 1 .. Len(p) : p[i] = q[i]
<1>1. Len(p) \in Nat /\ Len(q) \in Nat
  OBVIOUS
<1>2. SubSeq(p, 1, Len(p)) = p
  OBVIOUS
<1>3. ASSUME Len(p) <= Len(q)
      PROVE  /\ SubSeq(q, 1, Len(p)) \in Seq(S) /\ Len(SubSeq(q, 1, Len(p))) = Len(p)
             /\ \A i \in 1 .. Len(p) : SubSeq(q, 1, Len(p))[i] = q[i]
  <2>1. \A i \in 1 .. Len(p) : i \in 1 .. Len(q)
    BY <1>1, <1>3
  <2>. QED
    BY <1>1, <1>3, <2>1
<1>4. ASSUME Len(p) <= Len(q), \A i \in 1 .. Len(p) : p[i] = q[i]
      PROVE  p = SubSeq(q, 1, Len(p))
  <2>. DEFINE r == SubSeq(q, 1, Len(p))
  <2>1. r \in Seq(S) /\ Len(r) = Len(p) /\ \A i \in 1 .. Len(p) : r[i] = p[i]
    BY <1>3, <1>4
  <2>. HIDE DEF r
  <2>2. p = r
    BY <2>1, SeqEqual
  <2>. QED
    BY <2>2 DEF r
<1>5. ASSUME Len(p) <= Len(q), p = SubSeq(q, 1, Len(p))
      PROVE  \A i \in 1 .. Len(p) : p[i] = q[i]
  BY <1>3, <1>5
<1>. QED
  BY <1>1, <1>2, <1>4, <1>5 DEF IsPrefix

\* A part of a sequence.
LEMMA SubSeqValue ==
  ASSUME NEW S, NEW q \in Seq(S), NEW a \in Nat \ {0}, NEW b \in Nat, b <= Len(q)
  PROVE  /\ SubSeq(q, a, b) \in Seq(S)
         /\ Len(SubSeq(q, a, b)) = IF a <= b THEN b - a + 1 ELSE 0
         /\ \A i \in 1 .. b - a + 1 : SubSeq(q, a, b)[i] = q[a + i - 1]
<1>1. \A i \in a .. b : q[i] \in S
  OBVIOUS
<1>. QED
  BY <1>1

\* Two sequences, one behind the other.
LEMMA ConcatValue ==
  ASSUME NEW S, NEW p \in Seq(S), NEW q \in Seq(S)
  PROVE  /\ p \o q \in Seq(S)
         /\ Len(p) \in Nat /\ Len(q) \in Nat
         /\ Len(p \o q) = Len(p) + Len(q)
         /\ \A i \in 1 .. Len(p) : (p \o q)[i] = p[i]
         /\ \A i \in Len(p) + 1 .. Len(p) + Len(q) : (p \o q)[i] = q[i - Len(p)]
<1>1. Len(p) \in Nat /\ Len(q) \in Nat
  OBVIOUS
<1>2. p \o q \in Seq(S) /\ Len(p \o q) = Len(p) + Len(q)
  BY ConcatProperties
<1>3. \A i \in 1 .. Len(p) + Len(q) :
        (p \o q)[i] = IF i <= Len(p) THEN p[i] ELSE q[i - Len(p)]
  BY ConcatProperties
<1>. QED
  BY <1>1, <1>2, <1>3

\* A sequence without its element i.
LEMMA RemoveAtValue ==
  ASSUME NEW S, NEW q \in Seq(S), NEW i \in DOMAIN q
  PROVE  /\ RemoveAt(q, i) \in Seq(S)
         /\ Len(RemoveAt(q, i)) = Len(q) - 1
         /\ \A k \in 1 .. Len(q) - 1 :
              RemoveAt(q, i)[k] = q[IF k < i THEN k ELSE k + 1]
<1>1. i \in Nat /\ 1 <= i /\ i <= Len(q) /\ Len(q) \in Nat
  OBVIOUS
<1>. DEFINE a == SubSeq(q, 1, i - 1)
            b == SubSeq(q, i + 1, Len(q))
<1>2. /\ a \in Seq(S) /\ Len(a) = i - 1
      /\ \A k \in 1 .. Len(a) : a[k] = q[k]
  BY <1>1
<1>3. /\ b \in Seq(S) /\ Len(b) = Len(q) - i
      /\ \A k \in 1 .. Len(b) : b[k] = q[i + k]
  BY <1>1
<1>4. RemoveAt(q, i) = a \o b
  BY DEF RemoveAt
<1>. HIDE DEF a, b
<1>5. a \o b \in Seq(S) /\ Len(a \o b) = Len(q) - 1
  BY <1>1, <1>2, <1>3, ConcatProperties
<1>6. ASSUME NEW k \in 1 .. Len(q) - 1
      PROVE  (a \o b)[k] = q[IF k < i THEN k ELSE k + 1]
  <2>1. k \in 1 .. (Len(a) + Len(b))
    BY <1>1, <1>2, <1>3
  <2>2. (a \o b)[k] = IF k <= Len(a) THEN a[k] ELSE b[k - Len(a)]
    BY <1>2, <1>3, <2>1, ConcatProperties
  <2>3. CASE k < i
    <3>1. k \in 1 .. Len(a)
      BY <1>1, <1>2, <2>3
    <3> QED
      BY <1>2, <2>2, <2>3, <3>1
  <2>4. CASE ~(k < i)
    <3>1. k - Len(a) \in 1 .. Len(b) /\ ~(k <= Len(a)) /\ ~(k < i)
      BY <1>1, <1>2, <1>3, <2>4
    <3>2. (a \o b)[k] = q[i + (k - Len(a))]
      BY <1>3, <2>2, <3>1
    <3>3. i + (k - Len(a)) = k + 1
      BY <1>1, <1>2
    <3> QED
      BY <3>1, <3>2, <3>3
  <2> QED
    BY <2>3, <2>4
<1> QED
  BY <1>4, <1>5, <1>6

-----------------------------------------------------------------------------
(* What the steps do to the calls, the entry and the chain.                *)

\* Call c returns or starts over, or it stays where it is: woken if it waited for
\* the reservation, and without its entry if that is gone.
Settled(c) == call'[c].at \in {"over", "begin"} /\ ~ call'[c].mine
Stays(c)   == /\ \/ call'[c].at = call[c].at
                 \/ call[c].at = "blocked" /\ call'[c].at = "loaded"
              /\ call'[c].source = call[c].source
              /\ call'[c].mine => call[c].mine

\* The entry is removed; it becomes ready; it is left as it is. D are the calls
\* that settle with it.
Removed(D) ==
  /\ entry' = NoEntry
  /\ \A c \in Callers : ~ call'[c].mine
  /\ \A c \in Callers : IF c \in D THEN Settled(c) ELSE Stays(c)

Readied(source, D) ==
  /\ entry' = [phase |-> "ready", source |-> source]
  /\ \A c \in Callers : IF c \in D THEN Settled(c) ELSE Stays(c)

Left(D) ==
  /\ entry' = entry
  /\ \A c \in Callers : IF c \in D THEN Settled(c) ELSE call'[c] = call[c]

\* The new values of the call table and of the entry are typed.
CallTypes == call' \in [Callers -> CallType] /\ entry' \in EntryType

\* remove() with or without a call that settles.
LEMMA RemovedFacts ==
  ASSUME PrepType
  PROVE  /\ RemoveEntry(call) => Removed({}) /\ CallTypes
         /\ \A c \in Callers :
              /\ RemoveEntry(Exit(c)) => Removed({c}) /\ CallTypes
              /\ RemoveEntry(Retry(c)) => Removed({c}) /\ CallTypes
<1>. USE DEF PrepType
<1>1. ASSUME RemoveEntry(call) PROVE Removed({}) /\ CallTypes
  <2>1. /\ call' \in [Callers -> CallType]
        /\ \A c \in Callers :
             /\ ~ call'[c].mine
             /\ call'[c].at = IF call[c].at = "blocked" THEN "loaded" ELSE call[c].at
             /\ call'[c].source = call[c].source
    BY <1>1, OrphanFields DEF RemoveEntry
  <2>2. entry' = NoEntry /\ NoEntry \in EntryType
    BY <1>1, CallRecords DEF RemoveEntry
  <2>. QED
    BY <2>1, <2>2 DEF Removed, Stays, CallTypes
<1>2. ASSUME NEW c \in Callers, NEW calls \in {Exit(c), Retry(c)}, RemoveEntry(calls)
      PROVE  Removed({c}) /\ CallTypes
  <2>1. /\ calls \in [Callers -> CallType] /\ calls[c].at \in {"over", "begin"}
        /\ \A d \in Callers : d # c => calls[d] = call[d]
    BY <1>2, ExitFields
  <2>2. /\ call' \in [Callers -> CallType]
        /\ \A d \in Callers :
             /\ ~ call'[d].mine
             /\ call'[d].at = IF calls[d].at = "blocked" THEN "loaded" ELSE calls[d].at
             /\ call'[d].source = calls[d].source
    BY <1>2, <2>1, OrphanFields DEF RemoveEntry
  <2>3. entry' = NoEntry /\ NoEntry \in EntryType
    BY <1>2, CallRecords DEF RemoveEntry
  <2>4. \A d \in Callers : IF d \in {c} THEN Settled(d) ELSE Stays(d)
    BY <2>1, <2>2 DEF Stays, Settled
  <2>. QED
    BY <2>2, <2>3, <2>4 DEF Removed, CallTypes
<1>. QED
  BY <1>1, <1>2

\* remove() of an entry that may not be the call's own.
LEMMA DropFacts ==
  ASSUME PrepType, NEW c \in Callers, NEW calls \in {Exit(c), Retry(c)}, Drop(c, calls)
  PROVE  /\ CallTypes
         /\ call[c].mine => Removed({c})
         /\ ~ call[c].mine => Left({c})
<1>1. CASE call[c].mine
  BY <1>1, RemovedFacts DEF Drop
<1>2. CASE ~ call[c].mine
  <2>1. call' = calls /\ entry' = entry /\ entry \in EntryType
    BY <1>2 DEF Drop, PrepType
  <2>2. /\ calls \in [Callers -> CallType] /\ calls[c].at \in {"over", "begin"}
        /\ ~ calls[c].mine
        /\ \A d \in Callers : d # c => calls[d] = call[d]
    BY ExitFields DEF PrepType
  <2>. QED
    BY <1>2, <2>1, <2>2 DEF Left, Settled, CallTypes
<1>. QED
  BY <1>1, <1>2

\* A call that returns by itself.
LEMMA LeftFacts ==
  ASSUME PrepType, NEW c \in Callers, call' \in {Exit(c), Retry(c)}, entry' = entry
  PROVE  CallTypes /\ Left({c})
<1>2. /\ call' \in [Callers -> CallType] /\ call'[c].at \in {"over", "begin"}
      /\ ~ call'[c].mine
      /\ \A d \in Callers : d # c => call'[d] = call[d]
  BY ExitFields DEF PrepType
<1>. QED
  BY <1>2 DEF Left, Settled, CallTypes, PrepType

\* makeReady() by the call that had the entry.
LEMMA ReadiedFacts ==
  ASSUME PrepType, NEW c \in Callers, NEW source \in SourceType,
         MakeReady(source, Exit(c))
  PROVE  CallTypes /\ Readied(source, {c})
<1>1. /\ Exit(c) \in [Callers -> CallType] /\ Exit(c)[c].at = "over" /\ ~ Exit(c)[c].mine
      /\ \A d \in Callers : d # c => Exit(c)[d] = call[d]
  BY ExitFields DEF PrepType
<1>2. call' = Waked(Exit(c)) /\ entry' = [phase |-> "ready", source |-> source]
  BY DEF MakeReady, Waked
<1>3. /\ call' \in [Callers -> CallType]
      /\ \A d \in Callers :
           /\ call'[d].mine = Exit(c)[d].mine
           /\ call'[d].at = IF Exit(c)[d].at = "blocked" THEN "loaded" ELSE Exit(c)[d].at
           /\ call'[d].source = Exit(c)[d].source
  BY <1>1, <1>2, WakedFields
<1>4. entry' \in EntryType
  BY <1>2 DEF EntryType, Phases
<1>. QED
  BY <1>1, <1>2, <1>3, <1>4 DEF CallTypes, Readied, Settled, Stays

-----------------------------------------------------------------------------
(* The chain.                                                              *)

\* The head of the chain has run, and the others move up; where the log was
\* appended to, no read fills the entry any more.
Dequeued ==
  /\ chain # <<>> /\ chain' \in Seq(OpType) /\ Len(chain') = Len(chain) - 1
  /\ \A i \in 1 .. Len(chain) - 1 : chain'[i] = chain[i + 1]
Emptied ==
  /\ chain # <<>> /\ chain' \in Seq(OpType) /\ Len(chain') = Len(chain) - 1
  /\ \A i \in 1 .. Len(chain) - 1 : chain'[i] = [chain[i + 1] EXCEPT !.current = FALSE]

\* Operation i of the new chain is operation j of the old one.
Kept(i, j) ==
  /\ chain'[i].kind = chain[j].kind /\ chain'[i].n = chain[j].n
  /\ chain'[i].kind # "load" => chain'[i].for = chain[j].for
  /\ chain'[i].current => chain[j].current

\* The new chain holds operations of the old one in their order.
Embeds(f) ==
  /\ chain' \in Seq(OpType)
  /\ f \in [DOMAIN chain' -> DOMAIN chain]
  /\ \A i, j \in DOMAIN chain' : i < j => f[i] < f[j]
  /\ \A i \in DOMAIN chain' : Kept(i, f[i])

\* The two ways in which the head of the chain leaves it.
LEMMA DequeueFacts ==
  ASSUME PrepType, chain # <<>>
  PROVE  /\ Dequeue => Dequeued /\ running' = FALSE
         /\ \A calls : Invalidate(calls) => Emptied /\ RemoveEntry(calls)
<1>1. chain \in Seq(OpType) /\ Len(chain) \in Nat \ {0}
  BY DEF PrepType
<1>2. ASSUME Dequeue PROVE Dequeued /\ running' = FALSE
  BY <1>1, <1>2, TailValue DEF Dequeue, Dequeued
<1>3. ASSUME NEW calls, Invalidate(calls) PROVE Emptied /\ RemoveEntry(calls)
  <2>1. chain' = [i \in 1..(Len(chain) - 1) |-> [chain[i + 1] EXCEPT !.current = FALSE]]
    BY <1>3 DEF Invalidate
  <2>2. \A i \in 1..(Len(chain) - 1) : [chain[i + 1] EXCEPT !.current = FALSE] \in OpType
    <3>1. \A i \in 1..(Len(chain) - 1) : chain[i + 1] \in OpType
      BY <1>1
    <3>. QED
      BY <3>1 DEF OpType
  <2>3. chain' \in Seq(OpType) /\ Len(chain') = Len(chain) - 1
    BY <1>1, <2>1, <2>2, IsASeq
  <2>. QED
    BY <1>3, <2>1, <2>3 DEF Invalidate, Emptied
<1>. QED
  BY <1>2, <1>3

\* The embeddings that occur: the head is gone, nothing moved, operation k is gone.
Up == [i \in 1 .. Len(chain) - 1 |-> i + 1]

\* Without its head, the chain keeps the other operations in their order.
LEMMA UpEmbeds ==
  ASSUME PrepType, Dequeued \/ Emptied
  PROVE  /\ Embeds(Up)
         /\ \A j \in DOMAIN chain : j = 1 \/ \E i \in DOMAIN chain' : Up[i] = j
         /\ \A i \in DOMAIN chain' : Up[i] # 1
<1>1. /\ chain \in Seq(OpType) /\ Len(chain) \in Nat \ {0}
      /\ chain' \in Seq(OpType) /\ Len(chain') = Len(chain) - 1
      /\ DOMAIN chain' = 1 .. Len(chain) - 1 /\ DOMAIN chain = 1 .. Len(chain)
  BY DEF PrepType, Dequeued, Emptied
<1>2. Up \in [DOMAIN chain' -> DOMAIN chain]
  BY <1>1 DEF Up
<1>3. \A i, j \in DOMAIN chain' : i < j => Up[i] < Up[j]
  BY <1>1 DEF Up
<1>4. ASSUME NEW i \in DOMAIN chain' PROVE Kept(i, Up[i])
  <2>1. chain[i + 1] \in OpType /\ Up[i] = i + 1
    BY <1>1 DEF Up
  <2>2. chain'[i] = chain[i + 1] \/ chain'[i] = [chain[i + 1] EXCEPT !.current = FALSE]
    BY <1>1 DEF Dequeued, Emptied
  <2>. QED
    BY <2>1, <2>2 DEF Kept, OpType
<1>5. \A j \in DOMAIN chain : j = 1 \/ \E i \in DOMAIN chain' : Up[i] = j
  <2>1. ASSUME NEW j \in DOMAIN chain, j # 1 PROVE j - 1 \in DOMAIN chain' /\ Up[j - 1] = j
    BY <1>1, <2>1 DEF Up
  <2>. QED
    BY <2>1
<1>6. \A i \in DOMAIN chain' : Up[i] # 1
  BY <1>1 DEF Up
<1>. QED
  BY <1>1, <1>2, <1>3, <1>4, <1>5, <1>6 DEF Embeds

Same == [i \in DOMAIN chain |-> i]

\* A chain whose operations only lose their currency or some of their calls.
LEMMA SameEmbeds ==
  ASSUME PrepType, chain' \in Seq(OpType), Len(chain') = Len(chain),
         \A i \in DOMAIN chain : Kept(i, i)
  PROVE  Embeds(Same) /\ \A j \in DOMAIN chain : \E i \in DOMAIN chain' : Same[i] = j
<1>1. DOMAIN chain' = DOMAIN chain /\ DOMAIN chain \subseteq Nat
  BY DEF PrepType
<1>. QED
  BY <1>1 DEF Embeds, Same

\* A chain that is not touched.
LEMMA StillEmbeds ==
  ASSUME PrepType, chain' = chain
  PROVE  Embeds(Same) /\ \A j \in DOMAIN chain : \E i \in DOMAIN chain' : Same[i] = j
<1>1. chain' \in Seq(OpType) /\ Len(chain') = Len(chain) /\ \A i \in DOMAIN chain : Kept(i, i)
  BY DEF PrepType, Kept
<1>. QED
  BY <1>1, SameEmbeds

Past(k) == [i \in 1 .. Len(chain) - 1 |-> IF i < k THEN i ELSE i + 1]

\* A chain that loses operation k.
LEMMA CutEmbeds ==
  ASSUME PrepType, NEW k \in DOMAIN chain, chain' = RemoveAt(chain, k)
  PROVE  /\ Embeds(Past(k))
         /\ \A j \in DOMAIN chain : j = k \/ \E i \in DOMAIN chain' : Past(k)[i] = j
         /\ \A i \in DOMAIN chain' : Past(k)[i] # k /\ chain'[i] = chain[Past(k)[i]]
<1>1. /\ chain \in Seq(OpType) /\ Len(chain) \in Nat \ {0} /\ k \in 1 .. Len(chain)
      /\ DOMAIN chain = 1 .. Len(chain)
  BY DEF PrepType
<1>2. /\ chain' \in Seq(OpType) /\ Len(chain') = Len(chain) - 1
      /\ \A i \in 1 .. Len(chain) - 1 : chain'[i] = chain[IF i < k THEN i ELSE i + 1]
  BY <1>1, RemoveAtValue
<1>3. DOMAIN chain' = 1 .. Len(chain) - 1
  BY <1>1, <1>2
<1>4. Past(k) \in [DOMAIN chain' -> DOMAIN chain]
  BY <1>1, <1>3 DEF Past
<1>5. \A i, j \in DOMAIN chain' : i < j => Past(k)[i] < Past(k)[j]
  BY <1>1, <1>3 DEF Past
<1>6. \A i \in DOMAIN chain' : Past(k)[i] # k /\ chain'[i] = chain[Past(k)[i]]
  BY <1>1, <1>2, <1>3 DEF Past
<1>7. \A i \in DOMAIN chain' : Kept(i, Past(k)[i])
  BY <1>6 DEF Kept
<1>8. ASSUME NEW j \in DOMAIN chain, j # k
      PROVE  \E i \in DOMAIN chain' : Past(k)[i] = j
  <2>1. CASE j < k
    <3>1. j \in DOMAIN chain' /\ Past(k)[j] = j
      BY <1>1, <1>3, <2>1 DEF Past
    <3>. QED
      BY <3>1
  <2>2. CASE ~ (j < k)
    <3>1. j - 1 \in DOMAIN chain' /\ Past(k)[j - 1] = j
      BY <1>1, <1>3, <1>8, <2>2 DEF Past
    <3>. QED
      BY <3>1
  <2>. QED
    BY <2>1, <2>2
<1>. QED
  BY <1>2, <1>4, <1>5, <1>6, <1>7, <1>8 DEF Embeds

\* A chain that one operation joins at its end.
LEMMA QueueFacts ==
  ASSUME PrepType, NEW op \in OpType, Queue(op)
  PROVE  /\ chain' \in Seq(OpType) /\ Len(chain) \in Nat /\ Len(chain') = Len(chain) + 1
         /\ DOMAIN chain = 1 .. Len(chain) /\ DOMAIN chain' = 1 .. Len(chain) + 1
         /\ chain'[Len(chain) + 1] = op
         /\ \A i \in DOMAIN chain : chain'[i] = chain[i]
         /\ chain # <<>> => Head(chain') = Head(chain)
<1>1. chain \in Seq(OpType) /\ chain' = Append(chain, op)
  BY DEF PrepType, Queue
<1>2. /\ chain' \in Seq(OpType) /\ Len(chain) \in Nat /\ Len(chain') = Len(chain) + 1
      /\ DOMAIN chain = 1 .. Len(chain) /\ DOMAIN chain' = 1 .. Len(chain) + 1
      /\ chain'[Len(chain) + 1] = op
      /\ \A i \in DOMAIN chain : chain'[i] = chain[i]
  BY <1>1, AppendValue
<1>3. chain # <<>> => Head(chain') = Head(chain)
  BY <1>1
<1>. QED
  BY <1>2, <1>3

\* The head of the chain and whom it is for.
LEMMA HeadFacts ==
  ASSUME PrepType, OpsInv, chain # <<>>
  PROVE  /\ Head(chain) = chain[1] /\ 1 \in DOMAIN chain /\ Head(chain) \in OpType
         /\ Head(chain).kind \in CallKinds =>
              Caller \in Callers /\ Head(chain).for = {Caller}
                /\ call[Caller].at = Head(chain).kind
         /\ Head(chain).kind \in SessionKinds =>
              Subject \in Sessions /\ Head(chain).for = {Subject}
<1>1. Head(chain) = chain[1] /\ 1 \in DOMAIN chain /\ Head(chain) \in OpType
  BY DEF PrepType
<1>2. ASSUME Head(chain).kind \in CallKinds
      PROVE  Caller \in Callers /\ Head(chain).for = {Caller}
               /\ call[Caller].at = Head(chain).kind
  <2>1. PICK c \in Callers : Head(chain).for = {c} /\ call[c].at = Head(chain).kind
    BY <1>1, <1>2 DEF OpsInv
  <2>2. Caller = c
    BY <2>1 DEF Caller
  <2>. QED
    BY <2>1, <2>2
<1>3. ASSUME Head(chain).kind \in SessionKinds
      PROVE  Subject \in Sessions /\ Head(chain).for = {Subject}
  <2>1. PICK s \in Sessions : Head(chain).for = {s}
    BY <1>1, <1>3 DEF OpsInv
  <2>2. Subject = s
    BY <2>1 DEF Subject
  <2>. QED
    BY <2>1, <2>2
<1>. QED
  BY <1>1, <1>2, <1>3

-----------------------------------------------------------------------------
(* OpsInv.                                                                 *)

\* No call waits for two operations.
LEMMA Apart ==
  ASSUME PrepType, OpsInv, NEW i \in DOMAIN chain, NEW j \in DOMAIN chain, i # j,
         chain[i].kind \in {"load"} \cup CallKinds, chain[j].kind \in {"load"} \cup CallKinds
  PROVE  chain[i].for \cap chain[j].for = {}
<1>1. ASSUME NEW k \in DOMAIN chain, NEW m \in DOMAIN chain,
             chain[k].kind = "load", chain[m].kind \in CallKinds
      PROVE  chain[k].for \cap chain[m].for = {}
  <2>1. PICK c \in Callers : chain[m].for = {c} /\ call[c].at = chain[m].kind
    BY <1>1 DEF OpsInv
  <2>2. \A d \in chain[k].for : call[d].at = "loading"
    BY <1>1 DEF OpsInv
  <2>. QED
    BY <1>1, <2>1, <2>2 DEF CallKinds
<1>2. CASE chain[i].kind = "load" /\ chain[j].kind = "load"
  BY <1>2 DEF OpsInv
<1>3. CASE chain[i].kind \in CallKinds /\ chain[j].kind \in CallKinds
  <2>1. PICK c \in Callers : chain[i].for = {c} /\ call[c].at = chain[i].kind
    BY <1>3 DEF OpsInv
  <2>2. PICK d \in Callers : chain[j].for = {d} /\ call[d].at = chain[j].kind
    BY <1>3 DEF OpsInv
  <2>3. chain[i].kind = chain[j].kind => chain[i].for # chain[j].for
    BY <1>3 DEF OpsInv
  <2>. QED
    BY <2>1, <2>2, <2>3
<1>. QED
  BY <1>1, <1>2, <1>3

\* Operations that leave the chain, or lose calls, and calls that do not go on.
LEMMA OpsKept ==
  ASSUME PrepType, OpsInv, NEW f, Embeds(f),
         \A i \in DOMAIN chain' : chain'[i].for \subseteq chain[f[i]].for,
         \A i \in DOMAIN chain' : \A c \in Callers \cap chain'[i].for :
           chain'[i].kind \in {"load"} \cup CallKinds =>
             call'[c].at = call[c].at /\ (call'[c].mine => call[c].mine),
         \A i \in DOMAIN chain' :
           /\ chain'[i].current => entry'.phase = "loading"
           /\ chain[f[i]].current /\ ~ chain'[i].current =>
                \A c \in Callers : ~ call'[c].mine,
         running' => chain' # <<>> /\ Head(chain').kind \in {"commit", "append"}
  PROVE  OpsInv'
<1>1. ASSUME NEW i \in DOMAIN chain'
      PROVE  /\ f[i] \in DOMAIN chain /\ Kept(i, f[i])
             /\ chain'[i].kind = chain[f[i]].kind
             /\ chain'[i].kind # "load" => chain'[i].for = chain[f[i]].for
             /\ chain'[i].current => chain[f[i]].current
  BY DEF Embeds, Kept
<1>2. \A i, j \in DOMAIN chain' : i # j => f[i] # f[j]
  <2>1. DOMAIN chain' \subseteq Nat /\ DOMAIN chain \subseteq Nat
    BY DEF Embeds, PrepType
  <2>2. \A i, j \in DOMAIN chain' : i < j => f[i] < f[j]
    BY DEF Embeds
  <2>3. ASSUME NEW i \in DOMAIN chain', NEW j \in DOMAIN chain', i # j
        PROVE  f[i] # f[j]
    <3>1. i \in Nat /\ j \in Nat /\ f[i] \in Nat /\ f[j] \in Nat
      BY <1>1, <2>1
    <3>. QED
      BY <2>2, <2>3, <3>1
  <2>. QED
    BY <2>3
<1>3. ASSUME NEW i \in DOMAIN chain'
      PROVE  /\ chain'[i].kind = "load" =>
                  /\ chain'[i].for \subseteq Callers
                  /\ \A c \in chain'[i].for :
                       call'[c].at = "loading" /\ (call'[c].mine => chain'[i].current)
             /\ chain'[i].kind \in CallKinds =>
                  \E c \in Callers : chain'[i].for = {c} /\ call'[c].at = chain'[i].kind
             /\ chain'[i].kind \in SessionKinds => \E s \in Sessions : chain'[i].for = {s}
             /\ chain'[i].current => chain'[i].kind = "load" /\ entry'.phase = "loading"
  <2>1. CASE chain'[i].kind = "load"
    <3>1. /\ chain[f[i]].for \subseteq Callers
          /\ \A c \in chain[f[i]].for :
               call[c].at = "loading" /\ (call[c].mine => chain[f[i]].current)
      BY <1>1, <2>1 DEF OpsInv
    <3>. QED
      BY <1>1, <2>1, <3>1 DEF CallKinds, SessionKinds, RegKinds
  <2>2. CASE chain'[i].kind \in CallKinds
    <3>1. PICK c \in Callers : chain[f[i]].for = {c} /\ call[c].at = chain[f[i]].kind
      BY <1>1, <2>2 DEF OpsInv
    <3>2. chain[f[i]].current => chain[f[i]].kind = "load"
      BY <1>1 DEF OpsInv
    <3>3. chain'[i].kind # "load" /\ chain'[i].kind \notin SessionKinds
      BY <2>2 DEF CallKinds, SessionKinds, RegKinds
    <3>4. chain'[i].for = {c} /\ call'[c].at = chain'[i].kind
      BY <1>1, <2>2, <3>1, <3>3
    <3>. QED
      BY <1>1, <3>2, <3>3, <3>4
  <2>3. CASE chain'[i].kind \notin {"load"} \cup CallKinds
    <3>1. /\ chain[f[i]].current => chain[f[i]].kind = "load"
          /\ chain[f[i]].kind \in SessionKinds => \E s \in Sessions : chain[f[i]].for = {s}
      BY <1>1 DEF OpsInv
    <3>. QED
      BY <1>1, <2>3, <3>1
  <2>. QED
    BY <2>1, <2>2, <2>3
<1>4. ASSUME NEW i \in DOMAIN chain', NEW j \in DOMAIN chain', i # j
      PROVE  /\ ~ (chain'[i].current /\ chain'[j].current)
             /\ chain'[i].kind = "load" /\ chain'[j].kind = "load" =>
                  chain'[i].for \cap chain'[j].for = {}
             /\ chain'[i].kind \in CallKinds /\ chain'[j].kind = chain'[i].kind =>
                  chain'[i].for # chain'[j].for
  <2>1. f[i] \in DOMAIN chain /\ f[j] \in DOMAIN chain /\ f[i] # f[j]
    BY <1>1, <1>2, <1>4
  <2>2. /\ ~ (chain[f[i]].current /\ chain[f[j]].current)
        /\ chain[f[i]].kind = "load" /\ chain[f[j]].kind = "load" =>
             chain[f[i]].for \cap chain[f[j]].for = {}
        /\ chain[f[i]].kind \in CallKinds /\ chain[f[j]].kind = chain[f[i]].kind =>
             chain[f[i]].for # chain[f[j]].for
    BY <2>1 DEF OpsInv
  <2>3. /\ ~ (chain'[i].current /\ chain'[j].current)
        /\ chain'[i].kind = "load" /\ chain'[j].kind = "load" =>
             chain'[i].for \cap chain'[j].for = {}
    BY <1>1, <2>2
  <2>4. "load" \notin CallKinds
    BY DEF CallKinds
  <2>. QED
    BY <1>1, <2>2, <2>3, <2>4
<1>. QED
  BY <1>3, <1>4 DEF OpsInv

\* An operation that is queued, and calls that wait for none of the others.
LEMMA OpsQueued ==
  ASSUME PrepType, OpsInv, NEW op \in OpType, Queue(op), UNCHANGED running,
         \A c \in Callers : call[c].at \in {"loading"} \cup CallKinds =>
           call'[c].at = call[c].at /\ (call'[c].mine => call[c].mine),
         \A i \in DOMAIN chain : chain[i].current => entry'.phase = "loading",
         \/ op.kind \in SessionKinds /\ ~ op.current /\ \E s \in Sessions : op.for = {s}
         \/ /\ op.kind \in CallKinds /\ ~ op.current
            /\ \E c \in Callers : /\ op.for = {c} /\ call'[c].at = op.kind
                                  /\ call[c].at \notin {"loading"} \cup CallKinds
         \/ /\ op.kind = "load" /\ entry'.phase = "loading" /\ op.current
            /\ entry.phase # "loading"
            /\ \E c \in Callers : /\ op.for = {c} /\ call'[c].at = "loading"
                                  /\ call[c].at \notin {"loading"} \cup CallKinds
  PROVE  OpsInv'
<1>. DEFINE m == Len(chain) + 1
            W == {"loading"} \cup CallKinds
<1>1. /\ DOMAIN chain' = DOMAIN chain \cup {m} /\ m \notin DOMAIN chain
      /\ chain'[m] = op
      /\ \A i \in DOMAIN chain : chain'[i] = chain[i]
      /\ chain' # <<>>
      /\ chain # <<>> => Head(chain') = Head(chain)
  <2>1. /\ chain' \in Seq(OpType) /\ Len(chain) \in Nat /\ Len(chain') = Len(chain) + 1
        /\ DOMAIN chain = 1 .. Len(chain) /\ DOMAIN chain' = 1 .. Len(chain) + 1
        /\ chain'[Len(chain) + 1] = op
        /\ \A i \in DOMAIN chain : chain'[i] = chain[i]
        /\ chain # <<>> => Head(chain') = Head(chain)
    BY QueueFacts
  <2>2. chain' # <<>>
    BY <2>1
  <2>. QED
    BY <2>1, <2>2
<1>. HIDE DEF m
<1>2. "load" \notin CallKinds /\ "load" \notin SessionKinds /\ CallKinds \cap SessionKinds = {}
  BY DEF CallKinds, SessionKinds, RegKinds
<1>3. ASSUME NEW i \in DOMAIN chain
      PROVE  /\ chain[i].kind = "load" => /\ chain[i].for \subseteq Callers
                                         /\ \A c \in chain[i].for : call[c].at \in W
             /\ chain[i].kind \in CallKinds =>
                  \E c \in Callers : chain[i].for = {c} /\ call[c].at \in W
  BY DEF OpsInv
<1>4. ASSUME NEW i \in DOMAIN chain
      PROVE  /\ chain'[i].kind = "load" =>
                  /\ chain'[i].for \subseteq Callers
                  /\ \A c \in chain'[i].for :
                       call'[c].at = "loading" /\ (call'[c].mine => chain'[i].current)
             /\ chain'[i].kind \in CallKinds =>
                  \E c \in Callers : chain'[i].for = {c} /\ call'[c].at = chain'[i].kind
             /\ chain'[i].kind \in SessionKinds => \E s \in Sessions : chain'[i].for = {s}
             /\ chain'[i].current => chain'[i].kind = "load" /\ entry'.phase = "loading"
  <2>1. chain'[i] = chain[i]
    BY <1>1
  <2>2. /\ chain[i].kind = "load" =>
             /\ chain[i].for \subseteq Callers
             /\ \A c \in chain[i].for :
                  call[c].at = "loading" /\ (call[c].mine => chain[i].current)
        /\ chain[i].kind \in CallKinds =>
             \E c \in Callers : chain[i].for = {c} /\ call[c].at = chain[i].kind
        /\ chain[i].kind \in SessionKinds => \E s \in Sessions : chain[i].for = {s}
        /\ chain[i].current => chain[i].kind = "load" /\ entry.phase = "loading"
    BY DEF OpsInv
  <2>3. CASE chain[i].kind = "load"
    BY <1>2, <2>1, <2>2, <2>3
  <2>4. CASE chain[i].kind \in CallKinds
    BY <1>2, <2>1, <2>2, <2>4
  <2>5. CASE chain[i].kind \notin {"load"} \cup CallKinds
    BY <2>1, <2>2, <2>5
  <2>. QED
    BY <2>3, <2>4, <2>5
<1>5. /\ chain'[m].kind = "load" =>
           /\ chain'[m].for \subseteq Callers
           /\ \A c \in chain'[m].for :
                call'[c].at = "loading" /\ (call'[c].mine => chain'[m].current)
      /\ chain'[m].kind \in CallKinds =>
           \E c \in Callers : chain'[m].for = {c} /\ call'[c].at = chain'[m].kind
      /\ chain'[m].kind \in SessionKinds => \E s \in Sessions : chain'[m].for = {s}
      /\ chain'[m].current => chain'[m].kind = "load" /\ entry'.phase = "loading"
  BY <1>1, <1>2
<1>6. ASSUME NEW i \in DOMAIN chain
      PROVE  /\ ~ (chain'[i].current /\ op.current)
             /\ chain'[i].kind = "load" /\ op.kind = "load" => chain'[i].for \cap op.for = {}
             /\ chain'[i].kind \in CallKinds /\ op.kind = chain'[i].kind =>
                  chain'[i].for # op.for
  <2>1. chain'[i] = chain[i] /\ (chain[i].current => entry.phase = "loading")
    BY <1>1 DEF OpsInv
  <2>2. op.kind \in {"load"} \cup CallKinds =>
          \E c \in Callers : op.for = {c} /\ call[c].at \notin W
    BY <1>2
  <2>. QED
    BY <1>2, <1>3, <2>1, <2>2
<1>7. ASSUME NEW i \in DOMAIN chain', NEW j \in DOMAIN chain', i # j
      PROVE  /\ ~ (chain'[i].current /\ chain'[j].current)
             /\ chain'[i].kind = "load" /\ chain'[j].kind = "load" =>
                  chain'[i].for \cap chain'[j].for = {}
             /\ chain'[i].kind \in CallKinds /\ chain'[j].kind = chain'[i].kind =>
                  chain'[i].for # chain'[j].for
  <2>1. CASE i \in DOMAIN chain /\ j \in DOMAIN chain
    BY <1>1, <1>7, <2>1 DEF OpsInv
  <2>2. CASE i = m
    BY <1>1, <1>6, <1>7, <2>2
  <2>3. CASE j = m
    BY <1>1, <1>6, <1>7, <2>3
  <2>. QED
    BY <1>1, <2>1, <2>2, <2>3
<1>8. running' => chain' # <<>> /\ Head(chain').kind \in {"commit", "append"}
  BY <1>1 DEF OpsInv
<1>9. \A i \in DOMAIN chain' : i \in DOMAIN chain \/ i = m
  BY <1>1
<1>. QED
  BY <1>4, <1>5, <1>7, <1>8, <1>9 DEF OpsInv

-----------------------------------------------------------------------------
(* A call enters: it is answered, it waits elsewhere, or it joins a read.   *)

\* The other calls are as they were. Call c stays out of the chain, opens a read,
\* joins one, or finds the entry read.
Others(c) == \A d \in Callers : d # c => call'[d] = call[d]

Apart1(c) ==
  /\ chain' = chain /\ entry' = entry
  /\ call'[c].at \in {"flush", "over", "retirement"} /\ ~ call'[c].mine
Opens(c) ==
  /\ registered = None /\ entry.phase = "none" /\ entry'.phase = "loading"
  /\ Queue(Op("load", {c}, 0, TRUE))
  /\ call'[c].at = "loading"
Shares(c) ==
  /\ registered = None /\ entry.phase = "loading" /\ entry' = entry
  /\ call'[c].at = "loading"
  /\ Len(chain') = Len(chain)
  /\ \A i \in DOMAIN chain :
       /\ Kept(i, i) /\ chain'[i].current = chain[i].current
       /\ chain'[i].for = IF chain[i].kind = "load" /\ chain[i].current
                          THEN chain[i].for \cup {c} ELSE chain[i].for
Finds(c) ==
  /\ entry.phase \in {"ready", "committing", "reserved"} /\ entry' = entry
  /\ chain' = chain /\ call'[c].at = "loaded"
Enters(c) ==
  /\ CallTypes /\ chain' \in Seq(OpType) /\ Others(c)
  /\ call[c].at \in {"idle", "begin", "retirement"}
  /\ Apart1(c) \/ Opens(c) \/ Shares(c) \/ Finds(c)

\* A call joins the read of the entry, or is answered from memory.
LEMMA JoinFacts ==
  ASSUME PrepType, LiveType, NEW c \in Callers, NEW kind \in Names,
         call[c].at \in {"idle", "begin", "retirement"}, Join(c, kind)
  PROVE  Enters(c)
<1>. USE DEF PrepType
<1>1. CASE registered # None
  <2>. DEFINE next == [Idle EXCEPT !.at = "flush", !.kind = kind, !.session = registered,
                                   !.upTo = Len(events[registered])]
  <2>1. entry' = entry /\ chain' = chain
    BY <1>1 DEF Join
  <2>2. CASE kind = "load"
    <3>1. next \in CallType /\ next.at = "flush" /\ ~ next.mine
      <4>1. Len(events[registered]) \in Nat /\ registered \in Sessions
        BY <1>1 DEF LiveType
      <4>2. Idle \in CallType
        BY CallRecords
      <4>. QED
        BY <4>1, <4>2 DEF Idle, CallType, Points
    <3>2. call' = With(c, next)
      BY <1>1, <2>2 DEF Join
    <3>. HIDE DEF next
    <3>3. /\ call' \in [Callers -> CallType] /\ call'[c] = next
          /\ \A d \in Callers : d # c => call'[d] = call[d]
      BY <3>1, <3>2, WithFields
    <3>. QED
      BY <2>1, <3>1, <3>3 DEF Enters, Apart1, CallTypes, Others
  <2>3. CASE kind # "load"
    <3>1. call' = Exit(c)
      BY <1>1, <2>3 DEF Join
    <3>2. /\ call' \in [Callers -> CallType] /\ call'[c].at = "over" /\ ~ call'[c].mine
          /\ \A d \in Callers : d # c => call'[d] = call[d]
      BY <3>1, ExitFields
    <3>. QED
      BY <2>1, <3>2 DEF Enters, Apart1, CallTypes, Others
  <2>. QED
    BY <2>2, <2>3
<1>2. CASE registered = None /\ entry.phase = "none"
  <2>1. /\ entry' = [phase |-> "loading", source |-> NoSource]
        /\ Queue(Op("load", {c}, 0, TRUE)) /\ call' = With(c, Reading(kind))
    BY <1>2 DEF Join
  <2>2. Reading(kind) \in CallType /\ Reading(kind).at = "loading" /\ NoSource \in SourceType
    BY CallRecords
  <2>3. /\ call' \in [Callers -> CallType] /\ call'[c] = Reading(kind)
        /\ \A d \in Callers : d # c => call'[d] = call[d]
    BY <2>1, <2>2, WithFields
  <2>4. entry' \in EntryType /\ entry'.phase = "loading"
    BY <2>1, <2>2 DEF EntryType, Phases
  <2>5. Op("load", {c}, 0, TRUE) \in OpType
    BY DEF Op, OpType
  <2>6. chain' \in Seq(OpType)
    BY <2>1, <2>5, QueueFacts
  <2>. QED
    BY <1>2, <2>1, <2>2, <2>3, <2>4, <2>6 DEF Enters, Opens, CallTypes, Others
<1>3. CASE registered = None /\ entry.phase = "loading"
  <2>1. /\ chain' = [i \in 1..Len(chain) |->
                       IF chain[i].kind = "load" /\ chain[i].current
                       THEN [chain[i] EXCEPT !.for = @ \cup {c}] ELSE chain[i]]
        /\ call' = With(c, Reading(kind)) /\ entry' = entry
    BY <1>3 DEF Join
  <2>2. Reading(kind) \in CallType /\ Reading(kind).at = "loading"
    BY CallRecords
  <2>3. /\ call' \in [Callers -> CallType] /\ call'[c] = Reading(kind)
        /\ \A d \in Callers : d # c => call'[d] = call[d]
    BY <2>1, <2>2, WithFields
  <2>4. DOMAIN chain = 1 .. Len(chain) /\ Len(chain) \in Nat
    OBVIOUS
  <2>5. ASSUME NEW i \in 1 .. Len(chain)
        PROVE  /\ chain'[i] \in OpType
               /\ Kept(i, i) /\ chain'[i].current = chain[i].current
               /\ chain'[i].for = IF chain[i].kind = "load" /\ chain[i].current
                                  THEN chain[i].for \cup {c} ELSE chain[i].for
    <3>1. chain[i] \in OpType
      OBVIOUS
    <3>2. chain'[i] = IF chain[i].kind = "load" /\ chain[i].current
                      THEN [chain[i] EXCEPT !.for = @ \cup {c}] ELSE chain[i]
      BY <2>1
    <3>. QED
      BY <3>1, <3>2 DEF OpType, Kept
  <2>6. chain' \in Seq(OpType) /\ Len(chain') = Len(chain)
    <3>1. chain' \in [1 .. Len(chain) -> OpType]
      BY <2>1, <2>5
    <3>. QED
      BY <2>4, <3>1
  <2>. QED
    BY <1>3, <2>1, <2>2, <2>3, <2>4, <2>5, <2>6 DEF Enters, Shares, CallTypes, Others
<1>4. CASE registered = None /\ entry.phase \notin {"none", "loading"}
  <2>1. /\ call' = With(c, Loaded(kind, entry.source)) /\ entry' = entry /\ chain' = chain
    BY <1>4 DEF Join
  <2>2. entry.source \in SourceType /\ entry.phase \in Phases
    BY DEF EntryType
  <2>3. Loaded(kind, entry.source) \in CallType /\ Loaded(kind, entry.source).at = "loaded"
    BY <2>2, CallRecords
  <2>4. /\ call' \in [Callers -> CallType] /\ call'[c] = Loaded(kind, entry.source)
        /\ \A d \in Callers : d # c => call'[d] = call[d]
    BY <2>1, <2>3, WithFields
  <2>. QED
    BY <1>4, <2>1, <2>2, <2>3, <2>4 DEF Enters, Finds, CallTypes, Others, Phases
<1>. QED
  BY <1>1, <1>2, <1>3, <1>4

\* A call waits for a retirement, or joins.
LEMMA EnterFacts ==
  ASSUME PrepType, LiveType, NEW c \in Callers, NEW kind \in Names,
         call[c].at \in {"idle", "begin", "retirement"}, Enter(c, kind)
  PROVE  Enters(c)
<1>1. CASE retirement # None
  <2>. DEFINE next == [Idle EXCEPT !.at = "retirement", !.kind = kind, !.session = retirement]
  <2>1. call' = With(c, next) /\ entry' = entry /\ chain' = chain
    BY <1>1 DEF Enter
  <2>2. next \in CallType /\ next.at = "retirement" /\ ~ next.mine
    <3>1. retirement \in Sessions
      BY <1>1 DEF LiveType
    <3>2. Idle \in CallType
      BY CallRecords
    <3>. QED
      BY <3>1, <3>2 DEF Idle, CallType, Points
  <2>. HIDE DEF next
  <2>3. /\ call' \in [Callers -> CallType] /\ call'[c] = next
        /\ \A d \in Callers : d # c => call'[d] = call[d]
    BY <2>1, <2>2, WithFields DEF PrepType
  <2>. QED
    BY <2>1, <2>2, <2>3 DEF Enters, Apart1, CallTypes, Others, PrepType
<1>2. CASE retirement = None
  BY <1>2, JoinFacts DEF Enter
<1>. QED
  BY <1>1, <1>2

\* The three steps in which a call enters.
LEMMA EnteringSteps ==
  ASSUME PrepType, LiveType, NEW c \in Callers,
         Call(c) \/ Again(c) \/ RetirementSettled(c)
  PROVE  /\ Enters(c)
         /\ UNCHANGED <<disk, live, state, running, history>>
<1>1. CASE Call(c)
  <2>1. PICK kind \in Kinds \ {"append"} : Enter(c, kind)
    BY <1>1 DEF Call
  <2>2. kind \in Names
    BY KindsAssumption DEF Names
  <2>. QED
    BY <1>1, <2>1, <2>2, EnterFacts DEF Call, Enter
<1>2. CASE Again(c)
  <2>1. call[c].kind \in Names
    BY DEF PrepType, CallType
  <2>. QED
    BY <1>2, <2>1, EnterFacts DEF Again, Enter
<1>3. CASE RetirementSettled(c)
  <2>1. call[c].kind \in Names
    BY DEF PrepType, CallType
  <2>2. UNCHANGED <<disk, live, state, running, history>>
    BY <1>3 DEF RetirementSettled
  <2>3. CASE Join(c, call[c].kind)
    BY <1>3, <2>1, <2>2, <2>3, JoinFacts DEF RetirementSettled
  <2>4. CASE call' = Exit(c) /\ UNCHANGED <<entry, chain>>
    <3>1. /\ call' \in [Callers -> CallType] /\ call'[c].at = "over" /\ ~ call'[c].mine
          /\ \A d \in Callers : d # c => call'[d] = call[d]
      BY <2>4, ExitFields DEF PrepType
    <3>. QED
      BY <1>3, <2>2, <2>4, <3>1
      DEF RetirementSettled, Enters, Apart1, CallTypes, Others, PrepType
  <2>. QED
    BY <1>3, <2>3, <2>4 DEF RetirementSettled
<1>. QED
  BY <1>1, <1>2, <1>3

-----------------------------------------------------------------------------
(* The other steps of calls.                                               *)

\* The read is over, and call c leaves, queues its check, commits or waits.
Checks(c) ==
  /\ Queue(Op("check", {c}, 0, FALSE)) /\ entry' = entry
  /\ call'[c].at = "check" /\ call'[c].mine = call[c].mine
Commits(c) ==
  /\ call[c].mine /\ entry.phase = "ready"
  /\ entry' = [phase |-> "committing", source |-> entry.source]
  /\ Queue(Op("commit", {c}, 0, FALSE))
  /\ call'[c].at = "commit"
Waits(c) ==
  /\ call[c].mine /\ chain' = chain /\ entry' = entry /\ call'[c].at = "blocked"

\* reserve() and inspect() after the shared read.
LEMMA ReadDoneFacts ==
  ASSUME PrepType, NEW c \in Callers, ReadDone(c)
  PROVE  /\ CallTypes /\ Others(c) /\ call[c].at = "loaded"
         /\ \/ Left({c}) /\ chain' = chain
            \/ Checks(c) \/ Commits(c) \/ Waits(c)
         /\ UNCHANGED <<disk, live, state, running, history>>
<1>1. call[c] \in CallType /\ entry \in EntryType /\ call[c].at = "loaded"
  BY DEF PrepType, ReadDone
<1>2. UNCHANGED <<disk, live, state, running, history>>
  BY DEF ReadDone
<1>3. ASSUME NEW p \in {"check", "commit", "blocked"}
      PROVE  /\ [call[c] EXCEPT !.at = p] \in CallType
             /\ [call[c] EXCEPT !.at = p].at = p
             /\ [call[c] EXCEPT !.at = p].mine = call[c].mine
  BY <1>1 DEF CallType, Points
<1>4. ASSUME NEW p \in {"check", "commit", "blocked"},
             call' = With(c, [call[c] EXCEPT !.at = p])
      PROVE  /\ call' \in [Callers -> CallType] /\ Others(c)
             /\ call'[c].at = p /\ call'[c].mine = call[c].mine
  <2>. DEFINE next == [call[c] EXCEPT !.at = p]
  <2>1. next \in CallType /\ next.at = p /\ next.mine = call[c].mine
    BY <1>3
  <2>2. call' = With(c, next)
    BY <1>4
  <2>. HIDE DEF next
  <2>. QED
    BY <2>1, <2>2, WithFields DEF PrepType, Others
<1>5. CASE call' \in {Exit(c), Retry(c)} /\ entry' = entry /\ chain' = chain
  <2>1. CallTypes /\ Left({c})
    BY <1>5, LeftFacts
  <2>. QED
    BY <1>1, <1>2, <1>5, <2>1 DEF Left, Others
<1>6. CASE /\ Queue(Op("check", {c}, 0, FALSE)) /\ entry' = entry
           /\ call' = With(c, [call[c] EXCEPT !.at = "check"])
  BY <1>1, <1>2, <1>4, <1>6 DEF Checks, CallTypes
<1>7. CASE /\ call[c].mine /\ entry.phase = "ready"
           /\ entry' = [entry EXCEPT !.phase = "committing"]
           /\ Queue(Op("commit", {c}, 0, FALSE))
           /\ call' = With(c, [call[c] EXCEPT !.at = "commit"])
  <2>1. /\ entry' = [phase |-> "committing", source |-> entry.source]
        /\ entry' \in EntryType
    BY <1>1, <1>7 DEF EntryType, Phases
  <2>. QED
    BY <1>1, <1>2, <1>4, <1>7, <2>1 DEF Commits, CallTypes
<1>8. CASE /\ call[c].mine /\ entry' = entry /\ chain' = chain
           /\ call' = With(c, [call[c] EXCEPT !.at = "blocked"])
  BY <1>1, <1>2, <1>4, <1>8 DEF Waits, CallTypes
<1>9. call[c].mine \in BOOLEAN
  BY <1>1 DEF CallType
<1>10. CASE call[c].kind = "inspect" /\ registered # None
  <2>1. call' = Exit(c) /\ entry' = entry /\ chain' = chain
    BY <1>10 DEF ReadDone
  <2>. QED
    BY <1>5, <2>1
<1>11. CASE call[c].kind = "inspect" /\ registered = None
  <2>1. /\ Queue(Op("check", {c}, 0, FALSE)) /\ entry' = entry
        /\ call' = With(c, [call[c] EXCEPT !.at = "check"])
    BY <1>11 DEF ReadDone
  <2>. QED
    BY <1>6, <2>1
<1>12. CASE call[c].kind # "inspect" /\ ~ call[c].mine
  <2>1. call' = Retry(c) /\ entry' = entry /\ chain' = chain
    BY <1>12 DEF ReadDone
  <2>. QED
    BY <1>5, <2>1
<1>13. CASE call[c].kind # "inspect" /\ call[c].mine /\ entry.phase = "ready"
  BY <1>7, <1>13 DEF ReadDone
<1>14. CASE call[c].kind # "inspect" /\ call[c].mine /\ entry.phase # "ready"
  BY <1>8, <1>14 DEF ReadDone
<1>. QED
  BY <1>9, <1>10, <1>11, <1>12, <1>13, <1>14

\* load() of a live Session returns after its flush.
LEMMA FlushReturnsFacts ==
  ASSUME PrepType, NEW c \in Callers, FlushReturns(c)
  PROVE  /\ CallTypes /\ Left({c}) /\ call[c].at = "flush"
         /\ UNCHANGED <<disk, live, state, chain, running, history>>
BY LeftFacts DEF FlushReturns

\* The shared read answers: the entry is ready, or gone, or was lost before.
LEMMA LoadRunsFacts ==
  ASSUME PrepType, DiskType, OpsInv, LoadRuns
  PROVE  /\ CallTypes /\ chain # <<>> /\ chain[1].kind = "load"
         /\ Dequeued /\ running' = FALSE
         /\ UNCHANGED <<disk, live, state, history>>
         /\ \A d \in Callers : d \in chain[1].for =>
              /\ call'[d].at \in {"loaded", "over"}
              /\ call'[d].mine => entry'.phase = "ready" /\ call[d].mine
         /\ \A d \in Callers : d \notin chain[1].for => Stays(d)
         /\ \/ chain[1].current /\ registered = None /\ entry'.phase = "ready"
            \/ /\ chain[1].current /\ entry'.phase = "none"
               /\ \A d \in Callers : ~ call'[d].mine
            \/ ~ chain[1].current /\ entry' = entry
               /\ \A d \in Callers : d \notin chain[1].for => call'[d] = call[d]
<1>. DEFINE op == Head(chain)
            told == [c \in Callers |->
                       IF c \notin op.for THEN call[c]
                       ELSE IF Readable
                       THEN [Loaded(call[c].kind, Cold(store, torn)) EXCEPT
                               !.mine = call[c].mine]
                       ELSE Over]
<1>1. chain # <<>> /\ op = chain[1] /\ op \in OpType /\ op.kind = "load" /\ 1 \in DOMAIN chain
  BY HeadFacts DEF LoadRuns, Runs
<1>2. Dequeued /\ running' = FALSE
  BY <1>1, DequeueFacts DEF LoadRuns
<1>3. ASSUME NEW c \in Callers
      PROVE  /\ told[c] \in CallType
             /\ c \notin op.for => told[c] = call[c]
             /\ c \in op.for => /\ told[c].at \in {"loaded", "over"}
                                /\ told[c].mine => call[c].mine /\ op.current
                                /\ ~ Readable => told[c].at = "over"
  <2>1. call[c] \in CallType /\ call[c].kind \in Names /\ call[c].mine \in BOOLEAN
    BY DEF PrepType, CallType
  <2>2. Cold(store, torn) \in SourceType
    BY DEF Cold, SourceType, DiskType
  <2>3. /\ Loaded(call[c].kind, Cold(store, torn)) \in CallType
        /\ Loaded(call[c].kind, Cold(store, torn)).at = "loaded"
    BY <2>1, <2>2, CallRecords
  <2>4. Over \in CallType /\ Over.at = "over" /\ ~ Over.mine
    <3>1. Over \in CallType
      BY CallRecords
    <3>. QED
      BY <3>1 DEF Over, Idle, CallType, Points
  <2>. DEFINE l == Loaded(call[c].kind, Cold(store, torn))
  <2>. HIDE DEF l
  <2>5. /\ [l EXCEPT !.mine = call[c].mine] \in CallType
        /\ [l EXCEPT !.mine = call[c].mine].at = "loaded"
        /\ [l EXCEPT !.mine = call[c].mine].mine = call[c].mine
    BY <2>1, <2>3 DEF l, CallType
  <2>6. c \in op.for => (call[c].mine => op.current)
    BY <1>1 DEF OpsInv
  <2>. QED
    BY <2>1, <2>4, <2>5, <2>6 DEF l
<1>4. told \in [Callers -> CallType]
  BY <1>3
<1>5. UNCHANGED <<disk, live, state, history>>
  BY DEF LoadRuns
<1>6. op.current \in BOOLEAN
  BY <1>1 DEF OpType
<1>7. CASE op.current /\ Readable
  <2>1. call' = Waked(told) /\ entry' = [phase |-> "ready", source |-> Cold(store, torn)]
    BY <1>7 DEF LoadRuns, MakeReady, Waked
  <2>. HIDE DEF told, op
  <2>2. /\ call' \in [Callers -> CallType]
        /\ \A d \in Callers :
             /\ call'[d].mine = told[d].mine
             /\ call'[d].at = IF told[d].at = "blocked" THEN "loaded" ELSE told[d].at
             /\ call'[d].source = told[d].source
    BY <1>4, <2>1, WakedFields
  <2>3. entry' \in EntryType /\ entry'.phase = "ready"
    BY <2>1 DEF EntryType, Phases, Cold, SourceType, DiskType
  <2>4. registered = None
    BY <1>7 DEF Readable
  <2>. QED
    BY <1>1, <1>2, <1>3, <1>5, <1>7, <2>2, <2>3, <2>4 DEF CallTypes, Stays
<1>8. CASE op.current /\ ~ Readable
  <2>1. call' = Orphan(told) /\ entry' = NoEntry
    BY <1>8 DEF LoadRuns, RemoveEntry
  <2>. HIDE DEF told, op
  <2>2. /\ call' \in [Callers -> CallType]
        /\ \A d \in Callers :
             /\ ~ call'[d].mine
             /\ call'[d].at = IF told[d].at = "blocked" THEN "loaded" ELSE told[d].at
             /\ call'[d].source = told[d].source
    BY <1>4, <2>1, OrphanFields
  <2>3. entry' \in EntryType /\ entry'.phase = "none"
    BY <2>1, CallRecords DEF NoEntry
  <2>. QED
    BY <1>1, <1>2, <1>3, <1>5, <1>8, <2>2, <2>3 DEF CallTypes, Stays
<1>9. CASE ~ op.current
  <2>1. call' = told /\ entry' = entry
    BY <1>9 DEF LoadRuns
  <2>. HIDE DEF told, op
  <2>2. entry' \in EntryType
    BY <2>1 DEF PrepType
  <2>. QED
    BY <1>1, <1>2, <1>3, <1>4, <1>5, <1>9, <2>1, <2>2 DEF CallTypes, Stays
<1>. QED
  BY <1>6, <1>7, <1>8, <1>9

\* A sequence of one element.
LEMMA SingletonSeq ==
  ASSUME NEW S, NEW x \in S
  PROVE  <<x>> \in Seq(S) /\ Len(<<x>>) = 1 /\ <<x>>[1] = x
OBVIOUS

\* A repaired log is a log.
LEMMA ClosersType ==
  ASSUME NEW log \in Seq(EventType)
  PROVE  Closers(log) \in Seq(EventType) /\ log \o Closers(log) \in Seq(EventType)
<1>1. Event("closer", FALSE) \in EventType
  BY DEF Event, EventType
<1>2. Closers(log) \in Seq(EventType)
  <2>. DEFINE e == Event("closer", FALSE)
  <2>. HIDE DEF e
  <2>1. <<e>> \in Seq(EventType)
    BY <1>1, SingletonSeq DEF e
  <2>2. <<>> \in Seq(EventType)
    BY EmptySeq
  <2>. QED
    BY <2>1, <2>2 DEF Closers, e
<1>. QED
  BY <1>2, ConcatValue

\* The commit of the reserved source: the call leaves with it or holds it.
Holds(c) ==
  /\ entry' = [phase |-> "reserved", source |-> entry.source]
  /\ call'[c].at = "held" /\ call'[c].mine /\ call'[c].source = entry.source
  /\ Others(c)

\* reserve() and its caller after a commit that succeeded.
LEMMA ReservedFacts ==
  ASSUME PrepType, NEW c \in Callers, call[c].mine, Reserved(c)
  PROVE  CallTypes /\ (Removed({c}) \/ Holds(c) \/ Readied(entry.source, {c}))
<1>1. call[c] \in CallType /\ entry \in EntryType /\ entry.source \in SourceType
  BY DEF PrepType, EntryType
<1>2. CASE RemoveEntry(Exit(c))
  BY <1>2, RemovedFacts
<1>3. CASE MakeReady(entry.source, Exit(c))
  BY <1>1, <1>3, ReadiedFacts
<1>4. CASE /\ entry' = [entry EXCEPT !.phase = "reserved"]
           /\ call' = With(c, [call[c] EXCEPT !.at = "held", !.source = entry.source])
  <2>. DEFINE next == [call[c] EXCEPT !.at = "held", !.source = entry.source]
  <2>1. next \in CallType /\ next.at = "held" /\ next.mine /\ next.source = entry.source
    BY <1>1 DEF CallType, Points
  <2>2. call' = With(c, next)
    BY <1>4
  <2>. HIDE DEF next
  <2>3. /\ call' \in [Callers -> CallType] /\ call'[c] = next
        /\ \A d \in Callers : d # c => call'[d] = call[d]
    BY <2>1, <2>2, WithFields DEF PrepType
  <2>4. /\ entry' = [phase |-> "reserved", source |-> entry.source]
        /\ entry' \in EntryType
    BY <1>1, <1>4 DEF EntryType, Phases
  <2>. QED
    BY <2>1, <2>3, <2>4 DEF Holds, Others, CallTypes
<1>. QED
  BY <1>2, <1>3, <1>4 DEF Reserved

\* commitPrepared(): given up, waiting for its repair, or done.
GivesUp(c) ==
  /\ Dequeued /\ running' = FALSE /\ state' = state
  /\ call[c].mine => Removed({c})
  /\ ~ call[c].mine => Left({c})
Repairs(c) ==
  /\ call[c].mine /\ entry.source = Cold(store, torn) /\ state.owner = None
  /\ torn \/ Closers(store) # <<>>
  /\ running' = TRUE /\ call' = call /\ entry' = entry /\ chain' = chain /\ state' = state
Succeeds(c) ==
  /\ call[c].mine /\ entry.source = Cold(store, torn) /\ state.owner = None
  /\ ~ torn /\ Closers(store) = <<>>
  /\ Dequeued /\ running' = FALSE /\ state' = ColdState
  /\ Removed({c}) \/ Holds(c) \/ Readied(entry.source, {c})

\* commitPrepared() up to its repair.
LEMMA CommitRunsFacts ==
  ASSUME PrepType, OpsInv, DiskType, CommitRuns
  PROVE  /\ chain # <<>> /\ chain[1].kind = "commit" /\ ~ running
         /\ Caller \in Callers /\ chain[1].for = {Caller} /\ call[Caller].at = "commit"
         /\ CallTypes /\ state' \in StateType
         /\ GivesUp(Caller) \/ Repairs(Caller) \/ Succeeds(Caller)
         /\ UNCHANGED <<disk, live, external, intruded>>
<1>. DEFINE c == Caller
<1>1. /\ chain # <<>> /\ chain[1].kind = "commit" /\ ~ running
      /\ c \in Callers /\ chain[1].for = {c} /\ call[c].at = "commit"
      /\ Head(chain) = chain[1]
  BY HeadFacts DEF CommitRuns, Runs, CallKinds
<1>2. UNCHANGED <<disk, live, external, intruded>>
  BY DEF CommitRuns
<1>3. call[c].mine \in BOOLEAN /\ state \in StateType
  BY <1>1 DEF PrepType, CallType
<1>. DEFINE current == call[c].mine /\ entry.source = Cold(store, torn)
            balanced == ~ entry.source.torn /\ Closers(entry.source.log) = <<>>
<1>4. CASE state.owner # None \/ ~ current
  <2>1. /\ Drop(c, IF state.owner # None THEN Exit(c) ELSE Retry(c))
        /\ Dequeue /\ state' = state
    BY <1>4 DEF CommitRuns
  <2>. HIDE DEF c
  <2>2. /\ CallTypes
        /\ call[c].mine => Removed({c})
        /\ ~ call[c].mine => Left({c})
    <3>. DEFINE calls == IF state.owner # None THEN Exit(c) ELSE Retry(c)
    <3>1. calls \in {Exit(c), Retry(c)} /\ Drop(c, calls)
      BY <2>1
    <3>. HIDE DEF calls
    <3>. QED
      BY <1>1, <3>1, DropFacts
  <2>3. Dequeued /\ running' = FALSE
    BY <1>1, <2>1, DequeueFacts
  <2>4. GivesUp(c)
    BY <2>1, <2>2, <2>3 DEF GivesUp
  <2>. QED
    BY <1>1, <1>2, <1>3, <2>1, <2>2, <2>4 DEF c
<1>5. CASE state.owner = None /\ current /\ ~ balanced
  <2>1. running' = TRUE /\ call' = call /\ entry' = entry /\ chain' = chain /\ state' = state
    BY <1>5 DEF CommitRuns
  <2>2. torn \/ Closers(store) # <<>>
    BY <1>5 DEF Cold
  <2>3. Repairs(c)
    BY <1>5, <2>1, <2>2 DEF Repairs
  <2>4. CallTypes
    BY <2>1 DEF CallTypes, PrepType
  <2>. QED
    BY <1>1, <1>2, <1>3, <2>1, <2>3, <2>4
<1>6. CASE state.owner = None /\ current /\ balanced
  <2>1. state' = ColdState /\ Reserved(c) /\ Dequeue
    BY <1>6 DEF CommitRuns
  <2>2. ~ torn /\ Closers(store) = <<>>
    BY <1>6 DEF Cold, DiskType
  <2>3. CallTypes /\ (Removed({c}) \/ Holds(c) \/ Readied(entry.source, {c}))
    BY <1>1, <1>6, <2>1, ReservedFacts
  <2>4. Dequeued /\ running' = FALSE
    BY <1>1, <2>1, DequeueFacts
  <2>5. state' \in StateType
    BY <2>1 DEF ColdState, Tracked, StateType, DiskType
  <2>6. Succeeds(c)
    BY <1>6, <2>1, <2>2, <2>3, <2>4 DEF Succeeds
  <2>. QED
    BY <1>1, <1>2, <2>3, <2>5, <2>6
<1>. QED
  BY <1>4, <1>5, <1>6

\* The repair answers: the entry is gone, whatever was repaired.
LEMMA RepairSettlesFacts ==
  ASSUME PrepType, OpsInv, DiskType, RepairSettles
  PROVE  /\ chain # <<>> /\ chain[1].kind = "commit" /\ running
         /\ Caller \in Callers /\ chain[1].for = {Caller} /\ call[Caller].at = "commit"
         /\ CallTypes /\ Removed({Caller}) /\ Dequeued /\ running' = FALSE
         /\ \/ store' = store \o Closers(entry.source.log) /\ ~ torn'
            \/ store' = store /\ torn' \in {torn, FALSE}
         /\ UNCHANGED <<live, state, external, intruded>>
<1>1. /\ chain # <<>> /\ chain[1].kind = "commit" /\ running
      /\ Caller \in Callers /\ chain[1].for = {Caller} /\ call[Caller].at = "commit"
  BY HeadFacts DEF RepairSettles, Runs, CallKinds
<1>2. CallTypes /\ Removed({Caller})
  <2>1. RemoveEntry(Exit(Caller)) \/ RemoveEntry(Retry(Caller))
    BY DEF RepairSettles
  <2>. QED
    BY <1>1, <2>1, RemovedFacts
<1>3. Dequeued /\ running' = FALSE
  BY <1>1, DequeueFacts DEF RepairSettles
<1>. QED
  BY <1>1, <1>2, <1>3 DEF RepairSettles

\* The check of inspect() answers; a stale source of its own is removed.
LEMMA CheckRunsFacts ==
  ASSUME PrepType, OpsInv, CheckRuns
  PROVE  /\ chain # <<>> /\ chain[1].kind = "check"
         /\ Caller \in Callers /\ chain[1].for = {Caller} /\ call[Caller].at = "check"
         /\ CallTypes /\ Dequeued /\ running' = FALSE
         /\ Left({Caller}) \/ (call[Caller].mine /\ Writable /\ Removed({Caller}))
         /\ UNCHANGED <<disk, live, state, history>>
<1>1. /\ chain # <<>> /\ chain[1].kind = "check"
      /\ Caller \in Callers /\ chain[1].for = {Caller} /\ call[Caller].at = "check"
  BY HeadFacts DEF CheckRuns, Runs, CallKinds
<1>2. Dequeued /\ running' = FALSE
  BY <1>1, DequeueFacts DEF CheckRuns
<1>3. UNCHANGED <<disk, live, state, history>>
  BY DEF CheckRuns
<1>4. call[Caller].mine \in BOOLEAN
  BY <1>1 DEF PrepType, CallType
<1>5. CASE \/ call[Caller].source = Cold(store, torn) \/ registered # None
           \/ (call[Caller].mine /\ ~ Writable)
  <2>1. call' = Exit(Caller) /\ entry' = entry
    BY <1>5 DEF CheckRuns
  <2>2. CallTypes /\ Left({Caller})
    BY <1>1, <2>1, LeftFacts
  <2>. QED
    BY <1>1, <1>2, <1>3, <2>2
<1>6. CASE ~ (\/ call[Caller].source = Cold(store, torn) \/ registered # None
              \/ (call[Caller].mine /\ ~ Writable))
  <2>1. Drop(Caller, Retry(Caller))
    BY <1>6 DEF CheckRuns
  <2>2. /\ CallTypes
        /\ call[Caller].mine => Removed({Caller})
        /\ ~ call[Caller].mine => Left({Caller})
    BY <1>1, <2>1, DropFacts
  <2>. QED
    BY <1>1, <1>2, <1>3, <1>4, <1>6, <2>2
<1>. QED
  BY <1>5, <1>6

\* Setup of a held Session.
LEMMA ExtendFacts ==
  ASSUME PrepType, NEW c \in Callers, Extend(c)
  PROVE  /\ CallTypes /\ Others(c) /\ call[c].at = "held"
         /\ call'[c].at = "held" /\ call'[c].mine = call[c].mine
         /\ call'[c].source = call[c].source
         /\ entry' = entry /\ UNCHANGED <<disk, live, state, chain, running, history>>
<1>. DEFINE next == [call[c] EXCEPT !.grown = @ + 1]
<1>1. call[c] \in CallType
  BY DEF PrepType
<1>2. /\ next \in CallType /\ next.at = call[c].at /\ next.mine = call[c].mine
      /\ next.source = call[c].source
  BY <1>1 DEF CallType
<1>3. call' = With(c, next) /\ entry' = entry /\ call[c].at = "held"
  BY DEF Extend
<1>. HIDE DEF next
<1>4. /\ call' \in [Callers -> CallType] /\ call'[c] = next
      /\ \A d \in Callers : d # c => call'[d] = call[d]
  BY <1>2, <1>3, WithFields DEF PrepType
<1>. QED
  BY <1>2, <1>3, <1>4 DEF Extend, CallTypes, Others, PrepType

\* The holder gives the preparation up: it is ready again, or gone.
LEMMA ReleaseFacts ==
  ASSUME PrepType, NEW c \in Callers, Release(c), call[c].mine
  PROVE  /\ CallTypes /\ call[c].at = "held"
         /\ Readied(entry.source, {c}) \/ Removed({c})
         /\ UNCHANGED <<disk, live, state, chain, running, history>>
<1>1. MakeReady(entry.source, Exit(c)) \/ Drop(c, Exit(c))
  BY DEF Release
<1>2. entry.source \in SourceType
  BY DEF PrepType, EntryType
<1>3. CallTypes /\ (Readied(entry.source, {c}) \/ Removed({c}))
  BY <1>1, <1>2, ReadiedFacts, DropFacts
<1>. QED
  BY <1>3 DEF Release

\* The public append queues its operation.
LEMMA AppendCalledFacts ==
  ASSUME PrepType, DiskType, NEW c \in Callers, AppendCalled(c)
  PROVE  /\ CallTypes /\ Others(c) /\ call[c].at = "idle"
         /\ call'[c].at = "append" /\ ~ call'[c].mine
         /\ Op("append", {c}, Len(store), FALSE) \in OpType
         /\ Queue(Op("append", {c}, Len(store), FALSE))
         /\ entry' = entry /\ UNCHANGED <<disk, live, state, running, history>>
<1>. DEFINE next == [Idle EXCEPT !.at = "append", !.kind = "append"]
<1>1. Idle \in CallType
  BY CallRecords
<1>2. next \in CallType /\ next.at = "append" /\ ~ next.mine
  BY <1>1 DEF Idle, CallType, Points, Names
<1>3. call' = With(c, next) /\ entry' = entry /\ call[c].at = "idle"
  BY DEF AppendCalled
<1>. HIDE DEF next
<1>4. /\ call' \in [Callers -> CallType] /\ call'[c] = next
      /\ \A d \in Callers : d # c => call'[d] = call[d]
  BY <1>2, <1>3, WithFields DEF PrepType
<1>5. Op("append", {c}, Len(store), FALSE) \in OpType
  <2>1. Len(store) \in Nat
    BY DEF DiskType
  <2>. QED
    BY <2>1 DEF Op, OpType, CallKinds
<1>. QED
  BY <1>2, <1>3, <1>4, <1>5 DEF AppendCalled, CallTypes, Others, PrepType

\* What a Session that is published starts with, and the one created here.
LEMMA PublishedLog ==
  ASSUME NEW log \in Seq(EventType), NEW s \in Sessions, NEW n \in Nat
  PROVE  LET whole == log \o [i \in 1 .. n + 1 |-> Event(s, FALSE)] IN
           /\ whole \in Seq(EventType) /\ Len(log) \in Nat
           /\ Len(whole) = Len(log) + n + 1
           /\ \A i \in 1 .. Len(log) : whole[i] = log[i]
           /\ \A i \in Len(log) + 1 .. Len(whole) : whole[i].by # "closer"
<1>. DEFINE marks == [i \in 1 .. n + 1 |-> Event(s, FALSE)]
<1>1. Event(s, FALSE) \in EventType /\ Event(s, FALSE).by # "closer"
  BY WritersAssumption DEF Event, EventType
<1>2. marks \in Seq(EventType) /\ Len(marks) = n + 1 /\ DOMAIN marks = 1 .. n + 1
  <2>. DEFINE e == Event(s, FALSE)
              m == n + 1
  <2>. HIDE DEF e
  <2>1. m \in Nat
    OBVIOUS
  <2>. HIDE DEF m
  <2>2. [i \in 1 .. m |-> e] \in Seq(EventType) /\ Len([i \in 1 .. m |-> e]) = m
    <3>1. \A i \in 1 .. m : e \in EventType
      BY <1>1 DEF e
    <3>2. [i \in 1 .. m |-> e] \in Seq(EventType)
      BY <2>1, <3>1, IsASeq
    <3>. QED
      BY <2>1, <3>2
  <2>. QED
    BY <2>1, <2>2 DEF e, m
<1>3. \A i \in 1 .. n + 1 : marks[i].by # "closer"
  BY <1>1
<1>. HIDE DEF marks
<1>4. /\ log \o marks \in Seq(EventType) /\ Len(log) \in Nat
      /\ Len(log \o marks) = Len(log) + (n + 1)
      /\ \A i \in 1 .. Len(log) : (log \o marks)[i] = log[i]
      /\ \A i \in Len(log) + 1 .. Len(log) + Len(marks) :
           (log \o marks)[i] = marks[i - Len(log)]
  <2>1. Len(marks) = n + 1
    BY <1>2
  <2>2. marks \in Seq(EventType)
    BY <1>2
  <2>3. /\ log \o marks \in Seq(EventType) /\ Len(log) \in Nat
        /\ Len(log \o marks) = Len(log) + Len(marks)
        /\ \A i \in 1 .. Len(log) : (log \o marks)[i] = log[i]
        /\ \A i \in Len(log) + 1 .. Len(log) + Len(marks) :
             (log \o marks)[i] = marks[i - Len(log)]
    BY <2>2, ConcatValue
  <2>. QED
    BY <2>1, <2>3
<1>5. ASSUME NEW i \in Len(log) + 1 .. Len(log \o marks)
      PROVE  (log \o marks)[i].by # "closer"
  <2>1. i - Len(log) \in 1 .. n + 1
    BY <1>4
  <2>2. i \in Len(log) + 1 .. Len(log) + Len(marks)
    BY <1>2, <1>4
  <2>. QED
    BY <1>3, <1>4, <2>1, <2>2
<1>6. Len(log \o marks) = Len(log) + n + 1
  BY <1>4
<1>. QED
  BY <1>4, <1>5, <1>6 DEF marks

\* Session s of the log "log" becomes the live one.
Registers(s, log) ==
  /\ registered = None /\ init[s] = "unused"
  /\ registered' = s
  /\ events' = [events EXCEPT ![s] = log]
  /\ saved' = [saved EXCEPT ![s] = Len(log)]
  /\ init' = [init EXCEPT ![s] = "pending"]
  /\ writing' = writing /\ retiring' = retiring /\ retirement' = retirement

\* The holder publishes its Session.
LEMMA PublishFacts ==
  ASSUME PrepType, NEW c \in Callers, NEW s \in Sessions, Publish(c, s), call[c].mine
  PROVE  /\ CallTypes /\ Removed({c}) /\ call[c].at = "held"
         /\ state' = [state EXCEPT !.owner = s]
         /\ Op("suffix", {s}, state.cursor, FALSE) \in OpType
         /\ Queue(Op("suffix", {s}, state.cursor, FALSE))
         /\ UNCHANGED <<disk, running, history>>
         /\ \E log \in Seq(EventType) :
              /\ Registers(s, log)
              /\ Len(log) > Len(call[c].source.log)
              /\ \A i \in 1 .. Len(call[c].source.log) : log[i] = call[c].source.log[i]
              /\ \A i \in Len(call[c].source.log) + 1 .. Len(log) : log[i].by # "closer"
<1>1. /\ call[c].source.log \in Seq(EventType) /\ call[c].grown \in Nat
      /\ state.cursor \in Nat
  BY DEF PrepType, CallType, SourceType, StateType
<1>. DEFINE log == call[c].source.log \o [i \in 1..call[c].grown + 1 |-> Event(s, FALSE)]
<1>2. /\ Register(s, log) /\ RemoveEntry(Exit(c))
      /\ Queue(Op("suffix", {s}, state.cursor, FALSE))
      /\ state' = [state EXCEPT !.owner = s]
      /\ call[c].at = "held" /\ UNCHANGED <<disk, running, history>>
  BY DEF Publish
<1>3. /\ log \in Seq(EventType) /\ Len(call[c].source.log) \in Nat
      /\ Len(log) = Len(call[c].source.log) + call[c].grown + 1
      /\ \A i \in 1 .. Len(call[c].source.log) : log[i] = call[c].source.log[i]
      /\ \A i \in Len(call[c].source.log) + 1 .. Len(log) : log[i].by # "closer"
  BY <1>1, PublishedLog
<1>. HIDE DEF log
<1>4. Registers(s, log)
  BY <1>2 DEF Register, Registers
<1>5. CallTypes /\ Removed({c})
  BY <1>2, RemovedFacts
<1>6. Op("suffix", {s}, state.cursor, FALSE) \in OpType
  BY <1>1 DEF Op, OpType, SessionKinds, RegKinds
<1>7. Len(log) > Len(call[c].source.log)
  BY <1>1, <1>3
<1>. QED
  BY <1>2, <1>3, <1>4, <1>5, <1>6, <1>7

\* A Session is created here: the closers of its seed are stored ones.
LEMMA CreateFacts ==
  ASSUME PrepType, DiskType, NEW s \in Sessions, Create(s)
  PROVE  /\ entry.phase = "none" /\ entry' = entry /\ call' = call
         /\ UNCHANGED <<disk, state, running, history>>
         /\ \E log \in Seq(EventType) :
              /\ Registers(s, log)
              /\ Op("init", {s}, Len(log), FALSE) \in OpType
              /\ Queue(Op("init", {s}, Len(log), FALSE))
              /\ \A i \in 1 .. Len(log) : log[i].by = "closer" => i <= Len(store)
<1>1. PICK seed \in {<<>>, store} :
        LET log == IF seed = <<>> THEN <<>> ELSE Append(seed, Event(s, FALSE)) IN
          /\ Register(s, log)
          /\ Queue(Op("init", {s}, Len(log), FALSE))
  BY DEF Create
<1>. DEFINE log == IF seed = <<>> THEN <<>> ELSE Append(seed, Event(s, FALSE))
<1>2. /\ log \in Seq(EventType) /\ Len(log) \in Nat
      /\ \A i \in 1 .. Len(log) : log[i].by = "closer" => i <= Len(store)
  <2>1. CASE seed = <<>>
    BY <2>1, EmptySeq
  <2>2. CASE seed # <<>>
    <3>. DEFINE e == Event(s, FALSE)
    <3>1. e \in EventType /\ e.by # "closer" /\ store \in Seq(EventType)
      BY WritersAssumption DEF Event, EventType, DiskType
    <3>2. seed = store /\ log = Append(store, e)
      BY <2>2
    <3>. HIDE DEF log, e
    <3>3. /\ log \in Seq(EventType) /\ Len(store) \in Nat /\ Len(log) = Len(store) + 1
          /\ log[Len(store) + 1] = e
      BY <3>1, <3>2, AppendValue
    <3>. QED
      BY <3>1, <3>3
  <2>. QED
    BY <2>1, <2>2
<1>3. Register(s, log) /\ Queue(Op("init", {s}, Len(log), FALSE))
  BY <1>1
<1>. HIDE DEF log
<1>4. Registers(s, log)
  BY <1>3 DEF Register, Registers
<1>5. Op("init", {s}, Len(log), FALSE) \in OpType
  BY <1>2 DEF Op, OpType, SessionKinds, RegKinds
<1>. QED
  BY <1>2, <1>3, <1>4, <1>5 DEF Create

\* The public append, before its write.
Adopts ==
  /\ Writable /\ ~ state.tracked /\ (registered = None \/ entry.phase = "ready")
  /\ store' = store \o Closers(store) /\ ~ torn'
  /\ state' = Tracked(Len(store \o Closers(store)), TRUE, None)
HalfAdopts ==
  /\ Writable /\ ~ state.tracked
  /\ store' = store /\ torn' \in {torn, FALSE} /\ state' = state
Untouched == store' = store /\ torn' = torn /\ state' = state

\* appendCore() up to its write.
LEMMA AppendStartsFacts ==
  ASSUME PrepType, DiskType, OpsInv, AppendStarts
  PROVE  /\ chain # <<>> /\ chain[1].kind = "append" /\ ~ running
         /\ Caller \in Callers /\ chain[1].for = {Caller} /\ call[Caller].at = "append"
         /\ Adopts \/ HalfAdopts \/ Untouched
         /\ state' \in StateType /\ CallTypes
         /\ \/ /\ Writable /\ state'.tracked
               /\ running' = TRUE /\ chain' = chain
               /\ (entry' = entry /\ call' = call) \/ (entry.phase = "ready" /\ Removed({}))
            \/ /\ running' = FALSE /\ Dequeued
               /\ Left({Caller}) \/ (entry.phase = "ready" /\ Removed({Caller}))
         /\ intruded' = (intruded \/ (store' # store /\ Claimed))
         /\ UNCHANGED <<live, external>>
<1>. DEFINE c == Caller
            adopts == Writable /\ ~ state.tracked
            taken == adopts /\ entry.phase = "ready"
            exists == Readable \/ (taken /\ entry.source = Cold(store, torn))
            goes == Writable /\ state'.tracked /\ Head(chain).n = state'.cursor
            calls == IF goes THEN call ELSE Exit(c)
<1>1. /\ chain # <<>> /\ chain[1].kind = "append" /\ ~ running
      /\ c \in Callers /\ chain[1].for = {c} /\ call[c].at = "append"
  BY HeadFacts DEF AppendStarts, Runs, CallKinds
<1>2. /\ \/ /\ adopts /\ exists
            /\ store' = store \o Closers(store)
            /\ torn' = FALSE
            /\ state' = IF adopts THEN Tracked(Len(store \o Closers(store)), TRUE, None)
                        ELSE state
         \/ /\ adopts /\ exists
            /\ torn' \in {torn, FALSE}
            /\ store' = store /\ state' = state
         \/ /\ ~ (adopts /\ exists)
            /\ store' = store /\ torn' = torn /\ state' = state
      /\ IF taken THEN RemoveEntry(calls) ELSE call' = calls /\ entry' = entry
      /\ IF goes THEN running' = TRUE /\ chain' = chain ELSE Dequeue
      /\ intruded' = (intruded \/ (store' # store /\ Claimed))
      /\ UNCHANGED <<live, external>>
  BY DEF AppendStarts, disk
<1>3. Adopts \/ HalfAdopts \/ Untouched
  BY <1>2 DEF Adopts, HalfAdopts, Untouched, Readable
<1>4. state' \in StateType
  <2>1. Tracked(Len(store \o Closers(store)), TRUE, None) \in StateType
    <3>1. store \o Closers(store) \in Seq(EventType)
      BY ClosersType DEF DiskType
    <3>. DEFINE log == store \o Closers(store)
    <3>. HIDE DEF log
    <3>2. Len(log) \in Nat
      BY <3>1 DEF log
    <3>. QED
      BY <3>2 DEF Tracked, StateType, log
  <2>. QED
    BY <1>3, <2>1 DEF Adopts, HalfAdopts, Untouched, PrepType
<1>. HIDE DEF c
<1>5. CASE goes
  <2>1. calls = call
    BY <1>5
  <2>2. running' = TRUE /\ chain' = chain /\ Writable /\ state'.tracked
    BY <1>2, <1>5
  <2>3. CASE taken
    <3>1. RemoveEntry(call) /\ entry.phase = "ready"
      BY <1>2, <2>1, <2>3
    <3>2. Removed({}) /\ CallTypes
      BY <3>1, RemovedFacts
    <3>. QED
      BY <1>1, <1>2, <1>3, <1>4, <2>2, <3>1, <3>2 DEF c
  <2>4. CASE ~ taken
    <3>1. call' = call /\ entry' = entry
      BY <1>2, <2>1, <2>4
    <3>2. CallTypes
      BY <3>1 DEF CallTypes, PrepType
    <3>. QED
      BY <1>1, <1>2, <1>3, <1>4, <2>2, <3>1, <3>2 DEF c
  <2>. QED
    BY <2>3, <2>4
<1>6. CASE ~ goes
  <2>1. calls = Exit(c)
    BY <1>6
  <2>2. running' = FALSE /\ Dequeued
    BY <1>1, <1>2, <1>6, DequeueFacts
  <2>3. CASE taken
    <3>1. RemoveEntry(Exit(c)) /\ entry.phase = "ready"
      BY <1>2, <2>1, <2>3
    <3>2. Removed({c}) /\ CallTypes
      BY <1>1, <3>1, RemovedFacts
    <3>. QED
      BY <1>1, <1>2, <1>3, <1>4, <2>2, <3>1, <3>2 DEF c
  <2>4. CASE ~ taken
    <3>1. call' = Exit(c) /\ entry' = entry
      BY <1>2, <2>1, <2>4
    <3>2. CallTypes /\ Left({c})
      BY <1>1, <3>1, LeftFacts
    <3>. QED
      BY <1>1, <1>2, <1>3, <1>4, <2>2, <3>2 DEF c
  <2>. QED
    BY <2>3, <2>4
<1>. QED
  BY <1>5, <1>6

\* The public append is stored, or fails.
LEMMA AppendSettlesFacts ==
  ASSUME PrepType, DiskType, OpsInv, AppendSettles
  PROVE  /\ chain # <<>> /\ chain[1].kind = "append" /\ running
         /\ Caller \in Callers /\ chain[1].for = {Caller} /\ call[Caller].at = "append"
         /\ state' \in StateType /\ CallTypes /\ running' = FALSE
         /\ \/ /\ store' = Append(store, Event("api", FALSE))
               /\ state' = Tracked(state.cursor + 1, TRUE, state.owner)
               /\ intruded' = (intruded \/ Claimed)
               /\ Emptied /\ Removed({Caller})
            \/ /\ store' = store /\ state' = state /\ intruded' = intruded
               /\ Dequeued /\ Left({Caller})
         /\ UNCHANGED <<torn, live, external>>
<1>1. /\ chain # <<>> /\ chain[1].kind = "append" /\ running
      /\ Caller \in Callers /\ chain[1].for = {Caller} /\ call[Caller].at = "append"
  BY HeadFacts DEF AppendSettles, Runs, CallKinds
<1>2. UNCHANGED <<torn, live, external>>
  BY DEF AppendSettles
<1>3. CASE /\ store' = Append(store, Event("api", FALSE))
           /\ state' = Tracked(state.cursor + 1, TRUE, state.owner)
           /\ intruded' = (intruded \/ Claimed)
           /\ Invalidate(Exit(Caller))
           /\ running' = FALSE
  <2>1. Emptied /\ RemoveEntry(Exit(Caller))
    BY <1>1, <1>3, DequeueFacts
  <2>2. CallTypes /\ Removed({Caller})
    BY <1>1, <2>1, RemovedFacts
  <2>3. state' \in StateType
    BY <1>3 DEF Tracked, StateType, PrepType
  <2>. QED
    BY <1>1, <1>2, <1>3, <2>1, <2>2, <2>3
<1>4. CASE /\ call' = Exit(Caller) /\ UNCHANGED <<store, state, entry, intruded>>
           /\ Dequeue
  <2>1. CallTypes /\ Left({Caller})
    BY <1>1, <1>4, LeftFacts
  <2>2. Dequeued /\ running' = FALSE
    BY <1>1, <1>4, DequeueFacts
  <2>3. state' \in StateType
    BY <1>4 DEF PrepType
  <2>. QED
    BY <1>1, <1>2, <1>4, <2>1, <2>2, <2>3
<1>. QED
  BY <1>3, <1>4 DEF AppendSettles

\* The LRU drops a ready source.
LEMMA EvictFacts ==
  ASSUME PrepType, Evict
  PROVE  /\ entry.phase = "ready" /\ Removed({}) /\ CallTypes
         /\ UNCHANGED <<disk, live, state, chain, running, external, intruded>>
BY RemovedFacts DEF Evict

\* A cancelled call.
Leaves(c) == call[c].at \in {"begin", "retirement", "blocked"} /\ Left({c}) /\ chain' = chain
StopsReading(c) ==
  /\ call[c].at = "loading" /\ Left({c})
  /\ Len(chain') = Len(chain)
  /\ \A i \in DOMAIN chain :
       chain'[i] = [chain[i] EXCEPT !.for = chain[i].for \ {c}] /\ chain'[i] \in OpType
Withdraws(c) ==
  /\ call[c].at \in {"commit", "check"}
  /\ ~ (running /\ Head(chain).for = {c})
  /\ \E k \in DOMAIN chain : /\ chain[k].kind \in {"commit", "check"} /\ chain[k].for = {c}
                             /\ chain' = RemoveAt(chain, k)
  /\ Left({c}) \/ (call[c].at = "commit" /\ call[c].mine /\ Removed({c}))

\* A cancelled call leaves what it waits for.
LEMMA AbortFacts ==
  ASSUME PrepType, NEW c \in Callers, Abort(c)
  PROVE  /\ CallTypes /\ chain' \in Seq(OpType)
         /\ Leaves(c) \/ StopsReading(c) \/ Withdraws(c)
         /\ UNCHANGED <<disk, live, state, running, external, intruded>>
<1>1. UNCHANGED <<disk, live, state, running, external, intruded>>
  BY DEF Abort
<1>2. CASE /\ call[c].at \in {"begin", "retirement", "blocked"}
           /\ call' = Exit(c) /\ entry' = entry /\ chain' = chain
  <2>1. CallTypes /\ Left({c})
    BY <1>2, LeftFacts
  <2>. QED
    BY <1>1, <1>2, <2>1 DEF Leaves, PrepType
<1>3. CASE /\ call[c].at = "loading"
           /\ call' = Exit(c) /\ entry' = entry
           /\ chain' = [i \in DOMAIN chain |-> [chain[i] EXCEPT !.for = @ \ {c}]]
  <2>1. CallTypes /\ Left({c})
    BY <1>3, LeftFacts
  <2>2. chain \in Seq(OpType) /\ DOMAIN chain = 1 .. Len(chain) /\ Len(chain) \in Nat
    BY DEF PrepType
  <2>3. \A i \in DOMAIN chain : chain'[i] = [chain[i] EXCEPT !.for = chain[i].for \ {c}]
    BY <1>3
  <2>4. \A i \in DOMAIN chain : chain'[i] \in OpType
    <3>1. \A i \in DOMAIN chain : chain[i] \in OpType
      BY <2>2
    <3>2. ASSUME NEW i \in DOMAIN chain PROVE chain'[i] \in OpType
      <4>1. chain[i] \in OpType /\ chain'[i] = [chain[i] EXCEPT !.for = chain[i].for \ {c}]
        BY <2>3, <3>1
      <4>2. chain[i].for \ {c} \in SUBSET (Callers \cup Sessions)
        BY <4>1 DEF OpType
      <4>. DEFINE rest == chain[i].for \ {c}
      <4>. HIDE DEF rest
      <4>. QED
        BY <4>1, <4>2 DEF OpType, rest
    <3>. QED
      BY <3>2
  <2>5. chain' \in [1 .. Len(chain) -> OpType]
    BY <1>3, <2>2, <2>4
  <2>6. chain' \in Seq(OpType) /\ Len(chain') = Len(chain)
    BY <2>2, <2>5
  <2>. QED
    BY <1>1, <1>3, <2>1, <2>3, <2>4, <2>6 DEF StopsReading
<1>4. CASE /\ call[c].at \in {"commit", "check"}
           /\ ~ (running /\ Head(chain).for = {c})
           /\ IF call[c].at = "commit" THEN Drop(c, Exit(c))
              ELSE call' = Exit(c) /\ entry' = entry
           /\ \E i \in DOMAIN chain :
                /\ chain[i].kind \in {"commit", "check"} /\ chain[i].for = {c}
                /\ chain' = RemoveAt(chain, i)
  <2>1. chain' \in Seq(OpType)
    BY <1>4, RemoveAtValue DEF PrepType
  <2>2. /\ CallTypes
        /\ Left({c}) \/ (call[c].at = "commit" /\ call[c].mine /\ Removed({c}))
    <3>1. CASE call[c].at = "commit"
      BY <1>4, <3>1, DropFacts
    <3>2. CASE call[c].at # "commit"
      BY <1>4, <3>2, LeftFacts
    <3>. QED
      BY <3>1, <3>2
  <2>. QED
    BY <1>1, <1>4, <2>1, <2>2 DEF Withdraws
<1>. QED
  BY <1>2, <1>3, <1>4 DEF Abort

-----------------------------------------------------------------------------
(* The storage operations of live Sessions.                                *)

\* A backend step that leaves the preparation alone, or that appended.
Rests  == entry' = entry /\ call' = call /\ Dequeued /\ running' = FALSE
Clears == Removed({}) /\ CallTypes /\ Emptied /\ running' = FALSE

\* onCreated() or a write binds a state and writes nothing.
LEMMA BoundFacts ==
  ASSUME PrepType, NEW found, chain # <<>>, Bound(found)
  PROVE  Rests /\ CallTypes /\ state' = found /\ store' = store
<1>1. Dequeued /\ running' = FALSE
  BY DequeueFacts DEF Bound
<1>. QED
  BY <1>1 DEF Bound, Rests, CallTypes, PrepType

\* A batch is stored: the preparation of the old log is gone.
LEMMA StoredFacts ==
  ASSUME PrepType, NEW batch, NEW cursor, NEW owner, chain # <<>>,
         Stored(batch, cursor, owner)
  PROVE  /\ Clears /\ store' = store \o batch
         /\ state' = Tracked(cursor, TRUE, owner)
<1>1. Emptied /\ RemoveEntry(call)
  BY DequeueFacts DEF Stored
<1>2. Removed({}) /\ CallTypes
  BY <1>1, RemovedFacts
<1>. QED
  BY <1>1, <1>2 DEF Stored, Clears

\* The first m events of the log and of Session s are the same.
Agree(s, m) == \A i \in 1 .. m : store[i] = events[s][i]

\* An owner that never wrote and has nothing to write loses its claim.
Abandons == state.owner # None /\ ~ state.materialized /\ ~ HasWork(state.owner)

\* Session s with n events may take a log of "cursor" events.
Takes(s, n, cursor) ==
  /\ cursor \in Nat /\ cursor <= Len(store) /\ cursor <= n /\ Agree(s, cursor)
  /\ state.owner = None \/ Abandons
  /\ \/ state.owner = None /\ state.tracked /\ cursor = state.cursor
     \/ cursor = Len(store)
  /\ intruded' = (intruded \/ (external /\ cursor # Len(store)))

\* The initialization of Session s is refused, claims the log, or writes to it.
InitRefused(s) ==
  /\ Rests /\ store' = store
  /\ state' = state \/ (Abandons /\ state' = Untracked)
  /\ init' = [init EXCEPT ![s] = "failed"]
  /\ intruded => intruded'
InitClaims(s, n) ==
  /\ Rests /\ store' = store
  /\ \E result \in {"ok", "failed"} :
       /\ init' = [init EXCEPT ![s] = result]
       /\ result = "ok" => n <= state'.cursor
  /\ state'.tracked /\ state'.owner = s
  /\ Takes(s, n, state'.cursor)
InitWrites(s, n) ==
  /\ Clears
  /\ init' = [init EXCEPT ![s] = "ok"]
  /\ \E cursor \in Nat :
       /\ Takes(s, n, cursor) /\ cursor < n
       /\ store' = store \o SubSeq(events[s], cursor + 1, n)
  /\ state' = Tracked(n, TRUE, s)

\* What onCreated() may find.
LEMMA ClaimFacts ==
  ASSUME Types, CursorInv, NEW s \in Sessions, NEW n \in Nat, n <= Len(events[s])
  PROVE  LET claim == Claim(s, n) IN
         /\ claim.before = IF Abandons THEN Untracked ELSE state
         /\ claim.before \in StateType
         /\ claim.state \in StateType
         /\ claim.ok =>
              /\ claim.state.tracked /\ claim.state.owner = s
              /\ claim.state.cursor <= Len(store) /\ claim.state.cursor <= n
              /\ Agree(s, claim.state.cursor)
              /\ state.owner = None \/ Abandons
              /\ \/ state.owner = None /\ state.tracked /\ claim.state.cursor = state.cursor
                 \/ claim.state.cursor = Len(store)
<1>. DEFINE before == IF Abandons THEN Untracked ELSE state
            covers(m) == IsPrefix(SubSeq(store, 1, m), Prefix(s, n))
<1>1. /\ store \in Seq(EventType) /\ Len(store) \in Nat /\ events[s] \in Seq(EventType)
      /\ Len(events[s]) \in Nat /\ state \in StateType /\ state.cursor \in Nat
      /\ state.cursor <= Len(store) /\ s # None
  BY NoneAssumption DEF Types, DiskType, LiveType, PrepType, StateType, CursorInv
<1>2. before \in StateType /\ before.cursor <= Len(store)
  <2>1. Untracked \in StateType /\ Untracked.cursor = 0
    BY CallRecords DEF Untracked
  <2>. QED
    BY <1>1, <2>1
<1>3. ASSUME NEW m \in Nat, m <= Len(store), covers(m)
      PROVE  m <= n /\ Agree(s, m)
  <2>1. /\ SubSeq(store, 1, m) \in Seq(EventType) /\ Len(SubSeq(store, 1, m)) = m
        /\ \A i \in 1 .. m : SubSeq(store, 1, m)[i] = store[i]
    BY <1>1, <1>3, SubSeqValue
  <2>2. /\ SubSeq(events[s], 1, n) \in Seq(EventType) /\ Len(SubSeq(events[s], 1, n)) = n
        /\ \A i \in 1 .. n : SubSeq(events[s], 1, n)[i] = events[s][i]
    BY <1>1, SubSeqValue
  <2>. DEFINE p == SubSeq(store, 1, m)
              q == SubSeq(events[s], 1, n)
  <2>3. IsPrefix(p, q)
    BY <1>3 DEF Prefix
  <2>. HIDE DEF p, q
  <2>4. p \in Seq(EventType) /\ Len(p) = m /\ \A i \in 1 .. m : p[i] = store[i]
    BY <2>1 DEF p
  <2>5. /\ q \in Seq(EventType) /\ Len(q) = n
        /\ \A i \in 1 .. n : q[i] = events[s][i]
    BY <2>2 DEF q
  <2>6. Len(p) <= Len(q) /\ \A i \in 1 .. Len(p) : p[i] = q[i]
    BY <2>3, <2>4, <2>5, PrefixMeans
  <2>. QED
    BY <2>4, <2>5, <2>6 DEF Agree
<1>. DEFINE claim == Claim(s, n)
<1>4. before.tracked \in BOOLEAN /\ before.cursor \in Nat
      /\ (Abandons => before = Untracked) /\ (~ Abandons => before = state)
  BY <1>2 DEF StateType
<1>5. Untracked.owner = None /\ Untracked.tracked = FALSE
  BY DEF Untracked
<1>6. CASE before.tracked /\ before.owner = None
  <2>1. claim = [ok |-> covers(before.cursor), repair |-> FALSE, before |-> before,
                 state |-> [before EXCEPT !.owner = s]]
    BY <1>6 DEF Claim, Abandons
  <2>. HIDE DEF claim, before, covers
  <2>2. claim.state \in StateType /\ claim.state.cursor = before.cursor
        /\ claim.state.tracked /\ claim.state.owner = s
    BY <1>2, <1>6, <2>1 DEF StateType
  <2>3. state.owner = None /\ state.tracked /\ before = state
    BY <1>4, <1>5, <1>6
  <2>4. claim.before = before /\ claim.ok = covers(before.cursor)
    BY <2>1
  <2>5. claim.ok => before.cursor <= n /\ Agree(s, before.cursor)
    BY <1>2, <1>3, <1>4, <2>4 DEF covers
  <2>. QED
    BY <1>2, <2>2, <2>3, <2>4, <2>5 DEF claim, before
<1>7. CASE before.owner # None
  <2>0. before.tracked
    BY <1>4, <1>5, <1>7 DEF Types, PrepType
  <2>1. claim = [ok |-> FALSE, repair |-> FALSE, before |-> before, state |-> before]
    BY <1>7, <2>0 DEF Claim, Abandons
  <2>. HIDE DEF claim, before, covers
  <2>. QED
    BY <1>2, <2>1 DEF claim, before
<1>8. CASE ~ before.tracked /\ before.owner = None /\ store # <<>>
  <2>1. claim = [ok |-> covers(Len(store)), repair |-> torn, before |-> before,
                 state |-> Tracked(Len(store), TRUE, s)]
    BY <1>8 DEF Claim, Abandons
  <2>. HIDE DEF claim, before, covers
  <2>2. claim.state \in StateType /\ claim.state.cursor = Len(store)
        /\ claim.state.tracked /\ claim.state.owner = s
    BY <1>1, <2>1 DEF StateType, Tracked
  <2>3. state.owner = None \/ Abandons
    BY <1>4, <1>8
  <2>4. claim.before = before /\ claim.ok = covers(Len(store))
    BY <2>1
  <2>5. claim.ok => Len(store) <= n /\ Agree(s, Len(store))
    BY <1>1, <1>3, <2>4 DEF covers
  <2>. QED
    BY <1>1, <1>2, <2>2, <2>3, <2>4, <2>5 DEF claim, before
<1>9. CASE ~ before.tracked /\ before.owner = None /\ store = <<>>
  <2>1. claim = [ok |-> entry.phase = "none", repair |-> FALSE, before |-> before,
                 state |-> Tracked(0, FALSE, s)]
    BY <1>9 DEF Claim, Abandons
  <2>. HIDE DEF claim, before, covers
  <2>2. claim.state \in StateType /\ claim.state.cursor = 0 /\ claim.before = before
        /\ claim.state.tracked /\ claim.state.owner = s
    BY <1>1, <2>1 DEF StateType, Tracked
  <2>3. state.owner = None \/ Abandons
    BY <1>4, <1>9
  <2>4. Len(store) = 0 /\ Agree(s, 0)
    BY <1>9 DEF Agree
  <2>. QED
    BY <1>1, <1>2, <2>2, <2>3, <2>4 DEF claim, before
<1>. QED
  BY <1>4, <1>6, <1>7, <1>8, <1>9

\* onCreated() for the Session at the head of the chain.
LEMMA InitRunsFacts ==
  ASSUME Types, OpsInv, RegInv, CursorInv, InitRuns
  PROVE  \E s \in Sessions, n \in Nat :
           /\ chain # <<>> /\ OpOf(chain[1], "init", s) /\ Inits(chain[1], s)
           /\ n = saved[s] /\ n <= Len(events[s])
           /\ InitRefused(s) \/ InitClaims(s, n) \/ InitWrites(s, n)
           /\ state' \in StateType /\ CallTypes
           /\ torn' \in {torn, FALSE} /\ intruded' \in BOOLEAN
           /\ UNCHANGED <<registered, events, saved, writing, retiring, retirement, external>>
<1>. DEFINE s == Subject
            n == Head(chain).n
            claim == Claim(s, n)
            suffix == SubSeq(events[s], claim.state.cursor + 1, n)
<1>1. /\ chain # <<>> /\ Head(chain) = chain[1] /\ 1 \in DOMAIN chain
      /\ s \in Sessions /\ OpOf(chain[1], "init", s) /\ Inits(chain[1], s)
  BY HeadFacts DEF InitRuns, Runs, SessionKinds, RegKinds, OpOf, Inits, Types
<1>2. n = saved[s] /\ n \in Nat /\ n <= Len(events[s]) /\ events[s] \in Seq(EventType)
  <2>1. chain[1].n = saved[s]
    BY <1>1 DEF RegInv, OpOf
  <2>. HIDE DEF s
  <2>. QED
    BY <1>1, <2>1 DEF Types, LiveType
<1>3. /\ claim.before = IF Abandons THEN Untracked ELSE state
      /\ claim.before \in StateType /\ claim.state \in StateType
      /\ claim.ok =>
           /\ claim.state.tracked /\ claim.state.owner = s
           /\ claim.state.cursor <= Len(store) /\ claim.state.cursor <= n
           /\ Agree(s, claim.state.cursor)
           /\ state.owner = None \/ Abandons
           /\ \/ state.owner = None /\ state.tracked /\ claim.state.cursor = state.cursor
              \/ claim.state.cursor = Len(store)
  BY <1>1, <1>2, ClaimFacts
<1>4. /\ torn' \in {torn, FALSE} /\ intruded' \in BOOLEAN
      /\ intruded' = (intruded \/ (external /\ claim.state.cursor # Len(store)))
      /\ UNCHANGED <<registered, events, saved, writing, retiring, retirement, external>>
  <2>1. /\ intruded' = (intruded \/ (external /\ claim.state.cursor # Len(store)))
        /\ UNCHANGED <<registered, events, saved, writing, retiring, retirement, external>>
    BY DEF InitRuns
  <2>2. torn' \in {torn, FALSE}
    BY DEF InitRuns, Types, DiskType
  <2>. QED
    BY <2>1, <2>2 DEF Types, DiskType
<1>5. \/ InitDone(s, "failed") /\ Bound(claim.before)
      \/ claim.ok /\ InitDone(s, "failed") /\ Bound(claim.state)
      \/ claim.ok /\ InitDone(s, "ok") /\ suffix = <<>> /\ Bound(claim.state)
      \/ claim.ok /\ InitDone(s, "ok") /\ suffix # <<>> /\ Stored(suffix, n, s)
  BY DEF InitRuns
<1>. HIDE DEF s, n, claim
<1>6. claim.state.cursor \in Nat
  BY <1>3 DEF StateType
<1>7. claim.ok => Takes(s, n, claim.state.cursor)
  BY <1>3, <1>4, <1>6 DEF Takes
<1>8. PrepType
  BY DEF Types
<1>9. CASE InitDone(s, "failed") /\ Bound(claim.before)
  <2>1. Rests /\ CallTypes /\ state' = claim.before /\ store' = store
    BY <1>1, <1>8, <1>9, BoundFacts
  <2>2. InitRefused(s) /\ state' \in StateType
    BY <1>3, <1>4, <1>9, <2>1 DEF InitRefused, InitDone
  <2>. QED
    BY <1>1, <1>2, <1>4, <2>1, <2>2
<1>10. CASE claim.ok /\ InitDone(s, "failed") /\ Bound(claim.state)
  <2>1. Rests /\ CallTypes /\ state' = claim.state /\ store' = store
    BY <1>1, <1>8, <1>10, BoundFacts
  <2>2. InitClaims(s, n) /\ state' \in StateType
    BY <1>3, <1>7, <1>10, <2>1 DEF InitClaims, InitDone
  <2>. QED
    BY <1>1, <1>2, <1>4, <2>1, <2>2
<1>11. (suffix = <<>>) = (n <= claim.state.cursor)
  <2>1. claim.state.cursor + 1 \in Nat \ {0}
    BY <1>6
  <2>. DEFINE a == claim.state.cursor + 1
  <2>. HIDE DEF a
  <2>2. /\ SubSeq(events[s], a, n) \in Seq(EventType)
        /\ Len(SubSeq(events[s], a, n)) = IF a <= n THEN n - a + 1 ELSE 0
    BY <1>2, <2>1, SubSeqValue DEF a
  <2>3. (SubSeq(events[s], a, n) = <<>>) = (Len(SubSeq(events[s], a, n)) = 0)
    BY <2>2, EmptySeq
  <2>. QED
    BY <1>2, <1>6, <2>1, <2>2, <2>3 DEF a
<1>12. CASE claim.ok /\ InitDone(s, "ok") /\ suffix = <<>> /\ Bound(claim.state)
  <2>1. Rests /\ CallTypes /\ state' = claim.state /\ store' = store
    BY <1>1, <1>8, <1>12, BoundFacts
  <2>2. InitClaims(s, n) /\ state' \in StateType
    BY <1>3, <1>7, <1>11, <1>12, <2>1 DEF InitClaims, InitDone
  <2>. QED
    BY <1>1, <1>2, <1>4, <2>1, <2>2
<1>13. CASE claim.ok /\ InitDone(s, "ok") /\ suffix # <<>> /\ Stored(suffix, n, s)
  <2>1. Clears /\ store' = store \o suffix /\ state' = Tracked(n, TRUE, s)
    BY <1>1, <1>8, <1>13, StoredFacts
  <2>2. claim.state.cursor < n
    BY <1>2, <1>6, <1>11, <1>13
  <2>3. InitWrites(s, n)
    BY <1>6, <1>7, <1>13, <2>1, <2>2 DEF InitWrites, InitDone
  <2>4. state' \in StateType
    BY <1>1, <1>2, <2>1 DEF Tracked, StateType
  <2>. QED
    BY <1>1, <1>2, <1>4, <2>1, <2>3, <2>4 DEF Clears
<1>. QED
  BY <1>5, <1>9, <1>10, <1>12, <1>13

\* The suffix of a resumed Session fails or is written.
SuffixFails(s) ==
  Rests /\ store' = store /\ state' = state /\ init' = [init EXCEPT ![s] = "failed"]
SuffixWrites(s) ==
  /\ Clears /\ init' = [init EXCEPT ![s] = "ok"]
  /\ store' = store \o SubSeq(events[s], state.cursor + 1, saved[s])
  /\ state' = Tracked(saved[s], TRUE, s)

\* The append of attachPrepared().
LEMMA SuffixRunsFacts ==
  ASSUME Types, OpsInv, SuffixRuns
  PROVE  \E s \in Sessions :
           /\ chain # <<>> /\ OpOf(chain[1], "suffix", s) /\ Inits(chain[1], s)
           /\ SuffixFails(s) \/ SuffixWrites(s)
           /\ state' \in StateType /\ CallTypes
           /\ UNCHANGED <<torn, registered, events, saved, writing, retiring, retirement,
                          external, intruded>>
<1>. DEFINE s == Subject
<1>1. /\ chain # <<>> /\ Head(chain) = chain[1] /\ 1 \in DOMAIN chain
      /\ s \in Sessions /\ OpOf(chain[1], "suffix", s) /\ Inits(chain[1], s)
  BY HeadFacts DEF SuffixRuns, Runs, SessionKinds, RegKinds, OpOf, Inits, Types
<1>2. /\ UNCHANGED <<torn, registered, events, saved, writing, retiring, retirement,
                     external, intruded>>
      /\ \/ /\ InitDone(s, "ok")
            /\ Stored(SubSeq(events[s], state.cursor + 1, saved[s]), saved[s], s)
         \/ InitDone(s, "failed") /\ Bound(state)
  BY DEF SuffixRuns
<1>. HIDE DEF s
<1>3. PrepType /\ state \in StateType /\ saved[s] \in Nat
  BY <1>1 DEF Types, PrepType, LiveType
<1>4. CASE /\ InitDone(s, "ok")
           /\ Stored(SubSeq(events[s], state.cursor + 1, saved[s]), saved[s], s)
  <2>1. /\ Clears /\ store' = store \o SubSeq(events[s], state.cursor + 1, saved[s])
        /\ state' = Tracked(saved[s], TRUE, s)
    BY <1>1, <1>3, <1>4, StoredFacts
  <2>2. state' \in StateType
    BY <1>1, <1>3, <2>1 DEF Tracked, StateType
  <2>3. SuffixWrites(s)
    BY <1>4, <2>1 DEF SuffixWrites, InitDone
  <2>. QED
    BY <1>1, <1>2, <2>1, <2>2, <2>3 DEF Clears
<1>5. CASE InitDone(s, "failed") /\ Bound(state)
  <2>1. Rests /\ CallTypes /\ state' = state /\ store' = store
    BY <1>1, <1>3, <1>5, BoundFacts
  <2>2. SuffixFails(s)
    BY <1>5, <2>1 DEF SuffixFails, InitDone
  <2>. QED
    BY <1>1, <1>2, <1>3, <2>1, <2>2
<1>. QED
  BY <1>2, <1>4, <1>5

\* The calls that wait for the flush of Session s.
Flushing(s) == {c \in Callers : call[c].at = "flush" /\ call[c].session = s}

\* A batch of Session s finds its events stored, is stored, or fails.
WriteSkips(s, n) ==
  /\ Rests /\ store' = store /\ state' = state /\ n <= state.cursor
  /\ saved' = [saved EXCEPT ![s] = n]
  /\ retiring' = retiring /\ retirement' = retirement
WriteStores(s, n) ==
  /\ Clears /\ Writable /\ state.cursor < n
  /\ store' = store \o SubSeq(events[s], state.cursor + 1, n)
  /\ state' = Tracked(n, TRUE, state.owner)
  /\ saved' = [saved EXCEPT ![s] = n]
  /\ retiring' = retiring /\ retirement' = retirement
WriteFails(s) ==
  /\ Left(Flushing(s)) /\ CallTypes /\ Dequeued /\ running' = FALSE
  /\ store' = store /\ state' = state /\ saved' = saved
  /\ \/ retiring' = retiring /\ retirement' = retirement
     \/ /\ retiring[s] = "flush" /\ retiring' = [retiring EXCEPT ![s] = "failed"]
        /\ retirement' \in {retirement, None}

\* A batch of the write-behind.
LEMMA WriteRunsFacts ==
  ASSUME Types, OpsInv, LiveInv, WriteRuns
  PROVE  \E s \in Sessions, n \in Nat :
           /\ chain # <<>> /\ OpOf(chain[1], "write", s)
           /\ n = writing[s] /\ n # 0 /\ n <= Len(events[s])
           /\ writing' = [writing EXCEPT ![s] = 0]
           /\ WriteSkips(s, n) \/ WriteStores(s, n) \/ WriteFails(s)
           /\ state' \in StateType /\ CallTypes
           /\ UNCHANGED <<torn, registered, events, init, external, intruded>>
<1>. DEFINE s == Subject
            n == Head(chain).n
            fresh == SubSeq(events[s], state.cursor + 1, n)
<1>1. /\ chain # <<>> /\ Head(chain) = chain[1] /\ 1 \in DOMAIN chain
      /\ s \in Sessions /\ OpOf(chain[1], "write", s)
  BY HeadFacts DEF WriteRuns, Runs, SessionKinds, RegKinds, OpOf, Types
<1>2. /\ writing' = [writing EXCEPT ![s] = 0]
      /\ UNCHANGED <<torn, registered, events, init, external, intruded>>
      /\ \/ /\ fresh # <<>> => Writable
            /\ saved' = [saved EXCEPT ![s] = n]
            /\ IF fresh = <<>> THEN Bound(state) ELSE Stored(fresh, n, state.owner)
            /\ retiring' = retiring /\ retirement' = retirement
         \/ /\ IF retiring[s] = "flush" THEN RetirementFails(s)
               ELSE retiring' = retiring /\ retirement' = retirement
            /\ call' = [c \in Callers |-> IF call[c].at = "flush" /\ call[c].session = s
                                          THEN Over ELSE call[c]]
            /\ saved' = saved /\ store' = store /\ entry' = entry /\ state' = state
            /\ Dequeue
  BY DEF WriteRuns
<1>. HIDE DEF s
<1>3. n = writing[s] /\ n # 0 /\ n \in Nat /\ n <= Len(events[s]) /\ events[s] \in Seq(EventType)
  <2>1. chain[1].n = writing[s] /\ writing[s] # 0
    BY <1>1 DEF LiveInv
  <2>. QED
    BY <1>1, <2>1 DEF Types, LiveType
<1>. HIDE DEF n
<1>4. PrepType /\ state \in StateType /\ state.cursor \in Nat
  BY DEF Types, PrepType, StateType
<1>5. (fresh = <<>>) = (n <= state.cursor)
  <2>1. state.cursor + 1 \in Nat \ {0}
    BY <1>4
  <2>. DEFINE a == state.cursor + 1
  <2>. HIDE DEF a
  <2>2. /\ SubSeq(events[s], a, n) \in Seq(EventType)
        /\ Len(SubSeq(events[s], a, n)) = IF a <= n THEN n - a + 1 ELSE 0
    BY <1>3, <2>1, SubSeqValue DEF a
  <2>3. (SubSeq(events[s], a, n) = <<>>) = (Len(SubSeq(events[s], a, n)) = 0)
    BY <2>2, EmptySeq
  <2>. QED
    BY <1>3, <1>4, <2>1, <2>2, <2>3 DEF a
<1>6. CASE /\ saved' = [saved EXCEPT ![s] = n] /\ fresh = <<>> /\ Bound(state)
           /\ retiring' = retiring /\ retirement' = retirement
  <2>1. Rests /\ CallTypes /\ state' = state /\ store' = store
    BY <1>1, <1>4, <1>6, BoundFacts
  <2>2. WriteSkips(s, n)
    BY <1>5, <1>6, <2>1 DEF WriteSkips
  <2>. QED
    BY <1>1, <1>2, <1>3, <1>4, <2>1, <2>2
<1>7. CASE /\ saved' = [saved EXCEPT ![s] = n] /\ fresh # <<>> /\ Writable
           /\ Stored(fresh, n, state.owner)
           /\ retiring' = retiring /\ retirement' = retirement
  <2>1. Clears /\ store' = store \o fresh /\ state' = Tracked(n, TRUE, state.owner)
    BY <1>1, <1>4, <1>7, StoredFacts
  <2>2. state' \in StateType
    BY <1>3, <1>4, <2>1 DEF Tracked, StateType
  <2>3. WriteStores(s, n)
    BY <1>3, <1>4, <1>5, <1>7, <2>1 DEF WriteStores
  <2>. QED
    BY <1>1, <1>2, <1>3, <2>1, <2>2, <2>3 DEF Clears
<1>8. CASE /\ IF retiring[s] = "flush" THEN RetirementFails(s)
              ELSE retiring' = retiring /\ retirement' = retirement
           /\ call' = [c \in Callers |-> IF call[c].at = "flush" /\ call[c].session = s
                                         THEN Over ELSE call[c]]
           /\ saved' = saved /\ store' = store /\ entry' = entry /\ state' = state
           /\ Dequeue
  <2>1. Over \in CallType /\ Over.at = "over" /\ ~ Over.mine
    <3>1. Over \in CallType
      BY CallRecords
    <3>. QED
      BY <3>1 DEF Over, Idle, CallType, Points
  <2>2. CallTypes
    BY <1>4, <1>8, <2>1 DEF CallTypes, PrepType
  <2>3. Left(Flushing(s))
    BY <1>8, <2>1 DEF Left, Flushing, Settled
  <2>4. Dequeued /\ running' = FALSE
    BY <1>1, <1>4, <1>8, DequeueFacts
  <2>5. \/ retiring' = retiring /\ retirement' = retirement
        \/ /\ retiring[s] = "flush" /\ retiring' = [retiring EXCEPT ![s] = "failed"]
           /\ retirement' \in {retirement, None}
    BY <1>8 DEF RetirementFails
  <2>6. WriteFails(s)
    BY <1>8, <2>2, <2>3, <2>4, <2>5 DEF WriteFails
  <2>. QED
    BY <1>1, <1>2, <1>3, <1>4, <1>8, <2>2, <2>6
<1>. QED
  BY <1>2, <1>6, <1>7, <1>8

\* The end of a retirement.
LEMMA ReleaseRunsFacts ==
  ASSUME Types, OpsInv, ReleaseRuns
  PROVE  \E s \in Sessions :
           /\ chain # <<>> /\ OpOf(chain[1], "release", s)
           /\ Rests /\ CallTypes
           /\ init' = [init EXCEPT ![s] = "gone"]
           /\ state' = IF state.owner = s THEN Untracked ELSE state
           /\ state' \in StateType
           /\ retiring' = [retiring EXCEPT ![s] = "done"]
           /\ retirement' \in {retirement, None}
           /\ UNCHANGED <<disk, registered, events, saved, writing, history>>
<1>. DEFINE s == Subject
<1>1. /\ chain # <<>> /\ Head(chain) = chain[1] /\ 1 \in DOMAIN chain
      /\ s \in Sessions /\ OpOf(chain[1], "release", s)
  BY HeadFacts DEF ReleaseRuns, Runs, SessionKinds, RegKinds, OpOf, Types
<1>2. /\ init' = [init EXCEPT ![s] = "gone"]
      /\ state' = IF state.owner = s THEN Untracked ELSE state
      /\ retiring' = [retiring EXCEPT ![s] = "done"]
      /\ retirement' \in {retirement, None}
      /\ Dequeue /\ entry' = entry /\ call' = call
      /\ UNCHANGED <<disk, registered, events, saved, writing, history>>
  BY DEF ReleaseRuns, InitDone
<1>. HIDE DEF s
<1>3. Rests
  BY <1>1, <1>2, DequeueFacts DEF Rests, Types
<1>4. CallTypes
  BY <1>2 DEF CallTypes, Types, PrepType
<1>5. state' \in StateType
  <2>1. Untracked \in StateType
    BY CallRecords
  <2>. QED
    BY <1>2, <2>1 DEF Types, PrepType
<1>. QED
  BY <1>1, <1>2, <1>3, <1>4, <1>5

-----------------------------------------------------------------------------
(* The inductive invariant.                                                *)

\* The inductive invariant: the types, and what each part of the state owes another.
IInv ==
  /\ Types /\ OpsInv /\ RegInv /\ LiveInv /\ EntryInv /\ RunInv
  /\ OwnerInv /\ CursorInv /\ HeldInv /\ SavedInv /\ OwnerCovers

\* A step, action by action.
LEMMA Steps ==
  ASSUME [Next]_vars
  PROVE  \/ LoadRuns \/ CommitRuns \/ RepairSettles \/ CheckRuns
         \/ InitRuns \/ SuffixRuns \/ WriteRuns \/ ReleaseRuns
         \/ AppendStarts \/ AppendSettles
         \/ \E c \in Callers :
              \/ Call(c) \/ Again(c) \/ RetirementSettled(c)
              \/ AppendCalled(c) \/ ReadDone(c) \/ FlushReturns(c)
              \/ Extend(c) \/ Release(c) \/ Abort(c)
              \/ \E s \in Sessions : Publish(c, s)
         \/ \E s \in Sessions :
              Create(s) \/ Emit(s) \/ StartWrite(s) \/ RetireFlushed(s) \/ Dispose(s)
         \/ External \/ Evict \/ UNCHANGED vars
BY DEF Next, Operation, Continue, Settle, Session, Finished

\* SubSeq from the event after the first a.
LEMMA SubSeqType ==
  ASSUME NEW q \in Seq(EventType), NEW a \in Nat, NEW b \in Nat, b <= Len(q)
  PROVE  /\ SubSeq(q, a + 1, b) \in Seq(EventType)
         /\ Len(SubSeq(q, a + 1, b)) = IF a < b THEN b - a ELSE 0
         /\ \A i \in 1 .. b - a : SubSeq(q, a + 1, b)[i] = q[a + i]
<1>. DEFINE m == a + 1
<1>1. m \in Nat \ {0}
  OBVIOUS
<1>. HIDE DEF m
<1>2. /\ SubSeq(q, m, b) \in Seq(EventType)
      /\ Len(SubSeq(q, m, b)) = IF m <= b THEN b - m + 1 ELSE 0
      /\ \A i \in 1 .. b - m + 1 : SubSeq(q, m, b)[i] = q[m + i - 1]
  BY <1>1, SubSeqValue
<1>3. m = a + 1
  BY DEF m
<1>4. ASSUME NEW i \in 1 .. b - a PROVE SubSeq(q, m, b)[i] = q[a + i]
  <2>1. i \in 1 .. b - m + 1 /\ m + i - 1 = a + i
    BY <1>3
  <2>. QED
    BY <1>2, <2>1
<1>5. Len(SubSeq(q, m, b)) = IF a < b THEN b - a ELSE 0
  BY <1>2, <1>3
<1>. QED
  BY <1>2, <1>4, <1>5 DEF m

\* What an append of the rest of a Session's first n events stores.
LEMMA RestStored ==
  ASSUME Types, NEW s \in Sessions, NEW a \in Nat, NEW n \in Nat, n <= Len(events[s]),
         store' = store \o SubSeq(events[s], a + 1, n)
  PROVE  /\ store' \in Seq(EventType) /\ Len(store) \in Nat
         /\ Len(store') = Len(store) + (IF a < n THEN n - a ELSE 0)
         /\ \A i \in 1 .. Len(store) : store'[i] = store[i]
         /\ a = Len(store) => \A i \in Len(store) + 1 .. Len(store') : store'[i] = events[s][i]
<1>. DEFINE b == SubSeq(events[s], a + 1, n)
<1>1. /\ events[s] \in Seq(EventType) /\ store \in Seq(EventType)
  BY DEF Types, LiveType, DiskType
<1>2. /\ b \in Seq(EventType) /\ Len(b) = IF a < n THEN n - a ELSE 0
      /\ \A i \in 1 .. n - a : b[i] = events[s][a + i]
  BY <1>1, SubSeqType
<1>3. store' = store \o b
  OBVIOUS
<1>. HIDE DEF b
<1>4. /\ store' \in Seq(EventType) /\ Len(store) \in Nat /\ Len(b) \in Nat
      /\ Len(store') = Len(store) + Len(b)
      /\ \A i \in 1 .. Len(store) : store'[i] = store[i]
      /\ \A i \in Len(store) + 1 .. Len(store) + Len(b) : store'[i] = b[i - Len(store)]
  BY <1>1, <1>2, <1>3, ConcatValue
<1>5. ASSUME a = Len(store), NEW i \in Len(store) + 1 .. Len(store')
      PROVE  store'[i] = events[s][i]
  <2>1. i - Len(store) \in 1 .. n - a /\ a + (i - Len(store)) = i
    BY <1>2, <1>4, <1>5
  <2>2. store'[i] = b[i - Len(store)]
    BY <1>4
  <2>. QED
    BY <1>2, <2>1, <2>2
<1>. QED
  BY <1>2, <1>4, <1>5

-----------------------------------------------------------------------------
(* Types.                                                                  *)

\* The stored log and the history variables keep their types.
LEMMA DiskTypeStep ==
  ASSUME IInv, [Next]_vars
  PROVE  DiskType'
<1>. USE DEF IInv
<1>1. /\ store \in Seq(EventType) /\ torn \in BOOLEAN /\ external \in BOOLEAN
      /\ intruded \in BOOLEAN /\ Types /\ PrepType /\ DiskType
  BY DEF Types, DiskType
<1>2. CASE UNCHANGED <<disk, external, intruded>>
  BY <1>1, <1>2 DEF DiskType, disk
<1>3. CASE LoadRuns \/ CommitRuns \/ CheckRuns \/ ReleaseRuns
  BY <1>2, <1>3 DEF LoadRuns, CommitRuns, CheckRuns, ReleaseRuns, history
<1>4. CASE RepairSettles
  <2>1. entry.source.log \in Seq(EventType)
    BY DEF Types, PrepType, EntryType, SourceType
  <2>2. Closers(entry.source.log) \in Seq(EventType)
    BY <2>1, ClosersType
  <2>3. store \o Closers(entry.source.log) \in Seq(EventType)
    BY <1>1, <2>2, ConcatValue
  <2>4. /\ \/ store' = store \o Closers(entry.source.log) /\ ~ torn'
           \/ store' = store /\ torn' \in {torn, FALSE}
        /\ external' = external /\ intruded' = intruded
    BY <1>1, <1>4, RepairSettlesFacts
  <2>5. torn' \in BOOLEAN
    BY <1>1, <1>4 DEF RepairSettles
  <2>6. store' \in Seq(EventType)
    BY <1>1, <2>3, <2>4
  <2>. QED
    BY <1>1, <2>4, <2>5, <2>6 DEF DiskType
<1>5. CASE InitRuns
  <2>1. PICK s \in Sessions, n \in Nat :
           /\ n <= Len(events[s])
           /\ InitRefused(s) \/ InitClaims(s, n) \/ InitWrites(s, n)
           /\ torn' \in {torn, FALSE} /\ intruded' \in BOOLEAN /\ external' = external
    BY <1>1, <1>5, InitRunsFacts
  <2>2. CASE InitRefused(s) \/ InitClaims(s, n)
    BY <1>1, <2>1, <2>2 DEF InitRefused, InitClaims, DiskType
  <2>3. CASE InitWrites(s, n)
    <3>1. PICK cursor \in Nat : store' = store \o SubSeq(events[s], cursor + 1, n)
      BY <2>3 DEF InitWrites
    <3>2. store' \in Seq(EventType)
      BY <1>1, <2>1, <3>1, RestStored
    <3>. QED
      BY <1>1, <2>1, <3>2 DEF DiskType
  <2>. QED
    BY <2>1, <2>2, <2>3
<1>6. CASE SuffixRuns
  <2>1. PICK s \in Sessions :
           /\ SuffixFails(s) \/ SuffixWrites(s)
           /\ UNCHANGED <<torn, external, intruded>>
    BY <1>1, <1>6, SuffixRunsFacts
  <2>2. saved[s] \in Nat /\ saved[s] <= Len(events[s]) /\ state.cursor \in Nat
    BY DEF Types, LiveType, PrepType, StateType
  <2>3. store' \in Seq(EventType)
    BY <1>1, <2>1, <2>2, RestStored DEF SuffixFails, SuffixWrites
  <2>. QED
    BY <1>1, <2>1, <2>3 DEF DiskType
<1>7. CASE WriteRuns
  <2>1. PICK s \in Sessions, n \in Nat :
           /\ n <= Len(events[s])
           /\ WriteSkips(s, n) \/ WriteStores(s, n) \/ WriteFails(s)
           /\ UNCHANGED <<torn, external, intruded>>
    BY <1>1, <1>7, WriteRunsFacts
  <2>2. state.cursor \in Nat
    BY DEF Types, PrepType, StateType
  <2>3. store' \in Seq(EventType)
    BY <1>1, <2>1, <2>2, RestStored DEF WriteSkips, WriteStores, WriteFails
  <2>. QED
    BY <1>1, <2>1, <2>3 DEF DiskType
<1>8. CASE AppendStarts
  <2>1. /\ Adopts \/ HalfAdopts \/ Untouched
        /\ intruded' = (intruded \/ (store' # store /\ Claimed))
        /\ external' = external
    BY <1>1, <1>8, AppendStartsFacts
  <2>2. store \o Closers(store) \in Seq(EventType)
    BY <1>1, ClosersType
  <2>3. store' \in Seq(EventType)
    BY <1>1, <2>1, <2>2 DEF Adopts, HalfAdopts, Untouched
  <2>4. torn' \in BOOLEAN
    BY <1>1, <1>8 DEF AppendStarts, disk
  <2>. QED
    BY <1>1, <2>1, <2>3, <2>4 DEF DiskType
<1>9. CASE AppendSettles
  <2>1. /\ store' = Append(store, Event("api", FALSE)) \/ store' = store
        /\ intruded' = (intruded \/ Claimed) \/ intruded' = intruded
        /\ torn' = torn /\ external' = external
    BY <1>1, <1>9, AppendSettlesFacts
  <2>2. Event("api", FALSE) \in EventType
    BY DEF Event, EventType
  <2>3. Append(store, Event("api", FALSE)) \in Seq(EventType)
    BY <1>1, <2>2, AppendValue
  <2>4. store' \in Seq(EventType)
    BY <1>1, <2>1, <2>3
  <2>. QED
    BY <1>1, <2>1, <2>4 DEF DiskType
<1>10. CASE External
  <2>1. Event("other", FALSE) \in EventType
    BY DEF Event, EventType
  <2>2. /\ store' = Append(store, Event("other", FALSE)) /\ external' = TRUE
        /\ intruded' = (intruded \/ Claimed \/ running) /\ torn' = torn
    BY <1>10 DEF External
  <2>3. store' \in Seq(EventType)
    BY <1>1, <2>1, <2>2, AppendValue
  <2>. QED
    BY <1>1, <2>2, <2>3 DEF DiskType
<1>11. ASSUME NEW c \in Callers,
              \/ Call(c) \/ Again(c) \/ RetirementSettled(c)
              \/ AppendCalled(c) \/ ReadDone(c) \/ FlushReturns(c)
              \/ Extend(c) \/ Release(c) \/ Abort(c)
              \/ \E s \in Sessions : Publish(c, s)
       PROVE  UNCHANGED <<disk, external, intruded>>
  BY <1>11 DEF Call, Again, Enter, RetirementSettled, AppendCalled, ReadDone, FlushReturns,
       Extend, Release, Abort, Publish, history
<1>12. ASSUME NEW s \in Sessions,
              Create(s) \/ Emit(s) \/ StartWrite(s) \/ RetireFlushed(s) \/ Dispose(s)
       PROVE  UNCHANGED <<disk, external, intruded>>
  BY <1>12 DEF Create, Emit, StartWrite, RetireFlushed, Dispose, history
<1>13. CASE Evict \/ UNCHANGED vars
  BY <1>2, <1>13 DEF Evict, vars, disk
<1>. QED
  BY <1>2, <1>3, <1>4, <1>5, <1>6, <1>7, <1>8, <1>9, <1>10, <1>11, <1>12, <1>13, Steps


\* The live Sessions keep their types: what is saved or in flight are their own
\* events.
LEMMA LiveTypeStep ==
  ASSUME IInv, [Next]_vars
  PROVE  LiveType'
<1>. USE DEF IInv
<1>1. Types /\ LiveType /\ PrepType /\ DiskType /\ OpsInv /\ CursorInv
  BY DEF Types
<1>2. CASE UNCHANGED live
  BY <1>1, <1>2 DEF LiveType, live
<1>3. CASE \/ LoadRuns \/ CommitRuns \/ RepairSettles \/ CheckRuns \/ AppendStarts
           \/ AppendSettles \/ External \/ Evict \/ UNCHANGED vars
  BY <1>2, <1>3 DEF LoadRuns, CommitRuns, RepairSettles, CheckRuns, AppendStarts,
     AppendSettles, External, Evict, vars, live
<1>4. ASSUME NEW c \in Callers,
              \/ Call(c) \/ Again(c) \/ RetirementSettled(c)
              \/ AppendCalled(c) \/ ReadDone(c) \/ FlushReturns(c)
              \/ Extend(c) \/ Release(c) \/ Abort(c)
       PROVE  UNCHANGED live
  BY <1>4 DEF Call, Again, Enter, RetirementSettled, AppendCalled, ReadDone, FlushReturns,
       Extend, Release, Abort
<1>5. ASSUME NEW s \in Sessions, NEW log \in Seq(EventType), Registers(s, log)
      PROVE  LiveType'
  <2>1. Len(log) \in Nat
    OBVIOUS
  <2>2. \A t \in Sessions : /\ Len(events'[t]) = IF t = s THEN Len(log) ELSE Len(events[t])
                            /\ saved'[t] = IF t = s THEN Len(log) ELSE saved[t]
                            /\ writing'[t] = writing[t]
    BY <1>1, <1>5 DEF LiveType, Registers
  <2>3. writing[s] = 0
    BY <1>1, <1>5 DEF LiveInv, Ordered, Registers, LiveType
  <2>4. \A t \in Sessions : saved'[t] <= Len(events'[t]) /\ writing'[t] <= Len(events'[t])
    <3>. TAKE t \in Sessions
    <3>1. CASE t = s
      BY <2>1, <2>2, <2>3, <3>1
    <3>2. CASE t # s
      BY <1>1, <2>2, <3>2 DEF LiveType
    <3>. QED
      BY <3>1, <3>2
  <2>. QED
    BY <1>1, <1>5, <2>1, <2>4 DEF LiveType, Registers
<1>6. ASSUME NEW c \in Callers, NEW s \in Sessions, Publish(c, s)
      PROVE  LiveType'
  <2>1. call[c].mine
    BY <1>6 DEF EntryInv, Publish
  <2>2. PICK log \in Seq(EventType) : Registers(s, log)
    BY <1>1, <1>6, <2>1, PublishFacts
  <2>. QED
    BY <1>5, <2>2
<1>7. ASSUME NEW s \in Sessions, Create(s)
      PROVE  LiveType'
  <2>1. PICK log \in Seq(EventType) : Registers(s, log)
    BY <1>1, <1>7, CreateFacts
  <2>. QED
    BY <1>5, <2>1
<1>8. ASSUME NEW s \in Sessions, Emit(s)
      PROVE  LiveType'
  <2>1. Event(s, TRUE) \in EventType
    BY DEF Event, EventType
  <2>2. events[s] \in Seq(EventType)
    BY <1>1 DEF LiveType
  <2>3. /\ Append(events[s], Event(s, TRUE)) \in Seq(EventType)
        /\ Len(events[s]) \in Nat
        /\ Len(Append(events[s], Event(s, TRUE))) = Len(events[s]) + 1
    BY <2>1, <2>2, AppendValue
  <2>4. /\ events' = [events EXCEPT ![s] = Append(events[s], Event(s, TRUE))]
        /\ UNCHANGED <<registered, init, saved, writing, retiring, retirement>>
    BY <1>8 DEF Emit
  <2>5. events' \in [Sessions -> Seq(EventType)]
    BY <1>1, <2>3, <2>4 DEF LiveType
  <2>6. \A t \in Sessions : /\ t # s => events'[t] = events[t]
                            /\ t = s => Len(events'[t]) = Len(events[t]) + 1
    BY <1>1, <2>3, <2>4 DEF LiveType
  <2>7. \A t \in Sessions : saved[t] <= Len(events'[t]) /\ writing[t] <= Len(events'[t])
    <3>. TAKE t \in Sessions
    <3>1. CASE t = s
      BY <1>1, <2>3, <2>6, <3>1 DEF LiveType
    <3>2. CASE t # s
      BY <1>1, <2>6, <3>2 DEF LiveType
    <3>. QED
      BY <3>1, <3>2
  <2>. QED
    BY <1>1, <2>4, <2>5, <2>7 DEF LiveType
<1>9. ASSUME NEW s \in Sessions, StartWrite(s)
      PROVE  LiveType'
  <2>1. Len(events[s]) \in Nat
    BY <1>1 DEF LiveType
  <2>. QED
    BY <1>1, <1>9, <2>1 DEF LiveType, StartWrite
<1>10. ASSUME NEW s \in Sessions, RetireFlushed(s) \/ Dispose(s)
      PROVE  LiveType'
  <2>1. /\ UNCHANGED <<events, init, saved, writing>>
        /\ \E how \in {"flush", "release", "failed"} : retiring' = [retiring EXCEPT ![s] = how]
        /\ registered' \in {registered, None}
        /\ retirement' \in {retirement, None, s}
    <3>1. CASE RetireFlushed(s)
      BY <3>1 DEF RetireFlushed, RetirementFails
    <3>2. CASE Dispose(s)
      BY <3>2 DEF Dispose
    <3>. QED
      BY <1>10, <3>1, <3>2
  <2>2. retiring' \in [Sessions -> {"no", "flush", "release", "done", "failed"}]
    BY <1>1, <2>1 DEF LiveType
  <2>. QED
    BY <1>1, <2>1, <2>2 DEF LiveType
<1>11. CASE InitRuns
  <2>1. PICK s \in Sessions, n \in Nat :
          /\ InitRefused(s) \/ InitClaims(s, n) \/ InitWrites(s, n)
          /\ UNCHANGED <<registered, events, saved, writing, retiring, retirement>>
    BY <1>1, <1>11, InitRunsFacts
  <2>2. \E result \in {"ok", "failed"} : init' = [init EXCEPT ![s] = result]
    BY <2>1 DEF InitRefused, InitClaims, InitWrites
  <2>. QED
    BY <1>1, <2>1, <2>2 DEF LiveType
<1>12. CASE SuffixRuns
  <2>1. PICK s \in Sessions :
          /\ SuffixFails(s) \/ SuffixWrites(s)
          /\ UNCHANGED <<registered, events, saved, writing, retiring, retirement>>
    BY <1>1, <1>12, SuffixRunsFacts
  <2>2. \E result \in {"ok", "failed"} : init' = [init EXCEPT ![s] = result]
    BY <2>1 DEF SuffixFails, SuffixWrites
  <2>. QED
    BY <1>1, <2>1, <2>2 DEF LiveType
<1>13. CASE WriteRuns
  <2>1. PICK s \in Sessions, n \in Nat :
          /\ n <= Len(events[s])
          /\ writing' = [writing EXCEPT ![s] = 0]
          /\ WriteSkips(s, n) \/ WriteStores(s, n) \/ WriteFails(s)
          /\ UNCHANGED <<registered, events, init>>
    BY <1>1, <1>13, WriteRunsFacts
  <2>2. saved' = [saved EXCEPT ![s] = n] \/ saved' = saved
    BY <2>1 DEF WriteSkips, WriteStores, WriteFails
  <2>3. \/ retiring' = retiring
        \/ retiring' = [retiring EXCEPT ![s] = "failed"]
    BY <2>1 DEF WriteSkips, WriteStores, WriteFails
  <2>4. retirement' \in {retirement, None}
    BY <2>1 DEF WriteSkips, WriteStores, WriteFails
  <2>. QED
    BY <1>1, <2>1, <2>2, <2>3, <2>4 DEF LiveType
<1>14. CASE ReleaseRuns
  <2>1. PICK s \in Sessions :
          /\ init' = [init EXCEPT ![s] = "gone"]
          /\ retiring' = [retiring EXCEPT ![s] = "done"]
          /\ retirement' \in {retirement, None}
          /\ UNCHANGED <<registered, events, saved, writing>>
    BY <1>1, <1>14, ReleaseRunsFacts
  <2>. QED
    BY <1>1, <2>1 DEF LiveType
<1>. QED
  BY <1>2, <1>3, <1>4, <1>6, <1>7, <1>8, <1>9, <1>10, <1>11, <1>12, <1>13, <1>14, Steps

\* The calls, the entry, the chain and the state of the log keep their types.
LEMMA PrepTypeStep ==
  ASSUME IInv, [Next]_vars
  PROVE  PrepType'
<1>. USE DEF IInv
<1>1. Types /\ LiveType /\ PrepType /\ DiskType /\ OpsInv /\ CursorInv
  BY DEF Types
<1>2. /\ chain \in Seq(OpType) /\ running \in BOOLEAN /\ state \in StateType
      /\ state.owner # None => state.tracked
      /\ call \in [Callers -> CallType] /\ entry \in EntryType
  BY <1>1 DEF PrepType
<1>3. \A op \in OpType : Queue(op) => chain' \in Seq(OpType)
  BY <1>1, QueueFacts
<1>4. ASSUME CallTypes, state' \in StateType, running' \in BOOLEAN, chain' \in Seq(OpType),
             state'.owner # None => state'.tracked
      PROVE  PrepType'
  BY <1>4 DEF CallTypes, PrepType
<1>5. /\ Dequeued => chain' \in Seq(OpType)
      /\ Emptied => chain' \in Seq(OpType)
      /\ call' = call /\ entry' = entry => CallTypes
  BY <1>2 DEF Dequeued, Emptied, CallTypes
<1>6. CASE LoadRuns
  <2>1. CallTypes /\ Dequeued /\ running' = FALSE /\ state' = state
    BY <1>1, <1>6, LoadRunsFacts
  <2>. QED
    BY <1>2, <1>4, <1>5, <2>1
<1>7. CASE CommitRuns
  <2>1. /\ CallTypes /\ state' \in StateType
        /\ GivesUp(Caller) \/ Repairs(Caller) \/ Succeeds(Caller)
    BY <1>1, <1>7, CommitRunsFacts
  <2>2. CASE GivesUp(Caller)
    BY <1>2, <1>4, <1>5, <2>1, <2>2 DEF GivesUp
  <2>3. CASE Repairs(Caller)
    BY <1>2, <1>4, <1>5, <2>1, <2>3 DEF Repairs
  <2>4. CASE Succeeds(Caller)
    <3>1. state'.owner = None
      BY <2>4 DEF Succeeds, ColdState, Tracked
    <3>2. Dequeued /\ running' = FALSE
      BY <2>4 DEF Succeeds
    <3>. QED
      BY <1>2, <1>4, <1>5, <2>1, <3>1, <3>2
  <2>. QED
    BY <2>1, <2>2, <2>3, <2>4
<1>8. CASE RepairSettles
  <2>1. CallTypes /\ Dequeued /\ running' = FALSE /\ state' = state
    BY <1>1, <1>8, RepairSettlesFacts DEF live
  <2>. QED
    BY <1>2, <1>4, <1>5, <2>1
<1>9. CASE CheckRuns
  <2>1. CallTypes /\ Dequeued /\ running' = FALSE /\ state' = state
    BY <1>1, <1>9, CheckRunsFacts
  <2>. QED
    BY <1>2, <1>4, <1>5, <2>1
<1>10. CASE InitRuns
  <2>1. PICK s \in Sessions, n \in Nat :
          /\ InitRefused(s) \/ InitClaims(s, n) \/ InitWrites(s, n)
          /\ state' \in StateType /\ CallTypes
    BY <1>1, <1>10, InitRunsFacts
  <2>2. chain' \in Seq(OpType) /\ running' = FALSE
    BY <1>5, <2>1 DEF InitRefused, InitClaims, InitWrites, Rests, Clears
  <2>3. state'.owner # None => state'.tracked
    BY <1>2, <2>1 DEF InitRefused, InitClaims, InitWrites, Tracked, Untracked
  <2>. QED
    BY <1>4, <2>1, <2>2, <2>3
<1>11. CASE SuffixRuns
  <2>1. PICK s \in Sessions :
          SuffixFails(s) \/ SuffixWrites(s)
    BY <1>1, <1>11, SuffixRunsFacts
  <2>2. chain' \in Seq(OpType) /\ running' = FALSE
    BY <1>5, <2>1 DEF SuffixFails, SuffixWrites, Rests, Clears
  <2>3. state'.owner # None => state'.tracked
    BY <1>2, <2>1 DEF SuffixFails, SuffixWrites, Tracked
  <2>4. state' \in StateType /\ CallTypes
    BY <1>1, <1>11, SuffixRunsFacts
  <2>. QED
    BY <1>4, <2>2, <2>3, <2>4
<1>12. CASE WriteRuns
  <2>1. PICK s \in Sessions, n \in Nat :
          /\ WriteSkips(s, n) \/ WriteStores(s, n) \/ WriteFails(s)
          /\ state' \in StateType /\ CallTypes
    BY <1>1, <1>12, WriteRunsFacts
  <2>2. chain' \in Seq(OpType) /\ running' = FALSE
    BY <1>5, <2>1 DEF WriteSkips, WriteStores, WriteFails, Rests, Clears
  <2>3. state'.owner # None => state'.tracked
    BY <1>2, <2>1 DEF WriteSkips, WriteStores, WriteFails, Tracked
  <2>. QED
    BY <1>4, <2>1, <2>2, <2>3
<1>13. CASE ReleaseRuns
  <2>1. PICK s \in Sessions :
          /\ Rests /\ CallTypes /\ state' \in StateType
          /\ state' = IF state.owner = s THEN Untracked ELSE state
    BY <1>1, <1>13, ReleaseRunsFacts
  <2>2. chain' \in Seq(OpType) /\ running' = FALSE
    BY <1>5, <2>1 DEF Rests
  <2>3. state'.owner # None => state'.tracked
    BY <1>2, <2>1 DEF Untracked
  <2>. QED
    BY <1>4, <2>1, <2>2, <2>3
<1>14. CASE AppendStarts
  <2>1. /\ CallTypes /\ state' \in StateType
        /\ Adopts \/ HalfAdopts \/ Untouched
        /\ \/ running' = TRUE /\ chain' = chain
           \/ running' = FALSE /\ Dequeued
    BY <1>1, <1>14, AppendStartsFacts
  <2>2. state'.owner # None => state'.tracked
    <3>1. Adopts => state'.owner = None
      BY DEF Adopts, Tracked
    <3>2. HalfAdopts \/ Untouched => state' = state
      BY DEF HalfAdopts, Untouched
    <3>. QED
      BY <1>2, <2>1, <3>1, <3>2
  <2>3. chain' \in Seq(OpType) /\ running' \in BOOLEAN
    BY <1>2, <1>5, <2>1
  <2>. QED
    BY <1>4, <2>1, <2>2, <2>3
<1>15. CASE AppendSettles
  <2>1. /\ CallTypes /\ state' \in StateType /\ running' = FALSE
        /\ Emptied \/ Dequeued
        /\ state' = Tracked(state.cursor + 1, TRUE, state.owner) \/ state' = state
    BY <1>1, <1>15, AppendSettlesFacts
  <2>2. state'.owner # None => state'.tracked
    BY <1>2, <2>1 DEF Tracked
  <2>. QED
    BY <1>4, <1>5, <2>1, <2>2
<1>16. ASSUME NEW c \in Callers, Call(c) \/ Again(c) \/ RetirementSettled(c)
       PROVE  PrepType'
  <2>1. Enters(c) /\ state' = state /\ running' = running
    BY <1>1, <1>16, EnteringSteps
  <2>. QED
    BY <1>2, <1>4, <2>1 DEF Enters
<1>17. ASSUME NEW c \in Callers, AppendCalled(c)
       PROVE  PrepType'
  <2>1. /\ CallTypes /\ Op("append", {c}, Len(store), FALSE) \in OpType
        /\ Queue(Op("append", {c}, Len(store), FALSE))
        /\ state' = state /\ running' = running
    BY <1>1, <1>17, AppendCalledFacts
  <2>. QED
    BY <1>2, <1>3, <1>4, <2>1
<1>18. ASSUME NEW c \in Callers, ReadDone(c)
       PROVE  PrepType'
  <2>1. /\ CallTypes /\ state' = state /\ running' = running
        /\ (Left({c}) /\ chain' = chain) \/ Checks(c) \/ Commits(c) \/ Waits(c)
    BY <1>1, <1>18, ReadDoneFacts
  <2>2. Op("check", {c}, 0, FALSE) \in OpType /\ Op("commit", {c}, 0, FALSE) \in OpType
    BY DEF Op, OpType, CallKinds
  <2>3. chain' \in Seq(OpType)
    BY <1>2, <1>3, <2>1, <2>2 DEF Checks, Commits, Waits
  <2>. QED
    BY <1>2, <1>4, <2>1, <2>3
<1>19. ASSUME NEW c \in Callers, FlushReturns(c)
       PROVE  PrepType'
  <2>1. CallTypes /\ UNCHANGED <<state, chain, running>>
    BY <1>1, <1>19, FlushReturnsFacts
  <2>. QED
    BY <1>2, <1>4, <2>1
<1>20. ASSUME NEW c \in Callers, Extend(c)
       PROVE  PrepType'
  <2>1. CallTypes /\ UNCHANGED <<state, chain, running>>
    BY <1>1, <1>20, ExtendFacts
  <2>. QED
    BY <1>2, <1>4, <2>1
<1>21. ASSUME NEW c \in Callers, Release(c)
       PROVE  PrepType'
  <2>1. call[c].mine
    BY <1>21 DEF EntryInv, Release
  <2>2. CallTypes /\ UNCHANGED <<state, chain, running>>
    BY <1>1, <1>21, <2>1, ReleaseFacts
  <2>. QED
    BY <1>2, <1>4, <2>2
<1>22. ASSUME NEW c \in Callers, Abort(c)
       PROVE  PrepType'
  <2>1. CallTypes /\ chain' \in Seq(OpType) /\ UNCHANGED <<state, running>>
    BY <1>1, <1>22, AbortFacts
  <2>. QED
    BY <1>2, <1>4, <2>1
<1>23. ASSUME NEW c \in Callers, NEW s \in Sessions, Publish(c, s)
       PROVE  PrepType'
  <2>1. call[c].mine /\ entry.phase = "reserved"
    BY <1>23 DEF EntryInv, Publish
  <2>2. /\ CallTypes /\ state' = [state EXCEPT !.owner = s]
        /\ Op("suffix", {s}, state.cursor, FALSE) \in OpType
        /\ Queue(Op("suffix", {s}, state.cursor, FALSE))
        /\ running' = running
    BY <1>1, <1>23, <2>1, PublishFacts
  <2>3. state.tracked
    BY <2>1 DEF EntryInv
  <2>4. state' \in StateType /\ state'.tracked
    BY <1>2, <2>2, <2>3 DEF StateType
  <2>5. chain' \in Seq(OpType)
    BY <1>3, <2>2
  <2>. QED
    BY <1>2, <1>4, <2>2, <2>4, <2>5
<1>24. ASSUME NEW s \in Sessions, Create(s)
       PROVE  PrepType'
  <2>1. /\ entry' = entry /\ call' = call /\ state' = state /\ running' = running
        /\ \E log \in Seq(EventType) :
             /\ Op("init", {s}, Len(log), FALSE) \in OpType
             /\ Queue(Op("init", {s}, Len(log), FALSE))
    BY <1>1, <1>24, CreateFacts
  <2>2. chain' \in Seq(OpType)
    BY <1>3, <2>1
  <2>. QED
    BY <1>2, <1>4, <1>5, <2>1, <2>2
<1>25. ASSUME NEW s \in Sessions, StartWrite(s) \/ RetireFlushed(s)
       PROVE  PrepType'
  <2>1. Op("write", {s}, Len(events[s]), FALSE) \in OpType
    BY <1>1 DEF Op, OpType, LiveType, SessionKinds, RegKinds
  <2>2. Op("release", {s}, 0, FALSE) \in OpType
    BY DEF Op, OpType, SessionKinds, RegKinds
  <2>3. chain' \in Seq(OpType) /\ UNCHANGED <<entry, call, state, running>>
    BY <1>2, <1>3, <1>25, <2>1, <2>2 DEF StartWrite, RetireFlushed
  <2>. QED
    BY <1>2, <1>4, <1>5, <2>3
<1>26. ASSUME NEW s \in Sessions, Emit(s) \/ Dispose(s)
       PROVE  PrepType'
  BY <1>2, <1>26 DEF Emit, Dispose, PrepType
<1>27. CASE Evict
  <2>1. CallTypes /\ UNCHANGED <<state, chain, running>>
    BY <1>1, <1>27, EvictFacts
  <2>. QED
    BY <1>2, <1>4, <2>1
<1>28. CASE External \/ UNCHANGED vars
  BY <1>2, <1>28 DEF External, vars, PrepType
<1>. QED
  BY <1>6, <1>7, <1>8, <1>9, <1>10, <1>11, <1>12, <1>13, <1>14, <1>15, <1>16, <1>17, <1>18,
     <1>19, <1>20, <1>21, <1>22, <1>23, <1>24, <1>25, <1>26, <1>27, <1>28, Steps

-----------------------------------------------------------------------------
(* The operations and those they are for.                                  *)

\* A call that waits for an operation goes on waiting for it.
Attends(c) ==
  call[c].at \in {"loading"} \cup CallKinds =>
    call'[c].at = call[c].at /\ (call'[c].mine => call[c].mine)

\* The effects above, for a call they do not settle.
LEMMA AttendFacts ==
  /\ \A c \in Callers : Stays(c) => Attends(c)
  /\ \A D : \A c \in Callers : c \notin D /\ (Removed(D) \/ Left(D)) => Attends(c)
  /\ \A D, source : \A c \in Callers : c \notin D /\ Readied(source, D) => Attends(c)
  /\ \A c, d \in Callers : Others(c) /\ d # c => Attends(d)
  /\ \A c \in Callers : call'[c] = call[c] => Attends(c)
  /\ \A c \in Callers : call[c].at \notin {"loading"} \cup CallKinds => Attends(c)
<1>1. \A c \in Callers : Stays(c) => Attends(c)
  BY DEF Stays, Attends, CallKinds
<1>2. \A c \in Callers : call'[c] = call[c] => Attends(c)
  BY DEF Attends
<1>3. \A D : \A c \in Callers : c \notin D /\ (Removed(D) \/ Left(D)) => Attends(c)
  BY <1>1, <1>2 DEF Removed, Left
<1>4. \A D, source : \A c \in Callers : c \notin D /\ Readied(source, D) => Attends(c)
  BY <1>1 DEF Readied
<1>5. \A c, d \in Callers : Others(c) /\ d # c => Attends(d)
  BY <1>2 DEF Others
<1>. QED
  BY <1>1, <1>2, <1>3, <1>4, <1>5 DEF Attends

\* The head of the chain is done, and the calls it was for with it.
LEMMA OpsDone ==
  ASSUME PrepType, OpsInv, Dequeued \/ Emptied, running' = FALSE,
         \A c \in Callers :
           chain[1].kind \in SessionKinds \/ c \notin chain[1].for => Attends(c),
         Emptied \/ chain[1].current \/ entry'.phase = "loading" \/ entry.phase # "loading",
         ~ Dequeued => \A c \in Callers : ~ call'[c].mine
  PROVE  OpsInv'
<1>1. Embeds(Up) /\ \A i \in DOMAIN chain' : Up[i] # 1
  BY UpEmbeds
<1>2. Len(chain) \in Nat /\ DOMAIN chain = 1 .. Len(chain)
  BY DEF PrepType
<1>3. /\ chain' \in Seq(OpType) /\ chain # <<>> /\ Len(chain') = Len(chain) - 1
      /\ \A i \in 1 .. Len(chain) - 1 :
           chain'[i] = chain[i + 1] \/ chain'[i] = [chain[i + 1] EXCEPT !.current = FALSE]
      /\ Dequeued => \A i \in 1 .. Len(chain) - 1 : chain'[i] = chain[i + 1]
      /\ Emptied => \A i \in 1 .. Len(chain) - 1 :
                      chain'[i] = [chain[i + 1] EXCEPT !.current = FALSE]
  BY DEF Dequeued, Emptied
<1>4. ASSUME NEW i \in DOMAIN chain'
      PROVE  /\ i \in 1 .. Len(chain) - 1 /\ Up[i] = i + 1 /\ Up[i] \in DOMAIN chain
             /\ Up[i] # 1 /\ 1 \in DOMAIN chain
             /\ chain'[i].for = chain[Up[i]].for /\ chain'[i].kind = chain[Up[i]].kind
             /\ chain[Up[i]] \in OpType
             /\ Dequeued => chain'[i] = chain[Up[i]]
             /\ Emptied => ~ chain'[i].current
  <2>1. i \in 1 .. Len(chain) - 1
    BY <1>2, <1>3
  <2>2. Up[i] = i + 1 /\ i + 1 \in DOMAIN chain /\ i + 1 # 1 /\ 1 \in DOMAIN chain
    BY <1>2, <2>1 DEF Up
  <2>3. chain[i + 1] \in OpType
    BY <2>2 DEF PrepType
  <2>4. /\ chain'[i].for = chain[i + 1].for /\ chain'[i].kind = chain[i + 1].kind
        /\ Emptied => ~ chain'[i].current
    BY <1>3, <2>1, <2>3 DEF OpType
  <2>. QED
    BY <1>3, <2>1, <2>2, <2>3, <2>4
<1>5. ASSUME NEW i \in DOMAIN chain', NEW c \in Callers \cap chain'[i].for,
             chain'[i].kind \in {"load"} \cup CallKinds
      PROVE  call'[c].at = call[c].at /\ (call'[c].mine => call[c].mine)
  <2>1. chain[1].kind \in SessionKinds \/ c \notin chain[1].for
    <3>1. chain[1].kind \in SessionKinds \/ chain[1].kind \in {"load"} \cup CallKinds
      <4>1. chain[1] \in OpType
        BY <1>4 DEF PrepType
      <4>. QED
        BY <4>1 DEF OpType
    <3>2. CASE chain[1].kind \in {"load"} \cup CallKinds
      <4>1. chain[1].for \cap chain[Up[i]].for = {}
        BY <1>4, <1>5, <3>2, Apart
      <4>. QED
        BY <1>4, <4>1
    <3>. QED
      BY <3>1, <3>2
  <2>2. call[c].at \in {"loading"} \cup CallKinds
    <3>1. /\ chain[Up[i]].kind = "load" => call[c].at = "loading"
          /\ chain[Up[i]].kind \in CallKinds =>
               \E d \in Callers : chain[Up[i]].for = {d} /\ call[d].at = chain[Up[i]].kind
      BY <1>4 DEF OpsInv
    <3>. QED
      BY <1>4, <1>5, <3>1
  <2>3. Attends(c)
    BY <2>1
  <2>. QED
    BY <2>2, <2>3 DEF Attends
<1>6. ASSUME NEW i \in DOMAIN chain'
      PROVE  /\ chain'[i].current => entry'.phase = "loading"
             /\ chain[Up[i]].current /\ ~ chain'[i].current =>
                  \A c \in Callers : ~ call'[c].mine
  <2>1. ASSUME chain'[i].current
        PROVE  entry'.phase = "loading"
    <3>1. Dequeued /\ ~ Emptied /\ chain[Up[i]].current
      BY <1>4, <2>1
    <3>2. entry.phase = "loading" /\ ~ chain[1].current
      BY <1>4, <3>1 DEF OpsInv
    <3>. QED
      BY <3>1, <3>2
  <2>. QED
    BY <1>4, <2>1
<1>. QED
  BY <1>1, <1>4, <1>5, <1>6, OpsKept

\* The chain is left as it is.
LEMMA OpsStill ==
  ASSUME PrepType, OpsInv, chain' = chain,
         running' => running \/ (chain # <<>> /\ Head(chain).kind \in {"commit", "append"}),
         \A c \in Callers : Attends(c),
         entry.phase = "loading" => entry'.phase = "loading"
  PROVE  OpsInv'
<1>1. Embeds(Same)
  BY StillEmbeds
<1>2. \A i \in DOMAIN chain' : Same[i] = i /\ chain'[i] = chain[i] /\ i \in DOMAIN chain
  BY DEF Same
<1>3. ASSUME NEW i \in DOMAIN chain', NEW c \in Callers \cap chain'[i].for,
             chain'[i].kind \in {"load"} \cup CallKinds
      PROVE  call'[c].at = call[c].at /\ (call'[c].mine => call[c].mine)
  <2>1. call[c].at \in {"loading"} \cup CallKinds
    <3>1. /\ chain[i].kind = "load" => call[c].at = "loading"
          /\ chain[i].kind \in CallKinds =>
               \E d \in Callers : chain[i].for = {d} /\ call[d].at = chain[i].kind
      BY <1>2 DEF OpsInv
    <3>. QED
      BY <1>2, <1>3, <3>1
  <2>2. Attends(c)
    OBVIOUS
  <2>. QED
    BY <2>1, <2>2 DEF Attends
<1>4. \A i \in DOMAIN chain' : chain'[i].current => entry'.phase = "loading"
  BY <1>2 DEF OpsInv
<1>5. running' => chain' # <<>> /\ Head(chain').kind \in {"commit", "append"}
  BY DEF OpsInv
<1>. QED
  BY <1>1, <1>2, <1>3, <1>4, <1>5, OpsKept

\* A call whose operation is withdrawn waits for no other.
LEMMA OpsCut ==
  ASSUME PrepType, OpsInv, NEW k \in DOMAIN chain, NEW c \in Callers,
         chain[k].kind \in CallKinds, chain[k].for = {c}, chain' = RemoveAt(chain, k),
         running' => running /\ k # 1,
         \A d \in Callers \ {c} : Attends(d),
         entry.phase = "loading" => entry'.phase = "loading"
  PROVE  OpsInv'
<1>1. /\ Embeds(Past(k))
      /\ \A i \in DOMAIN chain' : Past(k)[i] # k /\ chain'[i] = chain[Past(k)[i]]
  BY CutEmbeds
<1>2. \A i \in DOMAIN chain' : Past(k)[i] \in DOMAIN chain
  BY <1>1 DEF Embeds
<1>3. ASSUME NEW i \in DOMAIN chain', NEW d \in Callers \cap chain'[i].for,
             chain'[i].kind \in {"load"} \cup CallKinds
      PROVE  call'[d].at = call[d].at /\ (call'[d].mine => call[d].mine)
  <2>. DEFINE j == Past(k)[i]
  <2>1. j \in DOMAIN chain /\ j # k /\ chain'[i] = chain[j]
    BY <1>1, <1>2
  <2>. HIDE DEF j
  <2>2. chain[k].for \cap chain[j].for = {}
    BY <1>3, <2>1, Apart
  <2>3. d # c
    BY <2>1, <2>2
  <2>4. call[d].at \in {"loading"} \cup CallKinds
    <3>1. /\ chain[j].kind = "load" => call[d].at = "loading"
          /\ chain[j].kind \in CallKinds =>
               \E e \in Callers : chain[j].for = {e} /\ call[e].at = chain[j].kind
      BY <1>3, <2>1 DEF OpsInv
    <3>. QED
      BY <1>3, <2>1, <3>1
  <2>5. Attends(d)
    BY <2>3
  <2>. QED
    BY <2>4, <2>5 DEF Attends
<1>4. \A i \in DOMAIN chain' : chain'[i].current => entry'.phase = "loading"
  BY <1>1, <1>2 DEF OpsInv
<1>5. ASSUME running'
      PROVE  chain' # <<>> /\ Head(chain').kind \in {"commit", "append"}
  <2>1. /\ chain # <<>> /\ Head(chain).kind \in {"commit", "append"}
        /\ k # 1 /\ Len(chain) \in Nat /\ DOMAIN chain = 1 .. Len(chain)
    BY <1>5 DEF OpsInv, PrepType
  <2>2. /\ Len(chain') = Len(chain) - 1 /\ chain' \in Seq(OpType)
        /\ \A i \in 1 .. Len(chain) - 1 : chain'[i] = chain[IF i < k THEN i ELSE i + 1]
    BY RemoveAtValue DEF PrepType
  <2>3. k > 1 /\ Len(chain) > 1 /\ 1 \in 1 .. Len(chain) - 1
    BY <2>1
  <2>4. chain'[1] = chain[1]
    BY <2>2, <2>3
  <2>5. chain' # <<>> /\ Head(chain') = chain'[1]
    BY <2>2, <2>3
  <2>6. Head(chain) = chain[1]
    BY <2>1 DEF PrepType
  <2>. QED
    BY <2>1, <2>4, <2>5, <2>6
<1>. QED
  BY <1>1, <1>3, <1>4, <1>5, OpsKept

\* A call joins a read, and waits for it alone.
LEMMA OpsShared ==
  ASSUME PrepType, OpsInv, NEW c \in Callers, Shares(c), Enters(c), running' = running
  PROVE  OpsInv'
<1>1. /\ Len(chain') = Len(chain) /\ entry' = entry /\ entry.phase = "loading"
      /\ chain' \in Seq(OpType) /\ Len(chain) \in Nat
      /\ DOMAIN chain' = DOMAIN chain /\ DOMAIN chain = 1 .. Len(chain)
      /\ call'[c].at = "loading" /\ Others(c)
      /\ call[c].at \in {"idle", "begin", "retirement"}
  BY DEF Shares, Enters, PrepType
<1>2. ASSUME NEW i \in DOMAIN chain
      PROVE  /\ chain'[i].kind = chain[i].kind /\ chain'[i].current = chain[i].current
             /\ chain'[i].for = IF chain[i].kind = "load" /\ chain[i].current
                                THEN chain[i].for \cup {c} ELSE chain[i].for
             /\ chain[i].kind \in {"load"} \cup CallKinds => c \notin chain[i].for
  <2>1. /\ chain[i].kind = "load" => \A d \in chain[i].for : call[d].at = "loading"
        /\ chain[i].kind \in CallKinds =>
             \E d \in Callers : chain[i].for = {d} /\ call[d].at = chain[i].kind
    BY DEF OpsInv
  <2>. QED
    BY <1>1, <2>1 DEF Shares, Kept, CallKinds
<1>3. ASSUME NEW i \in DOMAIN chain
      PROVE  /\ chain'[i].kind = "load" =>
                  /\ chain'[i].for \subseteq Callers
                  /\ \A d \in chain'[i].for :
                       call'[d].at = "loading" /\ (call'[d].mine => chain'[i].current)
             /\ chain'[i].kind \in CallKinds =>
                  \E d \in Callers : chain'[i].for = {d} /\ call'[d].at = chain'[i].kind
             /\ chain'[i].kind \in SessionKinds => \E s \in Sessions : chain'[i].for = {s}
             /\ chain'[i].current => chain'[i].kind = "load" /\ entry'.phase = "loading"
  <2>1. CASE chain[i].kind = "load"
    <3>1. /\ chain[i].for \subseteq Callers
          /\ \A d \in chain[i].for :
               call[d].at = "loading" /\ (call[d].mine => chain[i].current)
      BY <2>1 DEF OpsInv
    <3>2. \A d \in chain[i].for : call'[d] = call[d]
      BY <1>2, <2>1, <3>1, <1>1 DEF Others
    <3>3. "load" \notin CallKinds \cup SessionKinds
      BY DEF CallKinds, SessionKinds, RegKinds
    <3>4. entry'.phase = "loading" /\ chain'[i].kind = "load"
      BY <1>1, <1>2, <2>1
    <3>5. CASE chain[i].current
      <4>1. chain'[i].for = chain[i].for \cup {c} /\ chain'[i].current
        BY <1>2, <2>1, <3>5
      <4>2. chain'[i].for \subseteq Callers
        BY <3>1, <4>1
      <4>3. \A d \in chain'[i].for : call'[d].at = "loading"
        BY <1>1, <3>1, <3>2, <4>1
      <4>. QED
        BY <3>3, <3>4, <4>1, <4>2, <4>3
    <3>6. CASE ~ chain[i].current
      <4>1. chain'[i].for = chain[i].for /\ ~ chain'[i].current
        BY <1>2, <3>6
      <4>2. \A d \in chain'[i].for : call'[d].at = "loading" /\ ~ call'[d].mine
        BY <3>1, <3>2, <3>6, <4>1
      <4>. QED
        BY <3>1, <3>3, <3>4, <4>1, <4>2
    <3>. QED
      BY <3>5, <3>6
  <2>2. CASE chain[i].kind \in CallKinds
    <3>1. PICK d \in Callers : chain[i].for = {d} /\ call[d].at = chain[i].kind
      BY <2>2 DEF OpsInv
    <3>2. call'[d] = call[d]
      BY <1>1, <1>2, <2>2, <3>1 DEF Others
    <3>3. chain[i].kind \notin {"load"} \cup SessionKinds
      BY <2>2 DEF CallKinds, SessionKinds, RegKinds
    <3>4. ~ chain[i].current
      BY <3>3 DEF OpsInv
    <3>. QED
      BY <1>1, <1>2, <2>2, <3>1, <3>2, <3>3, <3>4
  <2>3. CASE chain[i].kind \notin {"load"} \cup CallKinds
    <3>1. /\ chain[i].kind \in SessionKinds => \E s \in Sessions : chain[i].for = {s}
          /\ ~ chain[i].current
      BY <2>3 DEF OpsInv
    <3>. QED
      BY <1>2, <2>3, <3>1
  <2>. QED
    BY <2>1, <2>2, <2>3
<1>4. ASSUME NEW i \in DOMAIN chain, NEW j \in DOMAIN chain, i # j
      PROVE  /\ ~ (chain'[i].current /\ chain'[j].current)
             /\ chain'[i].kind = "load" /\ chain'[j].kind = "load" =>
                  chain'[i].for \cap chain'[j].for = {}
             /\ chain'[i].kind \in CallKinds /\ chain'[j].kind = chain'[i].kind =>
                  chain'[i].for # chain'[j].for
  <2>1. /\ ~ (chain[i].current /\ chain[j].current)
        /\ chain[i].kind = "load" /\ chain[j].kind = "load" =>
             chain[i].for \cap chain[j].for = {}
        /\ chain[i].kind \in CallKinds /\ chain[j].kind = chain[i].kind =>
             chain[i].for # chain[j].for
    BY <1>4 DEF OpsInv
  <2>2. ~ (chain'[i].current /\ chain'[j].current)
    BY <1>2, <2>1
  <2>3. chain'[i].kind = "load" /\ chain'[j].kind = "load" =>
          chain'[i].for \cap chain'[j].for = {}
    BY <1>2, <2>1
  <2>4. chain'[i].kind \in CallKinds => chain'[i].for = chain[i].for
    BY <1>2 DEF CallKinds
  <2>. QED
    BY <1>2, <2>1, <2>2, <2>3, <2>4
<1>5. ASSUME running'
      PROVE  chain' # <<>> /\ Head(chain').kind \in {"commit", "append"}
  <2>1. chain # <<>> /\ Head(chain).kind \in {"commit", "append"}
    BY <1>5 DEF OpsInv
  <2>2. Len(chain) # 0 /\ 1 \in DOMAIN chain /\ Head(chain) = chain[1]
    BY <1>1, <2>1 DEF PrepType
  <2>3. chain' # <<>> /\ Head(chain') = chain'[1]
    BY <1>1, <2>2
  <2>. QED
    BY <1>2, <2>1, <2>2, <2>3
<1>. QED
  BY <1>1, <1>3, <1>4, <1>5 DEF OpsInv

\* A call that gives up a read leaves its operation to the others.
LEMMA OpsLeft ==
  ASSUME PrepType, OpsInv, NEW c \in Callers, StopsReading(c), chain' \in Seq(OpType),
         running' = running
  PROVE  OpsInv'
<1>1. /\ Len(chain') = Len(chain) /\ Left({c}) /\ call[c].at = "loading"
      /\ Len(chain) \in Nat /\ DOMAIN chain' = DOMAIN chain /\ DOMAIN chain = 1 .. Len(chain)
  BY DEF StopsReading, PrepType
<1>2. ASSUME NEW i \in DOMAIN chain
      PROVE  /\ chain'[i].kind = chain[i].kind /\ chain'[i].current = chain[i].current
             /\ chain'[i].n = chain[i].n /\ chain'[i].for = chain[i].for \ {c}
             /\ chain[i].kind # "load" => chain'[i].for = chain[i].for
  <2>1. chain[i] \in OpType /\ chain'[i] = [chain[i] EXCEPT !.for = chain[i].for \ {c}]
    BY DEF StopsReading, PrepType
  <2>2. /\ chain'[i].kind = chain[i].kind /\ chain'[i].current = chain[i].current
        /\ chain'[i].n = chain[i].n /\ chain'[i].for = chain[i].for \ {c}
    BY <2>1 DEF OpType
  <2>3. ASSUME chain[i].kind # "load" PROVE c \notin chain[i].for
    <3>1. chain[i].kind \in CallKinds \/ chain[i].kind \in SessionKinds
      BY <2>1, <2>3 DEF OpType
    <3>2. CASE chain[i].kind \in CallKinds
      <4>1. \E d \in Callers : chain[i].for = {d} /\ call[d].at = chain[i].kind
        BY <3>2 DEF OpsInv
      <4>. QED
        BY <1>1, <3>2, <4>1 DEF CallKinds
    <3>3. CASE chain[i].kind \in SessionKinds
      <4>1. \E s \in Sessions : chain[i].for = {s}
        BY <3>3 DEF OpsInv
      <4>. QED
        BY <4>1, ApartAssumption
    <3>. QED
      BY <3>1, <3>2, <3>3
  <2>. QED
    BY <2>2, <2>3
<1>3. Embeds(Same)
  BY <1>1, <1>2, SameEmbeds DEF Kept
<1>4. \A i \in DOMAIN chain' : Same[i] = i
  BY <1>1 DEF Same
<1>5. ASSUME NEW i \in DOMAIN chain', NEW d \in Callers \cap chain'[i].for,
             chain'[i].kind \in {"load"} \cup CallKinds
      PROVE  call'[d].at = call[d].at /\ (call'[d].mine => call[d].mine)
  <2>1. d # c
    BY <1>1, <1>2
  <2>. QED
    BY <1>1, <2>1 DEF Left
<1>6. \A i \in DOMAIN chain' : chain'[i].current => entry'.phase = "loading"
  BY <1>1, <1>2 DEF OpsInv, Left
<1>7. ASSUME running'
      PROVE  chain' # <<>> /\ Head(chain').kind \in {"commit", "append"}
  <2>1. chain # <<>> /\ Head(chain).kind \in {"commit", "append"}
    BY <1>7 DEF OpsInv
  <2>2. Len(chain) # 0 /\ 1 \in DOMAIN chain /\ Head(chain) = chain[1]
    BY <1>1, <2>1 DEF PrepType
  <2>3. chain' # <<>> /\ Head(chain') = chain'[1]
    BY <1>1, <2>2
  <2>. QED
    BY <1>2, <2>1, <2>2, <2>3
<1>8. \A i \in DOMAIN chain' :
        /\ chain'[i].for \subseteq chain[Same[i]].for
        /\ chain[Same[i]].current => chain'[i].current
  BY <1>1, <1>2, <1>4
<1>. QED
  BY <1>3, <1>5, <1>6, <1>7, <1>8, OpsKept

\* Every operation stays that of calls that wait for it, or of one Session.
LEMMA OpsInvStep ==
  ASSUME IInv, [Next]_vars
  PROVE  OpsInv'
<1>. USE DEF IInv
<1>1. Types /\ LiveType /\ PrepType /\ DiskType
  BY DEF Types
<1>2. ASSUME NEW op \in OpType, Queue(op), running' = running, ~ op.current,
             \A c \in Callers : Attends(c),
             \A i \in DOMAIN chain : chain[i].current => entry'.phase = "loading",
             op.kind \in SessionKinds /\ \E s \in Sessions : op.for = {s}
      PROVE  OpsInv'
  BY <1>1, <1>2, OpsQueued DEF Attends
<1>3. \A i \in DOMAIN chain : chain[i].current => entry.phase = "loading"
  BY DEF OpsInv
<1>4. CASE LoadRuns
  <2>1. /\ chain # <<>> /\ chain[1].kind = "load" /\ Dequeued /\ running' = FALSE
        /\ \A d \in Callers : d \notin chain[1].for => Stays(d)
        /\ chain[1].current \/ entry' = entry
    BY <1>1, <1>4, LoadRunsFacts
  <2>2. \A d \in Callers : d \notin chain[1].for => Attends(d)
    BY <2>1, AttendFacts
  <2>3. chain[1].kind \notin SessionKinds
    BY <2>1 DEF SessionKinds, RegKinds
  <2>. QED
    BY <1>1, <2>1, <2>2, <2>3, OpsDone
<1>5. CASE CommitRuns
  <2>1. /\ chain # <<>> /\ chain[1].kind = "commit"
        /\ Caller \in Callers /\ chain[1].for = {Caller} /\ call[Caller].at = "commit"
        /\ GivesUp(Caller) \/ Repairs(Caller) \/ Succeeds(Caller)
    BY <1>1, <1>5, CommitRunsFacts
  <2>2. call[Caller].mine => entry.phase # "loading"
    BY <2>1 DEF EntryInv
  <2>3. chain[1].kind \notin SessionKinds
    BY <2>1 DEF SessionKinds, RegKinds
  <2>4. CASE GivesUp(Caller)
    <3>1. /\ Dequeued /\ running' = FALSE
          /\ \A d \in Callers : d # Caller => Attends(d)
      BY <2>4, AttendFacts DEF GivesUp
    <3>2. entry'.phase = "loading" \/ entry.phase # "loading"
      BY <2>2, <2>4 DEF GivesUp, Left
    <3>. QED
      BY <1>1, <2>1, <2>3, <3>1, <3>2, OpsDone
  <2>5. CASE Repairs(Caller)
    <3>1. /\ chain' = chain /\ entry' = entry /\ \A d \in Callers : Attends(d)
      BY <2>5, AttendFacts DEF Repairs
    <3>2. Head(chain).kind \in {"commit", "append"}
      BY <1>1, <2>1, HeadFacts
    <3>. QED
      BY <1>1, <2>1, <3>1, <3>2, OpsStill
  <2>6. CASE Succeeds(Caller)
    <3>1. /\ Dequeued /\ running' = FALSE
          /\ \A d \in Callers : d # Caller => Attends(d)
      <4>1. Removed({Caller}) \/ Others(Caller) \/ Readied(entry.source, {Caller})
        BY <2>6 DEF Succeeds, Holds
      <4>2. Dequeued /\ running' = FALSE
        BY <2>6 DEF Succeeds
      <4>3. Removed({Caller}) => \A d \in Callers : d # Caller => Attends(d)
        BY AttendFacts
      <4>4. Readied(entry.source, {Caller}) => \A d \in Callers : d # Caller => Attends(d)
        BY AttendFacts
      <4>5. Others(Caller) => \A d \in Callers : d # Caller => Attends(d)
        BY AttendFacts DEF Others, Attends
      <4>. QED
        BY <4>1, <4>2, <4>3, <4>4, <4>5
    <3>2. entry.phase # "loading"
      BY <2>2, <2>6 DEF Succeeds
    <3>. QED
      BY <1>1, <2>1, <2>3, <3>1, <3>2, OpsDone
  <2>. QED
    BY <2>1, <2>4, <2>5, <2>6
<1>6. CASE RepairSettles
  <2>1. /\ chain # <<>> /\ chain[1].kind = "commit" /\ running
        /\ Caller \in Callers /\ chain[1].for = {Caller} /\ call[Caller].at = "commit"
        /\ Removed({Caller}) /\ Dequeued /\ running' = FALSE
    BY <1>1, <1>6, RepairSettlesFacts
  <2>2. \A d \in Callers : d # Caller => Attends(d)
    BY <2>1, AttendFacts
  <2>3. chain[1].kind \notin SessionKinds
    BY <2>1 DEF SessionKinds, RegKinds
  <2>4. call[Caller].mine
    BY <1>1, <2>1, HeadFacts DEF RunInv
  <2>5. entry.phase # "loading"
    BY <2>1, <2>4 DEF EntryInv
  <2>. QED
    BY <1>1, <2>1, <2>2, <2>3, <2>5, OpsDone
<1>7. CASE CheckRuns
  <2>1. /\ chain # <<>> /\ chain[1].kind = "check"
        /\ Caller \in Callers /\ chain[1].for = {Caller} /\ call[Caller].at = "check"
        /\ Dequeued /\ running' = FALSE
        /\ Left({Caller}) \/ (call[Caller].mine /\ Writable /\ Removed({Caller}))
    BY <1>1, <1>7, CheckRunsFacts
  <2>2. \A d \in Callers : d # Caller => Attends(d)
    BY <2>1, AttendFacts
  <2>3. chain[1].kind \notin SessionKinds
    BY <2>1 DEF SessionKinds, RegKinds
  <2>4. call[Caller].mine => entry.phase # "loading"
    BY <2>1 DEF EntryInv
  <2>5. entry'.phase = "loading" \/ entry.phase # "loading"
    BY <2>1, <2>4 DEF Left
  <2>. QED
    BY <1>1, <2>1, <2>2, <2>3, <2>5, OpsDone
<1>8. ASSUME chain # <<>>, chain[1].kind \in SessionKinds,
             Rests \/ Clears \/ (\E s \in Sessions : WriteFails(s))
      PROVE  OpsInv'
  <2>1. CASE Rests
    <3>1. /\ Dequeued /\ running' = FALSE /\ entry' = entry /\ \A c \in Callers : Attends(c)
      BY <2>1, AttendFacts DEF Rests
    <3>. QED
      BY <1>1, <1>8, <3>1, OpsDone
  <2>2. CASE Clears
    <3>1. /\ Emptied /\ running' = FALSE /\ \A c \in Callers : Attends(c)
          /\ \A c \in Callers : ~ call'[c].mine
          /\ entry'.phase # "loading"
      BY <2>2, AttendFacts DEF Clears, Removed, NoEntry
    <3>. QED
      BY <1>1, <1>8, <3>1, OpsDone
  <2>3. CASE \E s \in Sessions : WriteFails(s)
    <3>1. PICK s \in Sessions : WriteFails(s)
      BY <2>3
    <3>2. Left(Flushing(s)) /\ Dequeued /\ running' = FALSE /\ entry' = entry
      BY <3>1 DEF WriteFails, Left
    <3>3. ASSUME NEW c \in Callers PROVE Attends(c)
      <4>1. CASE c \in Flushing(s)
        BY <4>1, AttendFacts DEF Flushing, CallKinds
      <4>2. CASE c \notin Flushing(s)
        BY <3>2, <4>2, AttendFacts
      <4>. QED
        BY <4>1, <4>2
    <3>. QED
      BY <1>1, <1>8, <3>2, <3>3, OpsDone
  <2>. QED
    BY <1>8, <2>1, <2>2, <2>3
<1>9. CASE InitRuns
  <2>1. PICK s \in Sessions, n \in Nat :
          /\ chain # <<>> /\ OpOf(chain[1], "init", s)
          /\ InitRefused(s) \/ InitClaims(s, n) \/ InitWrites(s, n)
    BY <1>1, <1>9, InitRunsFacts
  <2>2. Rests \/ Clears
    BY <2>1 DEF InitRefused, InitClaims, InitWrites
  <2>3. chain[1].kind \in SessionKinds
    BY <2>1 DEF OpOf, SessionKinds, RegKinds
  <2>. QED
    BY <1>8, <2>1, <2>2, <2>3
<1>10. CASE SuffixRuns
  <2>1. PICK s \in Sessions :
          /\ chain # <<>> /\ OpOf(chain[1], "suffix", s)
          /\ SuffixFails(s) \/ SuffixWrites(s)
    BY <1>1, <1>10, SuffixRunsFacts
  <2>2. Rests \/ Clears
    BY <2>1 DEF SuffixFails, SuffixWrites
  <2>3. chain[1].kind \in SessionKinds
    BY <2>1 DEF OpOf, SessionKinds, RegKinds
  <2>. QED
    BY <1>8, <2>1, <2>2, <2>3
<1>11. CASE WriteRuns
  <2>1. PICK s \in Sessions, n \in Nat :
          /\ chain # <<>> /\ OpOf(chain[1], "write", s)
          /\ WriteSkips(s, n) \/ WriteStores(s, n) \/ WriteFails(s)
    BY <1>1, <1>11, WriteRunsFacts
  <2>2. Rests \/ Clears \/ WriteFails(s)
    BY <2>1 DEF WriteSkips, WriteStores
  <2>3. chain[1].kind \in SessionKinds
    BY <2>1 DEF OpOf, SessionKinds, RegKinds
  <2>. QED
    BY <1>8, <2>1, <2>2, <2>3
<1>12. CASE ReleaseRuns
  <2>1. PICK s \in Sessions : chain # <<>> /\ OpOf(chain[1], "release", s) /\ Rests
    BY <1>1, <1>12, ReleaseRunsFacts
  <2>2. chain[1].kind \in SessionKinds
    BY <2>1 DEF OpOf, SessionKinds, RegKinds
  <2>. QED
    BY <1>8, <2>1, <2>2
<1>13. CASE AppendStarts
  <2>1. /\ chain # <<>> /\ chain[1].kind = "append"
        /\ Caller \in Callers /\ chain[1].for = {Caller} /\ call[Caller].at = "append"
        /\ \/ /\ running' = TRUE /\ chain' = chain
              /\ (entry' = entry /\ call' = call) \/ (entry.phase = "ready" /\ Removed({}))
           \/ /\ running' = FALSE /\ Dequeued
              /\ Left({Caller}) \/ (entry.phase = "ready" /\ Removed({Caller}))
    BY <1>1, <1>13, AppendStartsFacts
  <2>2. Head(chain).kind \in {"commit", "append"}
    BY <1>1, <2>1, HeadFacts
  <2>3. chain[1].kind \notin SessionKinds
    BY <2>1 DEF SessionKinds, RegKinds
  <2>4. CASE running' = TRUE
    <3>1. chain' = chain /\ \A c \in Callers : Attends(c)
      BY <2>1, <2>4, AttendFacts
    <3>2. entry' = entry \/ entry.phase = "ready"
      BY <2>1, <2>4
    <3>3. entry.phase = "loading" => entry'.phase = "loading"
      BY <3>2
    <3>. QED
      BY <1>1, <2>1, <2>2, <3>1, <3>3, OpsStill
  <2>5. CASE running' = FALSE
    <3>1. Dequeued /\ \A c \in Callers : c # Caller => Attends(c)
      BY <2>1, <2>5, AttendFacts
    <3>2. entry'.phase = "loading" \/ entry.phase # "loading"
      BY <2>1, <2>5 DEF Left
    <3>. QED
      BY <1>1, <2>1, <2>3, <2>5, <3>1, <3>2, OpsDone
  <2>. QED
    BY <2>1, <2>4, <2>5
<1>14. CASE AppendSettles
  <2>1. /\ chain # <<>> /\ chain[1].kind = "append" /\ running' = FALSE
        /\ Caller \in Callers /\ chain[1].for = {Caller} /\ call[Caller].at = "append"
        /\ (Emptied /\ Removed({Caller})) \/ (Dequeued /\ Left({Caller}))
    BY <1>1, <1>14, AppendSettlesFacts
  <2>2. \A c \in Callers : c # Caller => Attends(c)
    BY <2>1, AttendFacts
  <2>3. chain[1].kind \notin SessionKinds
    BY <2>1 DEF SessionKinds, RegKinds
  <2>4. CASE Emptied /\ Removed({Caller})
    <3>1. \A c \in Callers : ~ call'[c].mine
      BY <2>4 DEF Removed
    <3>. QED
      BY <1>1, <2>1, <2>2, <2>3, <2>4, <3>1, OpsDone
  <2>5. CASE Dequeued /\ Left({Caller})
    <3>1. entry'.phase = "loading" \/ entry.phase # "loading"
      BY <2>5 DEF Left
    <3>. QED
      BY <1>1, <2>1, <2>2, <2>3, <2>5, <3>1, OpsDone
  <2>. QED
    BY <2>1, <2>4, <2>5
<1>15. ASSUME NEW c \in Callers, Call(c) \/ Again(c) \/ RetirementSettled(c)
       PROVE  OpsInv'
  <2>1. Enters(c) /\ running' = running
    BY <1>1, <1>15, EnteringSteps
  <2>2. /\ Others(c) /\ call[c].at \in {"idle", "begin", "retirement"}
        /\ Apart1(c) \/ Opens(c) \/ Shares(c) \/ Finds(c)
    BY <2>1 DEF Enters
  <2>3. call[c].at \notin {"loading"} \cup CallKinds
    BY <2>2 DEF CallKinds
  <2>4. \A d \in Callers : Attends(d)
    BY <2>2, <2>3, AttendFacts
  <2>5. CASE Apart1(c) \/ Finds(c)
    <3>1. chain' = chain /\ entry' = entry
      BY <2>5 DEF Apart1, Finds
    <3>. QED
      BY <1>1, <2>1, <2>4, <3>1, OpsStill DEF OpsInv
  <2>6. CASE Opens(c)
    <3>. DEFINE op == Op("load", {c}, 0, TRUE)
    <3>1. /\ op \in OpType /\ op.kind = "load" /\ op.current /\ op.for = {c}
      BY DEF Op, OpType
    <3>2. /\ Queue(op) /\ entry.phase = "none" /\ entry'.phase = "loading"
          /\ call'[c].at = "loading"
      BY <2>6 DEF Opens
    <3>. HIDE DEF op
    <3>. QED
      BY <1>1, <2>1, <2>3, <2>4, <3>1, <3>2, OpsQueued DEF Attends
  <2>7. CASE Shares(c)
    BY <1>1, <2>1, <2>7, OpsShared
  <2>. QED
    BY <2>2, <2>5, <2>6, <2>7
<1>16. ASSUME NEW c \in Callers, NEW kind \in CallKinds, running' = running,
              Queue(Op(kind, {c}, 0, FALSE)) \/ Queue(Op(kind, {c}, Len(store), FALSE)),
              call[c].at \notin {"loading"} \cup CallKinds, Others(c),
              call'[c].at = kind, entry.phase = "loading" => entry'.phase = "loading"
       PROVE  OpsInv'
  <2>1. Len(store) \in Nat
    BY <1>1 DEF DiskType
  <2>2. PICK n \in Nat : Queue(Op(kind, {c}, n, FALSE))
    BY <1>16, <2>1
  <2>. DEFINE op == Op(kind, {c}, n, FALSE)
  <2>3. op \in OpType /\ op.kind = kind /\ ~ op.current /\ op.for = {c}
    BY DEF Op, OpType
  <2>4. Queue(op)
    BY <2>2
  <2>. HIDE DEF op
  <2>5. \A d \in Callers : Attends(d)
    BY <1>16, AttendFacts
  <2>. QED
    BY <1>1, <1>3, <1>16, <2>3, <2>4, <2>5, OpsQueued DEF Attends
<1>17. ASSUME NEW c \in Callers, AppendCalled(c)
       PROVE  OpsInv'
  <2>1. /\ Others(c) /\ call[c].at = "idle" /\ call'[c].at = "append"
        /\ Queue(Op("append", {c}, Len(store), FALSE))
        /\ entry' = entry /\ running' = running
    BY <1>1, <1>17, AppendCalledFacts
  <2>2. "append" \in CallKinds /\ call[c].at \notin {"loading"} \cup CallKinds
    BY <2>1 DEF CallKinds
  <2>. QED
    BY <1>16, <2>1, <2>2
<1>18. ASSUME NEW c \in Callers, ReadDone(c)
       PROVE  OpsInv'
  <2>1. /\ Others(c) /\ call[c].at = "loaded" /\ running' = running
        /\ (Left({c}) /\ chain' = chain) \/ Checks(c) \/ Commits(c) \/ Waits(c)
    BY <1>1, <1>18, ReadDoneFacts
  <2>2. call[c].at \notin {"loading"} \cup CallKinds
    BY <2>1 DEF CallKinds
  <2>3. CASE (Left({c}) /\ chain' = chain) \/ Waits(c)
    <3>1. chain' = chain /\ entry' = entry /\ \A d \in Callers : Attends(d)
      BY <2>1, <2>2, <2>3, AttendFacts DEF Left, Waits
    <3>. QED
      BY <1>1, <2>1, <3>1, OpsStill
  <2>4. CASE Checks(c)
    <3>1. Queue(Op("check", {c}, 0, FALSE)) /\ entry' = entry /\ call'[c].at = "check"
      BY <2>4 DEF Checks
    <3>2. "check" \in CallKinds
      BY DEF CallKinds
    <3>. QED
      BY <1>16, <2>1, <2>2, <3>1, <3>2
  <2>5. CASE Commits(c)
    <3>1. /\ Queue(Op("commit", {c}, 0, FALSE)) /\ entry.phase = "ready"
          /\ call'[c].at = "commit"
      BY <2>5 DEF Commits
    <3>2. "commit" \in CallKinds
      BY DEF CallKinds
    <3>. QED
      BY <1>16, <2>1, <2>2, <3>1, <3>2
  <2>. QED
    BY <2>1, <2>3, <2>4, <2>5
<1>19. ASSUME NEW c \in Callers, FlushReturns(c)
       PROVE  OpsInv'
  <2>1. Left({c}) /\ call[c].at = "flush" /\ UNCHANGED <<chain, running>>
    BY <1>1, <1>19, FlushReturnsFacts
  <2>2. entry' = entry /\ \A d \in Callers : Attends(d)
    BY <2>1, AttendFacts DEF Left, CallKinds
  <2>. QED
    BY <1>1, <2>1, <2>2, OpsStill
<1>20. ASSUME NEW c \in Callers, Extend(c)
       PROVE  OpsInv'
  <2>1. /\ Others(c) /\ call[c].at = "held" /\ entry' = entry
        /\ UNCHANGED <<chain, running>>
    BY <1>1, <1>20, ExtendFacts
  <2>2. \A d \in Callers : Attends(d)
    BY <2>1, AttendFacts DEF CallKinds
  <2>. QED
    BY <1>1, <2>1, <2>2, OpsStill
<1>21. ASSUME NEW c \in Callers, Release(c)
       PROVE  OpsInv'
  <2>1. call[c].mine /\ entry.phase = "reserved"
    BY <1>21 DEF EntryInv, Release
  <2>2. /\ call[c].at = "held"
        /\ Readied(entry.source, {c}) \/ Removed({c})
        /\ UNCHANGED <<chain, running>>
    BY <1>1, <1>21, <2>1, ReleaseFacts
  <2>3. \A d \in Callers : Attends(d)
    BY <2>2, AttendFacts DEF CallKinds
  <2>. QED
    BY <1>1, <2>1, <2>2, <2>3, OpsStill
<1>22. ASSUME NEW c \in Callers, Abort(c)
       PROVE  OpsInv'
  <2>1. /\ chain' \in Seq(OpType)
        /\ Leaves(c) \/ StopsReading(c) \/ Withdraws(c)
        /\ running' = running
    BY <1>1, <1>22, AbortFacts
  <2>2. CASE Leaves(c)
    <3>1. /\ chain' = chain /\ entry' = entry
          /\ \A d \in Callers : Attends(d)
      BY <2>2, AttendFacts DEF Leaves, CallKinds, Left
    <3>. QED
      BY <1>1, <2>1, <3>1, OpsStill
  <2>3. CASE StopsReading(c)
    BY <1>1, <2>1, <2>3, OpsLeft
  <2>4. CASE Withdraws(c)
    <3>1. PICK k \in DOMAIN chain : /\ chain[k].kind \in {"commit", "check"}
                                    /\ chain[k].for = {c} /\ chain' = RemoveAt(chain, k)
      BY <2>4 DEF Withdraws
    <3>2. \A d \in Callers \ {c} : Attends(d)
      BY <2>4, AttendFacts DEF Withdraws
    <3>3. entry.phase = "loading" => entry'.phase = "loading"
      BY <2>4 DEF Withdraws, Left, EntryInv
    <3>4. running' => running /\ k # 1
      <4>1. ASSUME running PROVE k # 1
        <5>1. chain # <<>> /\ Head(chain).for # {c}
          BY <2>4, <4>1 DEF Withdraws, OpsInv
        <5>2. Head(chain) = chain[1]
          BY <1>1, <5>1, HeadFacts
        <5>. QED
          BY <3>1, <5>1, <5>2
      <4>. QED
        BY <2>1, <4>1
    <3>5. chain[k].kind \in CallKinds
      BY <3>1 DEF CallKinds
    <3>. QED
      BY <1>1, <3>1, <3>2, <3>3, <3>4, <3>5, OpsCut
  <2>. QED
    BY <2>1, <2>2, <2>3, <2>4
<1>23. ASSUME NEW c \in Callers, NEW s \in Sessions, Publish(c, s)
       PROVE  OpsInv'
  <2>1. call[c].mine /\ entry.phase = "reserved"
    BY <1>23 DEF EntryInv, Publish
  <2>2. /\ Removed({c}) /\ call[c].at = "held" /\ running' = running
        /\ Op("suffix", {s}, state.cursor, FALSE) \in OpType
        /\ Queue(Op("suffix", {s}, state.cursor, FALSE))
    BY <1>1, <1>23, <2>1, PublishFacts
  <2>. DEFINE op == Op("suffix", {s}, state.cursor, FALSE)
  <2>3. op \in OpType /\ Queue(op) /\ ~ op.current /\ op.kind \in SessionKinds /\ op.for = {s}
    BY <2>2 DEF Op, SessionKinds, RegKinds
  <2>. HIDE DEF op
  <2>4. \A d \in Callers : Attends(d)
    BY <2>2, AttendFacts DEF CallKinds
  <2>. QED
    BY <1>2, <1>3, <2>1, <2>2, <2>3, <2>4
<1>24. ASSUME NEW s \in Sessions, Create(s)
       PROVE  OpsInv'
  <2>1. /\ entry' = entry /\ call' = call /\ running' = running
        /\ \E log \in Seq(EventType) :
             /\ Op("init", {s}, Len(log), FALSE) \in OpType
             /\ Queue(Op("init", {s}, Len(log), FALSE))
    BY <1>1, <1>24, CreateFacts
  <2>2. PICK log \in Seq(EventType) :
          /\ Op("init", {s}, Len(log), FALSE) \in OpType
          /\ Queue(Op("init", {s}, Len(log), FALSE))
    BY <2>1
  <2>. DEFINE op == Op("init", {s}, Len(log), FALSE)
  <2>3. op \in OpType /\ Queue(op) /\ ~ op.current /\ op.kind \in SessionKinds /\ op.for = {s}
    BY <2>2 DEF Op, SessionKinds, RegKinds
  <2>. HIDE DEF op
  <2>4. \A d \in Callers : Attends(d)
    BY <2>1, AttendFacts
  <2>. QED
    BY <1>2, <1>3, <2>1, <2>3, <2>4
<1>25. ASSUME NEW s \in Sessions, StartWrite(s) \/ RetireFlushed(s)
       PROVE  OpsInv'
  <2>1. /\ entry' = entry /\ call' = call /\ running' = running
        /\ \/ Queue(Op("write", {s}, Len(events[s]), FALSE))
           \/ Queue(Op("release", {s}, 0, FALSE))
           \/ chain' = chain
    BY <1>25 DEF StartWrite, RetireFlushed
  <2>2. \A d \in Callers : Attends(d)
    BY <2>1, AttendFacts
  <2>3. CASE chain' = chain
    BY <1>1, <2>1, <2>2, <2>3, OpsStill
  <2>4. CASE chain' # chain
    <3>1. Len(events[s]) \in Nat
      BY <1>1 DEF LiveType
    <3>2. PICK n \in Nat, kind \in {"write", "release"} : Queue(Op(kind, {s}, n, FALSE))
      BY <2>1, <2>4, <3>1
    <3>. DEFINE op == Op(kind, {s}, n, FALSE)
    <3>3. /\ op \in OpType /\ Queue(op) /\ ~ op.current /\ op.kind \in SessionKinds
          /\ op.for = {s}
      BY <3>2 DEF Op, OpType, SessionKinds, RegKinds
    <3>. HIDE DEF op
    <3>. QED
      BY <1>2, <1>3, <2>1, <2>2, <3>3
  <2>. QED
    BY <2>3, <2>4
<1>26. ASSUME NEW s \in Sessions, Emit(s) \/ Dispose(s)
       PROVE  OpsInv'
  <2>1. UNCHANGED <<chain, entry, running, call>>
    BY <1>26 DEF Emit, Dispose
  <2>2. \A d \in Callers : Attends(d)
    BY <2>1, AttendFacts
  <2>. QED
    BY <1>1, <2>1, <2>2, OpsStill
<1>27. CASE Evict
  <2>1. entry.phase = "ready" /\ Removed({}) /\ UNCHANGED <<chain, running>>
    BY <1>1, <1>27, EvictFacts
  <2>2. \A d \in Callers : Attends(d)
    BY <2>1, AttendFacts
  <2>. QED
    BY <1>1, <2>1, <2>2, OpsStill
<1>28. CASE External \/ UNCHANGED vars
  <2>1. UNCHANGED <<chain, entry, running, call>>
    BY <1>28 DEF External, vars
  <2>2. \A d \in Callers : Attends(d)
    BY <2>1, AttendFacts
  <2>. QED
    BY <1>1, <2>1, <2>2, OpsStill
<1>. QED
  BY <1>4, <1>5, <1>6, <1>7, <1>9, <1>10, <1>11, <1>12, <1>13, <1>14, <1>15, <1>17, <1>18,
     <1>19, <1>20, <1>21, <1>22, <1>23, <1>24, <1>25, <1>26, <1>27, <1>28, Steps

-----------------------------------------------------------------------------
(* The steps that leave every Session as it is.                            *)

\* A quiet step moves no Session.
Quiet ==
  \/ LoadRuns \/ CommitRuns \/ RepairSettles \/ CheckRuns \/ AppendStarts \/ AppendSettles
  \/ \E c \in Callers :
       \/ Call(c) \/ Again(c) \/ RetirementSettled(c)
       \/ AppendCalled(c) \/ ReadDone(c) \/ FlushReturns(c)
       \/ Extend(c) \/ Release(c) \/ Abort(c)
  \/ External \/ Evict \/ UNCHANGED vars

\* The new chain holds the operations of the Sessions in their order, and no
\* other of that kind.
Lasting(f) ==
  /\ chain' \in Seq(OpType)
  /\ f \in [DOMAIN chain' -> Nat]
  /\ \A i, j \in DOMAIN chain' : i < j => f[i] < f[j]
  /\ \A i \in DOMAIN chain' : \/ f[i] \in DOMAIN chain /\ Kept(i, f[i])
                              \/ /\ f[i] = Len(chain) + 1
                                 /\ chain'[i].kind \notin SessionKinds
  /\ \A j \in DOMAIN chain :
       chain[j].kind \in SessionKinds => \E i \in DOMAIN chain' : f[i] = j

\* A chain that loses no operation of a Session lasts.
LEMMA LastingKept ==
  ASSUME PrepType, NEW f, Embeds(f),
         \A j \in DOMAIN chain :
           chain[j].kind \in SessionKinds => \E i \in DOMAIN chain' : f[i] = j
  PROVE  Lasting(f)
<1>1. DOMAIN chain \subseteq Nat
  BY DEF PrepType
<1>2. f \in [DOMAIN chain' -> Nat]
  BY <1>1 DEF Embeds
<1>3. \A i \in DOMAIN chain' : f[i] \in DOMAIN chain /\ Kept(i, f[i])
  BY DEF Embeds
<1>. QED
  BY <1>2, <1>3 DEF Embeds, Lasting

\* So does one whose head, of another kind, has run.
LEMMA LastingHead ==
  ASSUME PrepType, Dequeued \/ Emptied, chain[1].kind \notin SessionKinds
  PROVE  \E f : Lasting(f)
<1>1. /\ Embeds(Up)
      /\ \A j \in DOMAIN chain : j = 1 \/ \E i \in DOMAIN chain' : Up[i] = j
  BY UpEmbeds
<1>2. Lasting(Up)
  BY <1>1, LastingKept
<1>. QED
  BY <1>2

\* So does one that is not touched.
LEMMA LastingStill ==
  ASSUME PrepType, chain' = chain
  PROVE  \E f : Lasting(f)
<1>1. Embeds(Same) /\ \A j \in DOMAIN chain : \E i \in DOMAIN chain' : Same[i] = j
  BY StillEmbeds
<1>2. Lasting(Same)
  BY <1>1, LastingKept
<1>. QED
  BY <1>2

\* So does one that an operation of a call joins.
LEMMA LastingQueued ==
  ASSUME PrepType, NEW op \in OpType, Queue(op), op.kind \notin SessionKinds
  PROVE  \E f : Lasting(f)
<1>. DEFINE f == [i \in 1 .. Len(chain) + 1 |-> i]
<1>1. /\ chain' \in Seq(OpType) /\ Len(chain) \in Nat
      /\ DOMAIN chain = 1 .. Len(chain) /\ DOMAIN chain' = 1 .. Len(chain) + 1
      /\ chain'[Len(chain) + 1] = op
      /\ \A i \in DOMAIN chain : chain'[i] = chain[i]
  BY QueueFacts
<1>2. \A i \in DOMAIN chain' : f[i] = i
  BY <1>1
<1>3. f \in [DOMAIN chain' -> Nat]
  BY <1>1
<1>. HIDE DEF f
<1>4. ASSUME NEW i \in DOMAIN chain'
      PROVE  \/ f[i] \in DOMAIN chain /\ Kept(i, f[i])
             \/ f[i] = Len(chain) + 1 /\ chain'[i].kind \notin SessionKinds
  <2>1. i \in DOMAIN chain \/ i = Len(chain) + 1
    BY <1>1
  <2>2. CASE i \in DOMAIN chain
    BY <1>1, <1>2, <2>2 DEF Kept
  <2>3. CASE i = Len(chain) + 1
    BY <1>1, <1>2, <2>3
  <2>. QED
    BY <2>1, <2>2, <2>3
<1>5. \A j \in DOMAIN chain : j \in DOMAIN chain' /\ f[j] = j
  BY <1>1, <1>2
<1>6. \A i, j \in DOMAIN chain' : i < j => f[i] < f[j]
  BY <1>2
<1>7. Lasting(f)
  BY <1>1, <1>3, <1>4, <1>5, <1>6 DEF Lasting
<1>. QED
  BY <1>7

\* No step of a call or of another process drops or adds an operation of a Session.
LEMMA QuietChain ==
  ASSUME IInv, Quiet
  PROVE  \E f : Lasting(f)
<1>. USE DEF IInv
<1>1. Types /\ LiveType /\ PrepType /\ DiskType
  BY DEF Types
<1>2. ASSUME NEW kind \in {"load"} \cup CallKinds, NEW D \in SUBSET Callers, NEW n \in Nat,
             NEW b \in BOOLEAN, Queue(Op(kind, D, n, b))
      PROVE  \E f : Lasting(f)
  <2>. DEFINE op == Op(kind, D, n, b)
  <2>1. op \in OpType
    BY DEF Op, OpType
  <2>2. op.kind \notin SessionKinds /\ Queue(op)
    BY <1>2 DEF Op, CallKinds, SessionKinds, RegKinds
  <2>. HIDE DEF op
  <2>. QED
    BY <1>1, <2>1, <2>2, LastingQueued
<1>3. "load" \notin SessionKinds /\ \A kind \in CallKinds : kind \notin SessionKinds
  BY DEF CallKinds, SessionKinds, RegKinds
<1>4. CASE LoadRuns
  <2>1. chain[1].kind = "load" /\ Dequeued
    BY <1>1, <1>4, LoadRunsFacts
  <2>. QED
    BY <1>1, <1>3, <2>1, LastingHead
<1>5. CASE CommitRuns
  <2>1. chain[1].kind = "commit" /\ (Dequeued \/ chain' = chain)
    BY <1>1, <1>5, CommitRunsFacts DEF GivesUp, Repairs, Succeeds
  <2>2. "commit" \notin SessionKinds
    BY DEF SessionKinds, RegKinds
  <2>. QED
    BY <1>1, <2>1, <2>2, LastingHead, LastingStill
<1>6. CASE RepairSettles \/ CheckRuns
  <2>1. chain[1].kind \in {"commit", "check"} /\ Dequeued
    BY <1>1, <1>6, RepairSettlesFacts, CheckRunsFacts
  <2>2. chain[1].kind \notin SessionKinds
    BY <2>1 DEF SessionKinds, RegKinds
  <2>. QED
    BY <1>1, <2>1, <2>2, LastingHead
<1>7. CASE AppendStarts
  <2>1. chain[1].kind = "append" /\ (Dequeued \/ chain' = chain)
    BY <1>1, <1>7, AppendStartsFacts
  <2>2. "append" \notin SessionKinds
    BY DEF SessionKinds, RegKinds
  <2>. QED
    BY <1>1, <2>1, <2>2, LastingHead, LastingStill
<1>8. CASE AppendSettles
  <2>1. chain[1].kind = "append" /\ (Dequeued \/ Emptied)
    BY <1>1, <1>8, AppendSettlesFacts
  <2>2. "append" \notin SessionKinds
    BY DEF SessionKinds, RegKinds
  <2>. QED
    BY <1>1, <2>1, <2>2, LastingHead
<1>9. ASSUME NEW c \in Callers, Call(c) \/ Again(c) \/ RetirementSettled(c)
      PROVE  \E f : Lasting(f)
  <2>1. Enters(c)
    BY <1>1, <1>9, EnteringSteps
  <2>2. CASE Apart1(c) \/ Finds(c)
    BY <1>1, <2>2, LastingStill DEF Apart1, Finds
  <2>3. CASE Opens(c)
    BY <1>2, <2>3 DEF Opens
  <2>4. CASE Shares(c)
    <3>1. /\ chain' \in Seq(OpType) /\ Len(chain') = Len(chain)
          /\ \A i \in DOMAIN chain : Kept(i, i)
      BY <2>1, <2>4 DEF Enters, Shares
    <3>2. Embeds(Same) /\ \A j \in DOMAIN chain : \E i \in DOMAIN chain' : Same[i] = j
      BY <1>1, <3>1, SameEmbeds
    <3>3. Lasting(Same)
      BY <1>1, <3>2, LastingKept
    <3>. QED
      BY <3>3
  <2>. QED
    BY <2>1, <2>2, <2>3, <2>4 DEF Enters
<1>10. ASSUME NEW c \in Callers, AppendCalled(c)
       PROVE  \E f : Lasting(f)
  <2>1. Queue(Op("append", {c}, Len(store), FALSE))
    BY <1>1, <1>10, AppendCalledFacts
  <2>2. Len(store) \in Nat /\ "append" \in CallKinds
    BY <1>1 DEF DiskType, CallKinds
  <2>. QED
    BY <1>2, <2>1, <2>2
<1>11. ASSUME NEW c \in Callers, ReadDone(c)
       PROVE  \E f : Lasting(f)
  <2>1. (Left({c}) /\ chain' = chain) \/ Checks(c) \/ Commits(c) \/ Waits(c)
    BY <1>1, <1>11, ReadDoneFacts
  <2>2. CASE (Left({c}) /\ chain' = chain) \/ Waits(c)
    BY <1>1, <2>2, LastingStill DEF Waits
  <2>3. CASE Checks(c)
    BY <1>2, <2>3 DEF Checks, CallKinds
  <2>4. CASE Commits(c)
    BY <1>2, <2>4 DEF Commits, CallKinds
  <2>. QED
    BY <2>1, <2>2, <2>3, <2>4
<1>12. ASSUME NEW c \in Callers, FlushReturns(c) \/ Extend(c) \/ Release(c)
       PROVE  \E f : Lasting(f)
  <2>1. chain' = chain
    BY <1>12 DEF FlushReturns, Extend, Release
  <2>. QED
    BY <1>1, <2>1, LastingStill
<1>13. ASSUME NEW c \in Callers, Abort(c)
       PROVE  \E f : Lasting(f)
  <2>1. /\ chain' \in Seq(OpType)
        /\ Leaves(c) \/ StopsReading(c) \/ Withdraws(c)
    BY <1>1, <1>13, AbortFacts
  <2>2. CASE Leaves(c)
    BY <1>1, <2>2, LastingStill DEF Leaves
  <2>3. CASE StopsReading(c)
    <3>1. ASSUME NEW i \in DOMAIN chain PROVE Kept(i, i)
      <4>1. /\ chain[i] \in OpType
            /\ chain'[i] = [chain[i] EXCEPT !.for = chain[i].for \ {c}]
        BY <1>1, <2>3 DEF StopsReading, PrepType
      <4>2. /\ chain'[i].kind = chain[i].kind /\ chain'[i].n = chain[i].n
            /\ chain'[i].current = chain[i].current
            /\ chain'[i].for = chain[i].for \ {c}
        BY <4>1 DEF OpType
      <4>3. ASSUME chain[i].kind # "load" PROVE c \notin chain[i].for
        <5>1. chain[i].kind \in CallKinds \/ chain[i].kind \in SessionKinds
          BY <4>1, <4>3 DEF OpType
        <5>2. CASE chain[i].kind \in CallKinds
          <6>1. \E d \in Callers : chain[i].for = {d} /\ call[d].at = chain[i].kind
            BY <5>2 DEF OpsInv
          <6>. QED
            BY <2>3, <5>2, <6>1 DEF CallKinds, StopsReading
        <5>3. CASE chain[i].kind \in SessionKinds
          <6>1. \E s \in Sessions : chain[i].for = {s}
            BY <5>3 DEF OpsInv
          <6>. QED
            BY <6>1, ApartAssumption
        <5>. QED
          BY <5>1, <5>2, <5>3
      <4>. QED
        BY <4>2, <4>3 DEF Kept
    <3>2. Embeds(Same) /\ \A j \in DOMAIN chain : \E i \in DOMAIN chain' : Same[i] = j
      BY <1>1, <2>1, <2>3, <3>1, SameEmbeds DEF StopsReading
    <3>3. Lasting(Same)
      BY <1>1, <3>2, LastingKept
    <3>. QED
      BY <3>3
  <2>4. CASE Withdraws(c)
    <3>1. PICK k \in DOMAIN chain :
            chain[k].kind \in {"commit", "check"} /\ chain' = RemoveAt(chain, k)
      BY <2>4 DEF Withdraws
    <3>2. /\ Embeds(Past(k))
          /\ \A j \in DOMAIN chain : j = k \/ \E i \in DOMAIN chain' : Past(k)[i] = j
      BY <1>1, <3>1, CutEmbeds
    <3>3. chain[k].kind \notin SessionKinds
      BY <3>1 DEF SessionKinds, RegKinds
    <3>4. Lasting(Past(k))
      BY <1>1, <3>2, <3>3, LastingKept
    <3>. QED
      BY <3>4
  <2>. QED
    BY <2>1, <2>2, <2>3, <2>4
<1>14. CASE External \/ Evict \/ UNCHANGED vars
  <2>1. chain' = chain
    BY <1>14 DEF External, Evict, vars
  <2>. QED
    BY <1>1, <2>1, LastingStill
<1>. QED
  BY <1>4, <1>5, <1>6, <1>7, <1>8, <1>9, <1>10, <1>11, <1>12, <1>13, <1>14 DEF Quiet

\* The log only grows.
Longer ==
  /\ Len(store) \in Nat /\ Len(store') \in Nat /\ Len(store) <= Len(store')
  /\ \A i \in 1 .. Len(store) : store'[i] = store[i]

\* The ways in which the steps write the log.
LEMMA LongerFacts ==
  ASSUME DiskType
  PROVE  /\ store' = store => Longer
         /\ \A e \in EventType : store' = Append(store, e) => Longer
         /\ \A q \in Seq(EventType) : store' = store \o q => Longer
<1>1. store \in Seq(EventType)
  BY DEF DiskType
<1>2. store' = store => Longer
  BY <1>1 DEF Longer
<1>3. ASSUME NEW e \in EventType, store' = Append(store, e) PROVE Longer
  <2>1. /\ Len(Append(store, e)) = Len(store) + 1 /\ Len(store) \in Nat
        /\ \A i \in 1 .. Len(store) : Append(store, e)[i] = store[i]
    BY <1>1, AppendValue
  <2>. DEFINE longer == Append(store, e)
  <2>2. store' = longer
    BY <1>3
  <2>3. /\ Len(longer) = Len(store) + 1 /\ Len(store) \in Nat
        /\ \A i \in 1 .. Len(store) : longer[i] = store[i]
    BY <2>1
  <2>. HIDE DEF longer
  <2>. QED
    BY <2>2, <2>3 DEF Longer
<1>4. ASSUME NEW q \in Seq(EventType), store' = store \o q PROVE Longer
  <2>. DEFINE longer == store \o q
  <2>1. /\ Len(store) \in Nat /\ Len(q) \in Nat /\ Len(longer) = Len(store) + Len(q)
        /\ \A i \in 1 .. Len(store) : longer[i] = store[i]
    BY <1>1, ConcatValue
  <2>2. store' = longer
    BY <1>4
  <2>. HIDE DEF longer
  <2>. QED
    BY <2>1, <2>2 DEF Longer
<1>. QED
  BY <1>2, <1>3, <1>4

\* While a Session owns the log nothing else writes it unnoticed.
KeepsMark == intruded => intruded'

\* What a quiet step does to the log and to the state in memory.
QuietEffect ==
  /\ KeepsMark
  /\ state'.owner = state.owner
  /\ state.owner # None =>
       /\ state' = state \/ (state'.tracked /\ state'.materialized /\ intruded')
       /\ store' = store \/ intruded'
  /\ Longer

\* No step of a call or of another process touches the Sessions, or the state and
\* the log under an owner, unless the history says so.
LEMMA QuietState ==
  ASSUME IInv, Quiet
  PROVE  UNCHANGED live /\ QuietEffect
<1>. USE DEF IInv
<1>1. /\ Types /\ LiveType /\ PrepType /\ DiskType
      /\ intruded \in BOOLEAN
      /\ state.owner # None => state.tracked
  BY DEF Types, DiskType, PrepType
<1>2. UNCHANGED live
  <2>1. CASE \/ LoadRuns \/ CommitRuns \/ RepairSettles \/ CheckRuns \/ AppendStarts
             \/ AppendSettles \/ External \/ Evict \/ UNCHANGED vars
    BY <2>1 DEF LoadRuns, CommitRuns, RepairSettles, CheckRuns, AppendStarts,
       AppendSettles, External, Evict, vars, live
  <2>2. ASSUME NEW c \in Callers,
               \/ Call(c) \/ Again(c) \/ RetirementSettled(c)
               \/ AppendCalled(c) \/ ReadDone(c) \/ FlushReturns(c)
               \/ Extend(c) \/ Release(c) \/ Abort(c)
        PROVE  UNCHANGED live
    BY <2>2 DEF Call, Again, Enter, RetirementSettled, AppendCalled, ReadDone, FlushReturns,
         Extend, Release, Abort
  <2>. QED
    BY <2>1, <2>2 DEF Quiet
<1>. SUFFICES QuietEffect
  BY <1>2
<1>3. ASSUME UNCHANGED <<store, state>>, KeepsMark PROVE QuietEffect
  BY <1>1, <1>3, LongerFacts DEF QuietEffect
<1>0. /\ intruded' = intruded => KeepsMark
      /\ \A b : intruded' = (intruded \/ b) => KeepsMark
  BY Zenon DEF KeepsMark
<1>4. CASE LoadRuns \/ CheckRuns \/ Evict \/ UNCHANGED vars
  <2>1. UNCHANGED <<store, state>> /\ intruded' = intruded
    BY <1>4 DEF LoadRuns, CheckRuns, Evict, disk, history, vars
  <2>. QED
    BY <1>3, <1>0, <2>1
<1>5. ASSUME NEW c \in Callers,
              \/ Call(c) \/ Again(c) \/ RetirementSettled(c)
              \/ AppendCalled(c) \/ ReadDone(c) \/ FlushReturns(c)
              \/ Extend(c) \/ Release(c) \/ Abort(c)
      PROVE  QuietEffect
  <2>1. UNCHANGED <<store, state>> /\ intruded' = intruded
    BY <1>5 DEF Call, Again, Enter, RetirementSettled, AppendCalled, ReadDone, FlushReturns,
         Extend, Release, Abort, disk, history
  <2>. QED
    BY <1>3, <1>0, <2>1
<1>6. CASE CommitRuns
  <2>1. /\ GivesUp(Caller) \/ Repairs(Caller) \/ Succeeds(Caller)
        /\ store' = store /\ intruded' = intruded
    BY <1>1, <1>6, CommitRunsFacts DEF disk
  <2>2. CASE GivesUp(Caller) \/ Repairs(Caller)
    BY <1>3, <1>0, <2>1, <2>2 DEF GivesUp, Repairs
  <2>3. CASE Succeeds(Caller)
    <3>1. state.owner = None /\ state'.owner = None
      BY <2>3 DEF Succeeds, ColdState, Tracked
    <3>. QED
      BY <1>1, <1>0, <2>1, <3>1, LongerFacts DEF QuietEffect
  <2>. QED
    BY <2>1, <2>2, <2>3
<1>7. CASE RepairSettles
  <2>1. /\ chain # <<>> /\ chain[1].kind = "commit" /\ running
        /\ store' = store \o Closers(entry.source.log) \/ store' = store
        /\ state' = state /\ intruded' = intruded
    BY <1>1, <1>7, RepairSettlesFacts
  <2>2. state.owner = None
    BY <1>1, <2>1, HeadFacts DEF RunInv
  <2>3. Closers(entry.source.log) \in Seq(EventType)
    BY <1>1, ClosersType DEF PrepType, EntryType, SourceType
  <2>4. Longer
    BY <1>1, <2>1, <2>3, LongerFacts
  <2>. QED
    BY <1>0, <2>1, <2>2, <2>4 DEF QuietEffect
<1>8. CASE AppendStarts
  <2>1. /\ Adopts \/ HalfAdopts \/ Untouched
        /\ intruded' = (intruded \/ (store' # store /\ Claimed))
    BY <1>1, <1>8, AppendStartsFacts
  <2>0. KeepsMark
    BY <1>0, <2>1
  <2>2. CASE HalfAdopts \/ Untouched
    BY <1>3, <2>0, <2>2 DEF HalfAdopts, Untouched
  <2>3. CASE Adopts
    <3>1. state.owner = None /\ state'.owner = None
      BY <1>1, <2>3 DEF Adopts, Tracked
    <3>2. store' = store \o Closers(store)
      BY <2>3 DEF Adopts
    <3>3. Closers(store) \in Seq(EventType)
      BY <1>1, ClosersType DEF DiskType
    <3>4. Longer
      BY <1>1, <3>2, <3>3, LongerFacts
    <3>. QED
      BY <2>0, <3>1, <3>4 DEF QuietEffect
  <2>. QED
    BY <2>1, <2>2, <2>3
<1>9. CASE AppendSettles
  <2>1. \/ /\ store' = Append(store, Event("api", FALSE))
           /\ state' = Tracked(state.cursor + 1, TRUE, state.owner)
           /\ intruded' = (intruded \/ Claimed)
        \/ store' = store /\ state' = state /\ intruded' = intruded
    BY <1>1, <1>9, AppendSettlesFacts
  <2>2. Event("api", FALSE) \in EventType
    BY DEF Event, EventType
  <2>3. Longer
    BY <1>1, <2>1, <2>2, LongerFacts
  <2>4. state.owner # None => Claimed
    BY DEF Claimed
  <2>5. /\ Tracked(state.cursor + 1, TRUE, state.owner).owner = state.owner
        /\ Tracked(state.cursor + 1, TRUE, state.owner).tracked
        /\ Tracked(state.cursor + 1, TRUE, state.owner).materialized
    BY DEF Tracked
  <2>6. CASE store' = store /\ state' = state /\ intruded' = intruded
    BY <1>3, <1>0, <2>6
  <2>7. CASE /\ state' = Tracked(state.cursor + 1, TRUE, state.owner)
             /\ intruded' = (intruded \/ Claimed)
    <3>1. KeepsMark
      BY <1>0, <2>7
    <3>2. Claimed => intruded'
      BY <2>7
    <3>3. state'.owner = state.owner /\ state'.tracked /\ state'.materialized
      BY <2>5, <2>7
    <3>. HIDE <2>7
    <3>. QED
      BY <2>3, <2>4, <3>1, <3>2, <3>3 DEF QuietEffect
  <2>. QED
    BY <2>1, <2>6, <2>7
<1>10. CASE External
  <2>1. /\ store' = Append(store, Event("other", FALSE)) /\ state' = state
        /\ intruded' = (intruded \/ Claimed \/ running)
    BY <1>10 DEF External
  <2>2. Event("other", FALSE) \in EventType
    BY DEF Event, EventType
  <2>3. Longer
    BY <1>1, <2>1, <2>2, LongerFacts
  <2>4. state.owner # None => Claimed
    BY DEF Claimed
  <2>5. KeepsMark /\ (Claimed => intruded')
    BY <2>1 DEF KeepsMark
  <2>. QED
    BY <2>1, <2>3, <2>4, <2>5 DEF QuietEffect
<1>. QED
  BY <1>4, <1>5, <1>6, <1>7, <1>8, <1>9, <1>10 DEF Quiet

\* A Session that is being initialized keeps reads from becoming ready.
LEMMA QuietEntry ==
  ASSUME IInv, Quiet, NEW k \in DOMAIN chain, chain[k].kind \in RegKinds
  PROVE  entry'.phase \in {"none", "loading"}
<1>. USE DEF IInv
<1>1. Types /\ LiveType /\ PrepType /\ DiskType
  BY DEF Types
<1>2. PICK s \in Sessions : Inits(chain[k], s)
  <2>1. chain[k].kind \in SessionKinds
    BY DEF SessionKinds
  <2>. QED
    BY <2>1 DEF OpsInv, Inits
<1>3. entry.phase \in {"none", "loading"} /\ \A j \in DOMAIN chain : chain[j].current => k < j
  BY <1>2 DEF RegInv
<1>4. /\ entry' = entry => entry'.phase \in {"none", "loading"}
      /\ \A D : Removed(D) \/ Left(D) => entry'.phase \in {"none", "loading"}
  BY <1>3 DEF Removed, Left, NoEntry
<1>5. \A c \in Callers :
        ~ (call[c].mine /\ call[c].at \in {"loaded", "blocked", "check", "commit", "held"})
  BY <1>3 DEF EntryInv
<1>6. CASE LoadRuns
  <2>1. chain # <<>> /\ (chain[1].current \/ entry' = entry)
    BY <1>1, <1>6, LoadRunsFacts
  <2>2. 1 \in DOMAIN chain /\ DOMAIN chain = 1 .. Len(chain) /\ Len(chain) \in Nat
    BY <1>1, <2>1, HeadFacts DEF PrepType
  <2>3. ~ chain[1].current
    BY <1>3, <2>2
  <2>. QED
    BY <1>4, <2>1, <2>3
<1>7. CASE CommitRuns
  <2>1. /\ Caller \in Callers /\ call[Caller].at = "commit"
        /\ GivesUp(Caller) \/ Repairs(Caller) \/ Succeeds(Caller)
    BY <1>1, <1>7, CommitRunsFacts
  <2>2. ~ call[Caller].mine
    BY <1>5, <2>1
  <2>3. Left({Caller})
    BY <2>1, <2>2 DEF GivesUp, Repairs, Succeeds
  <2>. QED
    BY <1>4, <2>3
<1>8. CASE RepairSettles
  <2>1. Removed({Caller})
    BY <1>1, <1>8, RepairSettlesFacts
  <2>. QED
    BY <1>4, <2>1
<1>9. CASE CheckRuns
  <2>1. Left({Caller}) \/ Removed({Caller})
    BY <1>1, <1>9, CheckRunsFacts
  <2>. QED
    BY <1>4, <2>1
<1>10. CASE AppendStarts
  <2>1. entry' = entry \/ Removed({}) \/ Left({Caller}) \/ Removed({Caller})
    BY <1>1, <1>10, AppendStartsFacts
  <2>. QED
    BY <1>4, <2>1
<1>11. CASE AppendSettles
  <2>1. Left({Caller}) \/ Removed({Caller})
    BY <1>1, <1>11, AppendSettlesFacts
  <2>. QED
    BY <1>4, <2>1
<1>12. ASSUME NEW c \in Callers, Call(c) \/ Again(c) \/ RetirementSettled(c)
       PROVE  entry'.phase \in {"none", "loading"}
  <2>1. Enters(c)
    BY <1>1, <1>12, EnteringSteps
  <2>2. entry' = entry \/ entry'.phase = "loading"
    BY <2>1 DEF Enters, Apart1, Opens, Shares, Finds
  <2>. QED
    BY <1>4, <2>2
<1>13. ASSUME NEW c \in Callers, ReadDone(c)
       PROVE  entry'.phase \in {"none", "loading"}
  <2>1. (Left({c}) /\ chain' = chain) \/ Checks(c) \/ Commits(c) \/ Waits(c)
    BY <1>1, <1>13, ReadDoneFacts
  <2>2. Left({c}) \/ entry' = entry
    BY <1>3, <2>1 DEF Checks, Commits, Waits
  <2>. QED
    BY <1>4, <2>2
<1>14. ASSUME NEW c \in Callers, AppendCalled(c) \/ FlushReturns(c) \/ Extend(c)
       PROVE  entry'.phase \in {"none", "loading"}
  <2>1. entry' = entry
    BY <1>14 DEF AppendCalled, FlushReturns, Extend
  <2>. QED
    BY <1>4, <2>1
<1>15. ASSUME NEW c \in Callers, Release(c)
       PROVE  entry'.phase \in {"none", "loading"}
  <2>1. call[c].at = "held" /\ call[c].mine
    BY <1>15 DEF Release, EntryInv
  <2>. QED
    BY <1>5, <2>1
<1>16. ASSUME NEW c \in Callers, Abort(c)
       PROVE  entry'.phase \in {"none", "loading"}
  <2>1. Leaves(c) \/ StopsReading(c) \/ Withdraws(c)
    BY <1>1, <1>16, AbortFacts
  <2>2. Left({c}) \/ Removed({c})
    BY <2>1 DEF Leaves, StopsReading, Withdraws
  <2>. QED
    BY <1>4, <2>2
<1>17. CASE External \/ Evict \/ UNCHANGED vars
  <2>1. entry' = entry \/ Removed({})
    BY <1>1, <1>17, EvictFacts DEF External, vars
  <2>. QED
    BY <1>4, <2>1
<1>. QED
  BY <1>6, <1>7, <1>8, <1>9, <1>10, <1>11, <1>12, <1>13, <1>14, <1>15, <1>16, <1>17
  DEF Quiet

\* What a lasting chain says of the old one.
LEMMA LastingOps ==
  ASSUME PrepType, NEW f, Lasting(f)
  PROVE  /\ \A i \in DOMAIN chain', s \in Sessions :
              /\ Inits(chain'[i], s) => f[i] \in DOMAIN chain /\ Inits(chain[f[i]], s)
              /\ \A k \in SessionKinds :
                   OpOf(chain'[i], k, s) => f[i] \in DOMAIN chain /\ OpOf(chain[f[i]], k, s)
         /\ \A i \in DOMAIN chain' : chain'[i].kind \in SessionKinds =>
              /\ f[i] \in DOMAIN chain /\ chain'[i].kind = chain[f[i]].kind
              /\ chain'[i].n = chain[f[i]].n
         /\ \A i, j \in DOMAIN chain' :
              /\ f[i] = f[j] => i = j
              /\ f[i] < f[j] => i < j
              /\ f[j] <= f[i] => j <= i
         /\ \A i \in DOMAIN chain' : chain'[i].current =>
              (f[i] \in DOMAIN chain /\ chain[f[i]].current) \/ f[i] = Len(chain) + 1
<1>1. DOMAIN chain' \subseteq Nat /\ DOMAIN chain \subseteq Nat
  BY DEF Lasting, PrepType
<1>2. ASSUME NEW i \in DOMAIN chain', chain'[i].kind \in SessionKinds
      PROVE  /\ f[i] \in DOMAIN chain /\ chain'[i].kind = chain[f[i]].kind
             /\ chain'[i].n = chain[f[i]].n /\ chain'[i].for = chain[f[i]].for
  <2>1. f[i] \in DOMAIN chain /\ Kept(i, f[i])
    BY <1>2 DEF Lasting
  <2>2. chain'[i].kind # "load"
    BY <1>2 DEF SessionKinds, RegKinds
  <2>. QED
    BY <2>1, <2>2 DEF Kept
<1>3. ASSUME NEW i \in DOMAIN chain', NEW s \in Sessions
      PROVE  /\ Inits(chain'[i], s) => f[i] \in DOMAIN chain /\ Inits(chain[f[i]], s)
             /\ \A k \in SessionKinds :
                  OpOf(chain'[i], k, s) => f[i] \in DOMAIN chain /\ OpOf(chain[f[i]], k, s)
  BY <1>2 DEF Inits, OpOf, SessionKinds
<1>4. ASSUME NEW i \in DOMAIN chain', NEW j \in DOMAIN chain'
      PROVE  /\ f[i] = f[j] => i = j
             /\ f[i] < f[j] => i < j
             /\ f[j] <= f[i] => j <= i
  <2>1. i \in Nat /\ j \in Nat /\ f[i] \in Nat /\ f[j] \in Nat
    BY <1>1 DEF Lasting
  <2>2. (i < j => f[i] < f[j]) /\ (j < i => f[j] < f[i])
    BY DEF Lasting
  <2>. QED
    BY <2>1, <2>2
<1>5. ASSUME NEW i \in DOMAIN chain', chain'[i].current
      PROVE  (f[i] \in DOMAIN chain /\ chain[f[i]].current) \/ f[i] = Len(chain) + 1
  BY <1>5 DEF Lasting, Kept
<1>. QED
  BY <1>2, <1>3, <1>4, <1>5

\* Those steps leave the initializations as they were.
LEMMA RegQuiet ==
  ASSUME IInv, Quiet
  PROVE  RegInv'
<1>. USE DEF IInv
<1>1. PrepType /\ PrepType' /\ Len(chain) \in Nat /\ DOMAIN chain = 1 .. Len(chain)
  <2>1. PrepType
    BY DEF Types
  <2>2. [Next]_vars
    BY DEF Quiet, Next, Operation, Continue, Settle, vars
  <2>. QED
    BY <2>1, <2>2, PrepTypeStep DEF PrepType
<1>2. PICK f : Lasting(f)
  BY QuietChain
<1>3. UNCHANGED live /\ QuietEffect
  BY QuietState
<1>4. /\ init' = init /\ saved' = saved /\ registered' = registered
  BY <1>3 DEF live
<1>5. ASSUME NEW i \in DOMAIN chain', NEW s \in Sessions, Inits(chain'[i], s)
      PROVE  /\ init'[s] = "pending"
             /\ entry'.phase \in {"none", "loading"}
             /\ chain'[i].kind = "init" => chain'[i].n = saved'[s]
             /\ chain'[i].kind = "suffix" =>
                  /\ state'.owner = s /\ state'.materialized
                  /\ intruded' \/ state'.cursor <= saved'[s]
  <2>. DEFINE j == f[i]
  <2>1. /\ j \in DOMAIN chain /\ Inits(chain[j], s)
        /\ chain'[i].kind = chain[j].kind /\ chain'[i].n = chain[j].n
    BY <1>1, <1>2, <1>5, LastingOps DEF Inits, SessionKinds
  <2>. HIDE DEF j
  <2>2. /\ init[s] = "pending"
        /\ chain[j].kind = "init" => chain[j].n = saved[s]
        /\ chain[j].kind = "suffix" =>
             /\ state.owner = s /\ state.materialized
             /\ intruded \/ state.cursor <= saved[s]
    BY <2>1 DEF RegInv
  <2>3. entry'.phase \in {"none", "loading"}
    BY <2>1, QuietEntry DEF Inits
  <2>4. ASSUME chain'[i].kind = "suffix"
        PROVE  /\ state'.owner = s /\ state'.materialized
               /\ intruded' \/ state'.cursor <= saved'[s]
    <3>1. state.owner = s /\ state.materialized /\ state.owner # None
      BY <2>1, <2>2, <2>4, NoneAssumption
    <3>2. state'.owner = s
      BY <1>3, <3>1 DEF QuietEffect
    <3>3. intruded => intruded'
      BY <1>3 DEF QuietEffect, KeepsMark
    <3>4. state' = state \/ (state'.materialized /\ intruded')
      BY <1>3, <3>1 DEF QuietEffect
    <3>5. CASE state' = state
      BY <1>4, <2>1, <2>2, <2>4, <3>1, <3>3, <3>5
    <3>6. CASE state'.materialized /\ intruded'
      BY <3>2, <3>6
    <3>. QED
      BY <3>4, <3>5, <3>6
  <2>. QED
    BY <1>4, <2>1, <2>2, <2>3, <2>4
<1>6. ASSUME NEW i \in DOMAIN chain', NEW j \in DOMAIN chain', NEW s \in Sessions
      PROVE  /\ Inits(chain'[i], s) /\ Inits(chain'[j], s) => i = j
             /\ Inits(chain'[i], s) /\ chain'[j].current => i < j
             /\ Inits(chain'[i], s) /\ registered' = s /\ chain'[j].kind \in RegKinds => j <= i
  <2>1. ASSUME Inits(chain'[i], s), Inits(chain'[j], s) PROVE i = j
    <3>1. /\ f[i] \in DOMAIN chain /\ Inits(chain[f[i]], s)
          /\ f[j] \in DOMAIN chain /\ Inits(chain[f[j]], s)
      BY <1>1, <1>2, <2>1, LastingOps
    <3>2. f[i] = f[j]
      BY <3>1 DEF RegInv
    <3>. QED
      BY <1>1, <1>2, <3>2, LastingOps
  <2>2. ASSUME Inits(chain'[i], s), chain'[j].current PROVE i < j
    <3>1. f[i] \in DOMAIN chain /\ Inits(chain[f[i]], s)
      BY <1>1, <1>2, <2>2, LastingOps
    <3>2. (f[j] \in DOMAIN chain /\ chain[f[j]].current) \/ f[j] = Len(chain) + 1
      BY <1>1, <1>2, <2>2, LastingOps
    <3>3. f[j] \in DOMAIN chain /\ chain[f[j]].current => f[i] < f[j]
      BY <3>1 DEF RegInv
    <3>4. f[i] < f[j]
      BY <1>1, <3>1, <3>2, <3>3
    <3>. QED
      BY <1>1, <1>2, <3>4, LastingOps
  <2>3. ASSUME Inits(chain'[i], s), registered' = s, chain'[j].kind \in RegKinds
        PROVE  j <= i
    <3>1. f[i] \in DOMAIN chain /\ Inits(chain[f[i]], s)
      BY <1>1, <1>2, <2>3, LastingOps
    <3>2. f[j] \in DOMAIN chain /\ chain[f[j]].kind \in RegKinds
      BY <1>1, <1>2, <2>3, LastingOps DEF SessionKinds
    <3>3. f[j] <= f[i]
      BY <1>4, <2>3, <3>1, <3>2 DEF RegInv
    <3>. QED
      BY <1>1, <1>2, <3>3, LastingOps
  <2>. QED
    BY <2>1, <2>2, <2>3
<1>7. ASSUME NEW i \in DOMAIN chain', chain'[i].kind \in RegKinds, registered' # None
      PROVE  init'[registered'] = "pending"
  <2>1. f[i] \in DOMAIN chain /\ chain[f[i]].kind \in RegKinds
    BY <1>1, <1>2, <1>7, LastingOps DEF SessionKinds
  <2>. QED
    BY <1>4, <1>7, <2>1 DEF RegInv
<1>8. ASSUME NEW s \in Sessions, init'[s] = "pending"
      PROVE  \E i \in DOMAIN chain' : Inits(chain'[i], s)
  <2>1. PICK j \in DOMAIN chain : Inits(chain[j], s)
    BY <1>4, <1>8 DEF RegInv
  <2>2. PICK i \in DOMAIN chain' : f[i] = j
    BY <1>2, <2>1 DEF Lasting, Inits, SessionKinds
  <2>3. Kept(i, j)
    <3>1. Len(chain) + 1 \notin DOMAIN chain
      BY <1>1
    <3>. QED
      BY <1>2, <2>1, <2>2, <3>1 DEF Lasting
  <2>4. chain[j].kind # "load"
    BY <2>1 DEF Inits, RegKinds
  <2>. QED
    BY <2>1, <2>3, <2>4 DEF Kept, Inits
<1>. QED
  BY <1>5, <1>6, <1>7, <1>8 DEF RegInv

\* They leave the batches and the releases as they were.
LEMMA LiveQuiet ==
  ASSUME IInv, Quiet
  PROVE  LiveInv'
<1>. USE DEF IInv
<1>1. PrepType
  BY DEF Types
<1>2. PICK f : Lasting(f)
  BY QuietChain
<1>3. UNCHANGED live
  BY QuietState
<1>4. /\ init' = init /\ saved' = saved /\ registered' = registered /\ events' = events
      /\ writing' = writing /\ retiring' = retiring
  BY <1>3 DEF live
<1>5. {"write", "release"} \subseteq SessionKinds
  BY DEF SessionKinds
<1>6. ASSUME NEW i \in DOMAIN chain', NEW s \in Sessions
      PROVE  /\ OpOf(chain'[i], "write", s) => writing[s] # 0 /\ chain'[i].n = writing[s]
             /\ OpOf(chain'[i], "release", s) => retiring[s] = "release"
  <2>1. \A k \in SessionKinds : OpOf(chain'[i], k, s) =>
          f[i] \in DOMAIN chain /\ OpOf(chain[f[i]], k, s) /\ chain'[i].n = chain[f[i]].n
    BY <1>1, <1>2, LastingOps DEF OpOf
  <2>. QED
    BY <1>5, <2>1 DEF LiveInv
<1>7. ASSUME NEW i \in DOMAIN chain', NEW j \in DOMAIN chain', NEW s \in Sessions,
             NEW k \in {"write", "release"}, OpOf(chain'[i], k, s), OpOf(chain'[j], k, s)
      PROVE  i = j
  <2>1. /\ f[i] \in DOMAIN chain /\ OpOf(chain[f[i]], k, s)
        /\ f[j] \in DOMAIN chain /\ OpOf(chain[f[j]], k, s)
    BY <1>1, <1>2, <1>5, <1>7, LastingOps
  <2>2. f[i] = f[j]
    BY <2>1 DEF LiveInv
  <2>. QED
    BY <1>1, <1>2, <2>2, LastingOps
<1>8. \A s \in Sessions : Ordered(s)'
  BY <1>4 DEF LiveInv, Ordered
<1>. QED
  BY <1>4, <1>6, <1>7, <1>8 DEF LiveInv

\* They leave the claims as they were.
LEMMA OwnerQuiet ==
  ASSUME IInv, Quiet
  PROVE  OwnerInv'
<1>1. UNCHANGED live /\ state'.owner = state.owner
  BY QuietState DEF QuietEffect
<1>. QED
  BY <1>1 DEF OwnerInv, IInv, live

\* A log that grew has the same prefixes.
LEMMA LongerPrefix ==
  ASSUME DiskType, DiskType', Longer, NEW p \in Seq(EventType), IsPrefix(p, store)
  PROVE  IsPrefix(p, store')
<1>1. store \in Seq(EventType) /\ store' \in Seq(EventType)
  BY DEF DiskType
<1>2. Len(p) \in Nat /\ Len(p) <= Len(store) /\ \A i \in 1 .. Len(p) : p[i] = store[i]
  BY <1>1, PrefixMeans
<1>3. Len(p) <= Len(store') /\ \A i \in 1 .. Len(p) : p[i] = store'[i]
  BY <1>2 DEF Longer
<1>. QED
  BY <1>1, <1>3, PrefixMeans

\* The first events of a Session that it counts as saved.
LEMMA SavedEvents ==
  ASSUME LiveType, NEW s \in Sessions
  PROVE  /\ SubSeq(events[s], 1, saved[s]) \in Seq(EventType)
         /\ Len(SubSeq(events[s], 1, saved[s])) = saved[s]
         /\ saved[s] \in Nat /\ Len(events[s]) \in Nat
         /\ \A i \in 1 .. saved[s] : SubSeq(events[s], 1, saved[s])[i] = events[s][i]
<1>1. events[s] \in Seq(EventType) /\ saved[s] \in Nat /\ saved[s] <= Len(events[s])
  BY DEF LiveType
<1>2. /\ SubSeq(events[s], 1, saved[s]) \in Seq(EventType)
      /\ Len(SubSeq(events[s], 1, saved[s])) = IF 1 <= saved[s] THEN saved[s] - 1 + 1 ELSE 0
      /\ \A i \in 1 .. saved[s] - 1 + 1 :
           SubSeq(events[s], 1, saved[s])[i] = events[s][1 + i - 1]
  BY <1>1, SubSeqValue
<1>. QED
  BY <1>1, <1>2

\* What the Sessions saved stays stored.
LEMMA SavedQuiet ==
  ASSUME IInv, Quiet
  PROVE  SavedInv'
<1>1. UNCHANGED live /\ QuietEffect
  BY QuietState
<1>2. Longer /\ (intruded => intruded') /\ init' = init /\ events' = events /\ saved' = saved
  BY <1>1 DEF QuietEffect, KeepsMark, live
<1>3. DiskType /\ DiskType' /\ LiveType /\ SavedInv
  <2>1. [Next]_vars
    BY DEF Quiet, Next, Operation, Continue, Settle, vars
  <2>. QED
    BY <2>1, DiskTypeStep DEF IInv, Types
<1>4. ASSUME NEW s \in Sessions, init[s] \in {"ok", "gone"}, ~ intruded'
      PROVE  IsPrefix(SubSeq(events[s], 1, saved[s]), store')
  <2>1. IsPrefix(SubSeq(events[s], 1, saved[s]), store)
    BY <1>2, <1>3, <1>4 DEF SavedInv
  <2>. QED
    BY <1>2, <1>3, <2>1, LongerPrefix, SavedEvents
<1>5. ASSUME NEW s \in Sessions, NEW i \in DOMAIN events[s], events[s][i].by = "closer"
      PROVE  i <= Len(store')
  <2>1. i <= Len(store) /\ i \in Nat
    BY <1>3, <1>5 DEF SavedInv, LiveType
  <2>. QED
    BY <1>2, <2>1 DEF Longer
<1>. QED
  BY <1>2, <1>4, <1>5 DEF SavedInv

\* The log stays a prefix of its owner's events.
LEMMA CoversQuiet ==
  ASSUME IInv, Quiet
  PROVE  OwnerCovers'
<1>1. UNCHANGED live /\ QuietEffect
  BY QuietState
<1>2. /\ events' = events /\ state'.owner = state.owner /\ (intruded => intruded')
      /\ state.owner # None => store' = store \/ intruded'
  BY <1>1 DEF QuietEffect, KeepsMark, live
<1>. QED
  BY <1>2 DEF OwnerCovers, IInv

-----------------------------------------------------------------------------
(* An operation of a Session leaves the head of the chain.                 *)

\* What the chain holds after its head has run.
LEMMA DoneOps ==
  ASSUME PrepType, Dequeued \/ Emptied
  PROVE  /\ Len(chain) \in Nat /\ 1 \in DOMAIN chain
         /\ DOMAIN chain = 1 .. Len(chain) /\ DOMAIN chain' = 1 .. Len(chain) - 1
         /\ \A i \in DOMAIN chain' :
              /\ i + 1 \in DOMAIN chain /\ i + 1 # 1
              /\ chain'[i].kind = chain[i + 1].kind /\ chain'[i].n = chain[i + 1].n
              /\ chain'[i].for = chain[i + 1].for
              /\ chain'[i].current => chain[i + 1].current
         /\ \A j \in DOMAIN chain \ {1} : j - 1 \in DOMAIN chain' /\ (j - 1) + 1 = j
<1>1. /\ Len(chain) \in Nat /\ DOMAIN chain = 1 .. Len(chain) /\ chain # <<>>
      /\ Len(chain) # 0
  BY DEF PrepType, Dequeued, Emptied
<1>2. /\ chain' \in Seq(OpType) /\ Len(chain') = Len(chain) - 1
      /\ \A i \in 1 .. Len(chain) - 1 :
           chain'[i] = chain[i + 1] \/ chain'[i] = [chain[i + 1] EXCEPT !.current = FALSE]
  BY DEF Dequeued, Emptied
<1>3. DOMAIN chain' = 1 .. Len(chain) - 1
  BY <1>2
<1>4. ASSUME NEW i \in DOMAIN chain'
      PROVE  /\ i + 1 \in DOMAIN chain /\ i + 1 # 1
             /\ chain'[i].kind = chain[i + 1].kind /\ chain'[i].n = chain[i + 1].n
             /\ chain'[i].for = chain[i + 1].for
             /\ chain'[i].current => chain[i + 1].current
  <2>1. i \in 1 .. Len(chain) - 1 /\ i + 1 \in DOMAIN chain /\ i + 1 # 1
    BY <1>1, <1>3
  <2>2. chain[i + 1] \in OpType
    BY <2>1 DEF PrepType
  <2>. QED
    BY <1>2, <2>1, <2>2 DEF OpType
<1>. QED
  BY <1>1, <1>3, <1>4

\* The head was the initialization of Session s1, or another operation of it.
LEMMA RegDone ==
  ASSUME PrepType, PrepType', RegInv, Dequeued \/ Emptied, NEW s1 \in Sessions,
         chain[1].for = {s1}, chain[1].kind \in RegKinds \/ init[s1] # "pending",
         registered \in Sessions \cup {None}, registered' = registered,
         init'[s1] # "pending",
         \A t \in Sessions : t # s1 => init'[t] = init[t] /\ saved'[t] = saved[t],
         entry' = entry \/ entry'.phase = "none",
         intruded => intruded',
         \A t \in Sessions :
           t # s1 /\ state.owner = t /\ state.materialized /\ init[t] = "pending" =>
             state' = state
  PROVE  RegInv'
<1>1. /\ Len(chain) \in Nat /\ 1 \in DOMAIN chain
      /\ DOMAIN chain = 1 .. Len(chain) /\ DOMAIN chain' = 1 .. Len(chain) - 1
      /\ \A i \in DOMAIN chain' :
           /\ i + 1 \in DOMAIN chain /\ i + 1 # 1
           /\ chain'[i].kind = chain[i + 1].kind /\ chain'[i].n = chain[i + 1].n
           /\ chain'[i].for = chain[i + 1].for
           /\ chain'[i].current => chain[i + 1].current
      /\ \A j \in DOMAIN chain \ {1} : j - 1 \in DOMAIN chain' /\ (j - 1) + 1 = j
  BY DoneOps
<1>2. ASSUME NEW i \in DOMAIN chain', NEW s \in Sessions, Inits(chain'[i], s)
      PROVE  i + 1 \in DOMAIN chain /\ Inits(chain[i + 1], s) /\ s # s1
  <2>1. i + 1 \in DOMAIN chain /\ Inits(chain[i + 1], s) /\ i + 1 # 1
    BY <1>1, <1>2 DEF Inits
  <2>2. ASSUME s = s1 PROVE FALSE
    <3>1. init[s] = "pending"
      BY <2>1 DEF RegInv
    <3>2. Inits(chain[1], s1)
      BY <2>2, <3>1 DEF Inits
    <3>. QED
      BY <1>1, <2>1, <2>2, <3>2 DEF RegInv
  <2>. QED
    BY <2>1, <2>2
<1>3. ASSUME NEW i \in DOMAIN chain', NEW s \in Sessions, Inits(chain'[i], s)
      PROVE  /\ init'[s] = "pending"
             /\ entry'.phase \in {"none", "loading"}
             /\ chain'[i].kind = "init" => chain'[i].n = saved'[s]
             /\ chain'[i].kind = "suffix" =>
                  /\ state'.owner = s /\ state'.materialized
                  /\ intruded' \/ state'.cursor <= saved'[s]
  <2>1. /\ i + 1 \in DOMAIN chain /\ Inits(chain[i + 1], s) /\ s # s1
        /\ chain'[i].kind = chain[i + 1].kind /\ chain'[i].n = chain[i + 1].n
    BY <1>1, <1>2, <1>3
  <2>2. /\ init[s] = "pending" /\ entry.phase \in {"none", "loading"}
        /\ chain[i + 1].kind = "init" => chain[i + 1].n = saved[s]
        /\ chain[i + 1].kind = "suffix" =>
             /\ state.owner = s /\ state.materialized
             /\ intruded \/ state.cursor <= saved[s]
    BY <2>1 DEF RegInv
  <2>3. init'[s] = init[s] /\ saved'[s] = saved[s]
    BY <2>1
  <2>4. entry'.phase \in {"none", "loading"}
    BY <2>2
  <2>5. chain[i + 1].kind = "suffix" => state' = state
    BY <2>1, <2>2
  <2>. QED
    BY <2>1, <2>2, <2>3, <2>4, <2>5
<1>4. ASSUME NEW i \in DOMAIN chain', NEW j \in DOMAIN chain', NEW s \in Sessions
      PROVE  /\ Inits(chain'[i], s) /\ Inits(chain'[j], s) => i = j
             /\ Inits(chain'[i], s) /\ chain'[j].current => i < j
             /\ Inits(chain'[i], s) /\ registered' = s /\ chain'[j].kind \in RegKinds => j <= i
  <2>1. /\ i \in Nat /\ j \in Nat /\ i + 1 \in DOMAIN chain /\ j + 1 \in DOMAIN chain
        /\ Inits(chain'[i], s) => Inits(chain[i + 1], s)
        /\ Inits(chain'[j], s) => Inits(chain[j + 1], s)
        /\ chain'[j].current => chain[j + 1].current
        /\ chain'[j].kind = chain[j + 1].kind
    BY <1>1, <1>2
  <2>2. /\ Inits(chain[i + 1], s) /\ Inits(chain[j + 1], s) => i + 1 = j + 1
        /\ Inits(chain[i + 1], s) /\ chain[j + 1].current => i + 1 < j + 1
        /\ Inits(chain[i + 1], s) /\ registered = s /\ chain[j + 1].kind \in RegKinds =>
             j + 1 <= i + 1
    BY <2>1 DEF RegInv
  <2>. QED
    BY <2>1, <2>2
<1>5. ASSUME NEW i \in DOMAIN chain', chain'[i].kind \in RegKinds, registered' # None
      PROVE  init'[registered'] = "pending"
  <2>1. i + 1 \in DOMAIN chain /\ i + 1 # 1 /\ chain[i + 1].kind \in RegKinds
    BY <1>1, <1>5
  <2>2. init[registered] = "pending"
    BY <1>5, <2>1 DEF RegInv
  <2>3. ASSUME registered = s1 PROVE FALSE
    <3>1. Inits(chain[1], s1)
      BY <2>2, <2>3 DEF Inits
    <3>2. i + 1 <= 1
      BY <1>1, <2>1, <2>3, <3>1 DEF RegInv
    <3>. QED
      BY <1>1, <2>1, <3>2
  <2>. QED
    BY <1>5, <2>2, <2>3
<1>6. ASSUME NEW s \in Sessions, init'[s] = "pending"
      PROVE  \E i \in DOMAIN chain' : Inits(chain'[i], s)
  <2>1. s # s1 /\ init[s] = "pending"
    BY <1>6
  <2>2. PICK j \in DOMAIN chain : Inits(chain[j], s)
    BY <2>1 DEF RegInv
  <2>3. j # 1
    BY <2>1, <2>2 DEF Inits
  <2>4. j - 1 \in DOMAIN chain' /\ (j - 1) + 1 = j
    BY <1>1, <2>2, <2>3
  <2>5. Inits(chain'[j - 1], s)
    BY <1>1, <2>2, <2>4 DEF Inits
  <2>. QED
    BY <2>4, <2>5
<1>. QED
  BY <1>3, <1>4, <1>5, <1>6 DEF RegInv

\* The head was an operation of Session s1, whose life goes on in order.
LEMMA LiveDone ==
  ASSUME PrepType, LiveInv, Dequeued \/ Emptied, NEW s1 \in Sessions,
         chain[1].for = {s1}, events' = events, registered' = registered,
         \A t \in Sessions : t # s1 =>
           /\ init'[t] = init[t] /\ saved'[t] = saved[t]
           /\ writing'[t] = writing[t] /\ retiring'[t] = retiring[t],
         writing'[s1] = writing[s1] \/ chain[1].kind = "write",
         retiring[s1] = "release" => retiring'[s1] = "release" \/ chain[1].kind = "release",
         Ordered(s1)'
  PROVE  LiveInv'
<1>1. /\ 1 \in DOMAIN chain
      /\ \A i \in DOMAIN chain' :
           /\ i \in Nat /\ i + 1 \in DOMAIN chain /\ i + 1 # 1
           /\ chain'[i].kind = chain[i + 1].kind /\ chain'[i].n = chain[i + 1].n
           /\ chain'[i].for = chain[i + 1].for
  BY DoneOps
<1>2. ASSUME NEW i \in DOMAIN chain', NEW s \in Sessions
      PROVE  /\ OpOf(chain'[i], "write", s) => writing'[s] # 0 /\ chain'[i].n = writing'[s]
             /\ OpOf(chain'[i], "release", s) => retiring'[s] = "release"
  <2>1. ASSUME OpOf(chain'[i], "write", s)
        PROVE  writing'[s] # 0 /\ chain'[i].n = writing'[s]
    <3>1. i + 1 \in DOMAIN chain /\ OpOf(chain[i + 1], "write", s) /\ i + 1 # 1
      BY <1>1, <2>1 DEF OpOf
    <3>2. writing[s] # 0 /\ chain[i + 1].n = writing[s]
      BY <3>1 DEF LiveInv
    <3>3. ASSUME s = s1 PROVE writing'[s] = writing[s]
      <4>1. ASSUME chain[1].kind = "write" PROVE FALSE
        <5>1. OpOf(chain[1], "write", s)
          BY <3>3, <4>1 DEF OpOf
        <5>. QED
          BY <1>1, <3>1, <5>1 DEF LiveInv
      <4>. QED
        BY <3>3, <4>1
    <3>. QED
      BY <1>1, <3>2, <3>3
  <2>2. ASSUME OpOf(chain'[i], "release", s)
        PROVE  retiring'[s] = "release"
    <3>1. i + 1 \in DOMAIN chain /\ OpOf(chain[i + 1], "release", s) /\ i + 1 # 1
      BY <1>1, <2>2 DEF OpOf
    <3>2. retiring[s] = "release"
      BY <3>1 DEF LiveInv
    <3>3. ASSUME s = s1 PROVE chain[1].kind # "release"
      <4>1. ASSUME chain[1].kind = "release" PROVE FALSE
        <5>1. OpOf(chain[1], "release", s)
          BY <3>3, <4>1 DEF OpOf
        <5>. QED
          BY <1>1, <3>1, <5>1 DEF LiveInv
      <4>. QED
        BY <4>1
    <3>. QED
      BY <3>2, <3>3
  <2>. QED
    BY <2>1, <2>2
<1>3. ASSUME NEW i \in DOMAIN chain', NEW j \in DOMAIN chain', NEW s \in Sessions,
             NEW k \in {"write", "release"}, OpOf(chain'[i], k, s), OpOf(chain'[j], k, s)
      PROVE  i = j
  <2>1. /\ i + 1 \in DOMAIN chain /\ OpOf(chain[i + 1], k, s)
        /\ j + 1 \in DOMAIN chain /\ OpOf(chain[j + 1], k, s)
    BY <1>1, <1>3 DEF OpOf
  <2>2. i + 1 = j + 1
    BY <2>1 DEF LiveInv
  <2>. QED
    BY <1>1, <2>2
<1>4. ASSUME NEW s \in Sessions
      PROVE  Ordered(s)'
  <2>1. CASE s = s1
    BY <2>1
  <2>2. CASE s # s1
    <3>1. Ordered(s)
      BY DEF LiveInv
    <3>. QED
      BY <2>2, <3>1 DEF Ordered
  <2>. QED
    BY <2>1, <2>2
<1>. QED
  BY <1>2, <1>3, <1>4 DEF LiveInv

-----------------------------------------------------------------------------
(* An operation of a Session joins the chain, or none does.                *)

\* A batch or a release joins the chain when its Session has none.
LEMMA LiveAdded ==
  ASSUME PrepType, LiveInv,
         chain' = chain \/ \E op \in OpType :
           /\ Queue(op)
           /\ \A t \in Sessions :
                /\ OpOf(op, "write", t) => writing[t] = 0 /\ writing'[t] = op.n /\ op.n # 0
                /\ OpOf(op, "release", t) =>
                     retiring[t] # "release" /\ retiring'[t] = "release",
         \A t \in Sessions : /\ writing[t] # 0 => writing'[t] = writing[t]
                             /\ retiring[t] = "release" => retiring'[t] = "release"
                             /\ Ordered(t)'
  PROVE  LiveInv'
<1>1. CASE chain' = chain
  BY <1>1 DEF LiveInv
<1>2. CASE chain' # chain
  <2>1. PICK op \in OpType :
           /\ Queue(op)
           /\ \A t \in Sessions :
                /\ OpOf(op, "write", t) => writing[t] = 0 /\ writing'[t] = op.n /\ op.n # 0
                /\ OpOf(op, "release", t) =>
                     retiring[t] # "release" /\ retiring'[t] = "release"
    BY <1>2
  <2>2. \A i \in DOMAIN chain' :
          (i \in DOMAIN chain /\ chain'[i] = chain[i]) \/ (i = Len(chain) + 1 /\ chain'[i] = op)
    BY <2>1, QueueFacts
  <2>3. ASSUME NEW i \in DOMAIN chain', NEW t \in Sessions
        PROVE  /\ OpOf(chain'[i], "write", t) => writing'[t] # 0 /\ chain'[i].n = writing'[t]
               /\ OpOf(chain'[i], "release", t) => retiring'[t] = "release"
    <3>1. CASE i \in DOMAIN chain /\ chain'[i] = chain[i]
      BY <3>1 DEF LiveInv
    <3>2. CASE chain'[i] = op
      BY <2>1, <3>2
    <3>. QED
      BY <2>2, <3>1, <3>2
  <2>4. ASSUME NEW t \in Sessions, NEW k \in {"write", "release"}, OpOf(op, k, t),
               NEW i \in DOMAIN chain, OpOf(chain[i], k, t)
        PROVE  FALSE
    <3>1. CASE k = "write"
      BY <2>1, <2>4, <3>1 DEF LiveInv
    <3>2. CASE k = "release"
      BY <2>1, <2>4, <3>2 DEF LiveInv
    <3>. QED
      BY <3>1, <3>2
  <2>5. ASSUME NEW i \in DOMAIN chain', NEW j \in DOMAIN chain', NEW t \in Sessions,
               NEW k \in {"write", "release"}, OpOf(chain'[i], k, t), OpOf(chain'[j], k, t)
        PROVE  i = j
    <3>1. CASE i \in DOMAIN chain /\ j \in DOMAIN chain /\ chain'[i] = chain[i]
               /\ chain'[j] = chain[j]
      BY <2>5, <3>1 DEF LiveInv
    <3>2. CASE i = Len(chain) + 1 /\ j = Len(chain) + 1
      BY <3>2
    <3>. QED
      BY <2>2, <2>4, <2>5, <3>1, <3>2
  <2>. QED
    BY <2>3, <2>5 DEF LiveInv
<1>. QED
  BY <1>1, <1>2

\* A batch or a release initializes nothing.
LEMMA RegStill ==
  ASSUME PrepType, RegInv,
         chain' = chain \/ \E op \in OpType : Queue(op) /\ op.kind \in {"write", "release"}
                                              /\ ~ op.current,
         registered' \in {registered, None},
         UNCHANGED <<init, saved, state, intruded>>, entry' = entry
  PROVE  RegInv'
<1>1. ASSUME NEW i \in DOMAIN chain', chain'[i].kind \in RegKinds \/ chain'[i].current
      PROVE  i \in DOMAIN chain /\ chain'[i] = chain[i]
  <2>1. CASE chain' = chain
    BY <2>1
  <2>2. CASE chain' # chain
    <3>1. PICK op \in OpType : /\ Queue(op)
                               /\ op.kind \in {"write", "release"} /\ ~ op.current
      BY <2>2
    <3>2. (i \in DOMAIN chain /\ chain'[i] = chain[i]) \/ chain'[i] = op
      BY <3>1, QueueFacts
    <3>3. op.kind \notin RegKinds
      BY <3>1 DEF RegKinds
    <3>. QED
      BY <1>1, <3>1, <3>2, <3>3
  <2>. QED
    BY <2>1, <2>2
<1>2. \A j \in DOMAIN chain : j \in DOMAIN chain' /\ chain'[j] = chain[j]
  BY QueueFacts
<1>3. ASSUME NEW i \in DOMAIN chain', NEW s \in Sessions, Inits(chain'[i], s)
      PROVE  i \in DOMAIN chain /\ chain'[i] = chain[i]
  BY <1>1, <1>3 DEF Inits
<1>4. ASSUME NEW i \in DOMAIN chain', NEW s \in Sessions, Inits(chain'[i], s)
      PROVE  /\ init[s] = "pending"
             /\ entry.phase \in {"none", "loading"}
             /\ chain'[i].kind = "init" => chain'[i].n = saved[s]
             /\ chain'[i].kind = "suffix" =>
                  /\ state.owner = s /\ state.materialized
                  /\ intruded \/ state.cursor <= saved[s]
  BY <1>3, <1>4 DEF RegInv
<1>5. ASSUME NEW i \in DOMAIN chain', NEW j \in DOMAIN chain', NEW s \in Sessions
      PROVE  /\ Inits(chain'[i], s) /\ Inits(chain'[j], s) => i = j
             /\ Inits(chain'[i], s) /\ chain'[j].current => i < j
             /\ Inits(chain'[i], s) /\ registered' = s /\ chain'[j].kind \in RegKinds => j <= i
  <2>1. Inits(chain'[i], s) /\ Inits(chain'[j], s) => i = j
    BY <1>3 DEF RegInv
  <2>2. Inits(chain'[i], s) /\ chain'[j].current => i < j
    BY <1>1, <1>3 DEF RegInv
  <2>3. ASSUME Inits(chain'[i], s), registered' = s, chain'[j].kind \in RegKinds
        PROVE  j <= i
    <3>1. registered = s
      BY <2>3, NoneAssumption
    <3>. QED
      BY <1>1, <1>3, <2>3, <3>1 DEF RegInv
  <2>. QED
    BY <2>1, <2>2, <2>3
<1>6. ASSUME NEW i \in DOMAIN chain', chain'[i].kind \in RegKinds, registered' # None
      PROVE  init[registered'] = "pending"
  BY <1>1, <1>6 DEF RegInv
<1>7. ASSUME NEW s \in Sessions, init[s] = "pending"
      PROVE  \E i \in DOMAIN chain' : Inits(chain'[i], s)
  BY <1>2, <1>7 DEF RegInv
<1>. QED
  BY <1>4, <1>5, <1>6, <1>7 DEF RegInv

\* A Session enters with its initialization, behind every read of the entry.
LEMMA RegAdded ==
  ASSUME PrepType, LiveType, OpsInv, RegInv, NEW s \in Sessions, NEW log, Registers(s, log),
         NEW op \in OpType, Queue(op), Inits(op, s), ~ op.current,
         entry.phase # "loading", entry'.phase = "none",
         op.kind = "init" => op.n = Len(log),
         op.kind = "suffix" => /\ state'.owner = s /\ state'.materialized
                               /\ intruded' \/ state'.cursor <= Len(log),
         entry.phase = "none" => state' = state /\ intruded' = intruded
  PROVE  RegInv'
<1>1. \A i \in DOMAIN chain' :
        (i \in DOMAIN chain /\ chain'[i] = chain[i]) \/ (i = Len(chain) + 1 /\ chain'[i] = op)
  BY QueueFacts
<1>2. /\ Len(chain) \in Nat /\ DOMAIN chain = 1 .. Len(chain)
      /\ Len(chain) + 1 \in DOMAIN chain' /\ chain'[Len(chain) + 1] = op
      /\ \A j \in DOMAIN chain : j \in DOMAIN chain' /\ chain'[j] = chain[j]
  BY QueueFacts
<1>3. /\ registered = None /\ registered' = s /\ init[s] = "unused"
      /\ init'[s] = "pending" /\ saved'[s] = Len(log)
      /\ \A t \in Sessions : t # s => init'[t] = init[t] /\ saved'[t] = saved[t]
  BY DEF Registers, LiveType
<1>4. ASSUME NEW j \in DOMAIN chain, NEW t \in Sessions, Inits(chain[j], t)
      PROVE  t # s /\ entry.phase = "none"
  BY <1>3, <1>4 DEF RegInv
<1>5. \A j \in DOMAIN chain : ~ chain[j].current
  BY DEF OpsInv
<1>6. ASSUME NEW i \in DOMAIN chain', NEW t \in Sessions, Inits(chain'[i], t)
      PROVE  /\ init'[t] = "pending"
             /\ entry'.phase \in {"none", "loading"}
             /\ chain'[i].kind = "init" => chain'[i].n = saved'[t]
             /\ chain'[i].kind = "suffix" =>
                  /\ state'.owner = t /\ state'.materialized
                  /\ intruded' \/ state'.cursor <= saved'[t]
  <2>1. CASE i \in DOMAIN chain /\ chain'[i] = chain[i]
    <3>1. /\ init[t] = "pending"
          /\ chain[i].kind = "init" => chain[i].n = saved[t]
          /\ chain[i].kind = "suffix" =>
               /\ state.owner = t /\ state.materialized
               /\ intruded \/ state.cursor <= saved[t]
      BY <1>6, <2>1 DEF RegInv
    <3>2. t # s /\ state' = state /\ intruded' = intruded
      BY <1>4, <1>6, <2>1
    <3>. QED
      BY <1>3, <2>1, <3>1, <3>2
  <2>2. CASE i = Len(chain) + 1 /\ chain'[i] = op
    <3>1. t = s
      BY <1>6, <2>2 DEF Inits
    <3>. QED
      BY <1>3, <2>2, <3>1
  <2>. QED
    BY <1>1, <2>1, <2>2
<1>7. ASSUME NEW i \in DOMAIN chain', NEW j \in DOMAIN chain', NEW t \in Sessions
      PROVE  /\ Inits(chain'[i], t) /\ Inits(chain'[j], t) => i = j
             /\ Inits(chain'[i], t) /\ chain'[j].current => i < j
             /\ Inits(chain'[i], t) /\ registered' = t /\ chain'[j].kind \in RegKinds => j <= i
  <2>1. ~ chain'[j].current
    BY <1>1, <1>5
  <2>2. ASSUME Inits(chain'[i], s) PROVE i = Len(chain) + 1
    BY <1>1, <1>4, <2>2
  <2>3. Inits(chain'[i], s) /\ Inits(chain'[j], s) => i = j
    BY <1>1, <1>4
  <2>4. ASSUME t # s, Inits(chain'[i], t), Inits(chain'[j], t) PROVE i = j
    <3>1. ~ Inits(op, t)
      BY <2>4 DEF Inits
    <3>2. i \in DOMAIN chain /\ Inits(chain[i], t) /\ j \in DOMAIN chain /\ Inits(chain[j], t)
      BY <1>1, <2>4, <3>1
    <3>. QED
      BY <3>2 DEF RegInv
  <2>5. j <= Len(chain) + 1
    BY <1>1, <1>2
  <2>. QED
    BY <1>3, <2>1, <2>2, <2>3, <2>4, <2>5
<1>8. ASSUME NEW t \in Sessions, init'[t] = "pending"
      PROVE  \E i \in DOMAIN chain' : Inits(chain'[i], t)
  <2>1. CASE t = s
    BY <1>2, <2>1
  <2>2. CASE t # s
    <3>1. PICK j \in DOMAIN chain : Inits(chain[j], t)
      BY <1>3, <1>8, <2>2 DEF RegInv
    <3>. QED
      BY <1>2, <3>1
  <2>. QED
    BY <2>1, <2>2
<1>. QED
  BY <1>3, <1>6, <1>7, <1>8 DEF RegInv

-----------------------------------------------------------------------------
(* The lives of the Sessions and their claims, step by step.               *)

\* onCreated().
LEMMA InitLives ==
  ASSUME IInv, PrepType', InitRuns
  PROVE  RegInv' /\ LiveInv' /\ OwnerInv'
<1>. USE DEF IInv
<1>1. Types /\ LiveType /\ PrepType /\ DiskType
  BY DEF Types
<1>2. PICK s \in Sessions, n \in Nat :
        /\ chain # <<>> /\ OpOf(chain[1], "init", s) /\ Inits(chain[1], s)
        /\ InitRefused(s) \/ InitClaims(s, n) \/ InitWrites(s, n)
        /\ UNCHANGED <<registered, events, saved, writing, retiring, retirement, external>>
  BY <1>1, InitRunsFacts
<1>3. /\ 1 \in DOMAIN chain /\ init[s] = "pending" /\ chain[1].for = {s}
      /\ chain[1].kind \in RegKinds
      /\ registered # None => init[registered] = "pending"
  <2>1. 1 \in DOMAIN chain
    BY <1>1, <1>2, HeadFacts
  <2>. QED
    BY <1>2, <2>1 DEF RegInv, Inits
<1>4. \E result \in {"ok", "failed"} : init' = [init EXCEPT ![s] = result]
  BY <1>2 DEF InitRefused, InitClaims, InitWrites
<1>5. /\ init'[s] \in {"ok", "failed"}
      /\ \A t \in Sessions : t # s => init'[t] = init[t]
  BY <1>1, <1>4 DEF LiveType
<1>6. intruded => intruded'
  <2>1. InitRefused(s) => (intruded => intruded')
    BY DEF InitRefused
  <2>2. \A cursor : Takes(s, n, cursor) => (intruded => intruded')
    BY DEF Takes
  <2>3. InitClaims(s, n) => \E cursor : Takes(s, n, cursor)
    BY DEF InitClaims
  <2>4. InitWrites(s, n) => \E cursor : Takes(s, n, cursor)
    BY DEF InitWrites
  <2>. QED
    BY <1>2, <2>1, <2>2, <2>3, <2>4
<1>7. /\ Dequeued \/ Emptied
      /\ entry' = entry \/ entry'.phase = "none"
  <2>1. Rests \/ Clears
    BY <1>2 DEF InitRefused, InitClaims, InitWrites
  <2>. QED
    BY <2>1 DEF Rests, Clears, Removed, NoEntry
<1>8. \/ state' = state
      \/ Abandons /\ state' = Untracked
      \/ (state.owner = None \/ Abandons) /\ state'.owner = s
  <2>1. InitRefused(s) => state' = state \/ (Abandons /\ state' = Untracked)
    BY DEF InitRefused
  <2>2. InitClaims(s, n) => (state.owner = None \/ Abandons) /\ state'.owner = s
    BY DEF InitClaims, Takes
  <2>3. InitWrites(s, n) => (state.owner = None \/ Abandons) /\ state'.owner = s
    BY DEF InitWrites, Takes, Tracked
  <2>. QED
    BY <1>2, <2>1, <2>2, <2>3
<1>9. RegInv'
  <2>1. ASSUME NEW t \in Sessions, t # s, state.owner = t, state.materialized
        PROVE  state' = state
    BY <1>8, <2>1, NoneAssumption DEF Abandons
  <2>2. registered \in Sessions \cup {None} /\ saved' = saved /\ registered' = registered
    BY <1>1, <1>2 DEF LiveType
  <2>. QED
    BY <1>1, <1>3, <1>5, <1>6, <1>7, <2>1, <2>2, RegDone
<1>10. LiveInv'
  <2>1. Ordered(s)
    BY DEF LiveInv
  <2>2. Ordered(s)'
    BY <1>2, <1>3, <1>5, <2>1 DEF Ordered
  <2>. QED
    BY <1>1, <1>2, <1>3, <1>5, <1>7, <2>2, LiveDone
<1>11. OwnerInv'
  <2>1. ASSUME NEW t \in Sessions, init[t] = "ok",
               registered = t \/ saved[t] < Len(events[t])
        PROVE  state.owner = t /\ ~ Abandons
    <3>1. state.owner = t
      BY <2>1 DEF OwnerInv
    <3>2. registered # t
      BY <1>3, <2>1, NoneAssumption
    <3>. QED
      BY <2>1, <3>1, <3>2 DEF Abandons, HasWork
  <2>2. ASSUME NEW t \in Sessions, state'.owner = t
        PROVE  init'[t] \notin {"unused", "gone"}
    <3>1. CASE t = s
      BY <1>5, <3>1
    <3>2. CASE t # s
      <4>1. state.owner = t
        BY <1>8, <2>2, <3>2, NoneAssumption DEF Untracked
      <4>. QED
        BY <1>5, <3>2, <4>1 DEF OwnerInv
    <3>. QED
      BY <3>1, <3>2
  <2>3. ASSUME NEW t \in Sessions, init'[t] = "ok",
               registered' = t \/ saved'[t] < Len(events'[t])
        PROVE  state'.owner = t
    <3>1. CASE t # s
      <4>1. init[t] = "ok" /\ (registered = t \/ saved[t] < Len(events[t]))
        BY <1>2, <1>5, <2>3, <3>1
      <4>2. state.owner = t /\ ~ Abandons /\ state.owner # None
        BY <2>1, <4>1, NoneAssumption
      <4>. QED
        BY <1>8, <4>2
    <3>2. CASE t = s
      <4>1. ~ InitRefused(s)
        BY <1>1, <2>3, <3>2 DEF InitRefused, LiveType
      <4>2. InitClaims(s, n) => state'.owner = s
        BY DEF InitClaims
      <4>3. InitWrites(s, n) => state'.owner = s
        BY DEF InitWrites, Tracked
      <4>. QED
        BY <1>2, <3>2, <4>1, <4>2, <4>3
    <3>. QED
      BY <3>1, <3>2
  <2>. QED
    BY <2>2, <2>3 DEF OwnerInv
<1>. QED
  BY <1>9, <1>10, <1>11

\* The append of attachPrepared().
LEMMA SuffixLives ==
  ASSUME IInv, PrepType', SuffixRuns
  PROVE  RegInv' /\ LiveInv' /\ OwnerInv'
<1>. USE DEF IInv
<1>1. Types /\ LiveType /\ PrepType /\ DiskType
  BY DEF Types
<1>2. PICK s \in Sessions :
        /\ chain # <<>> /\ OpOf(chain[1], "suffix", s) /\ Inits(chain[1], s)
        /\ SuffixFails(s) \/ SuffixWrites(s)
        /\ UNCHANGED <<torn, registered, events, saved, writing, retiring, retirement,
                       external, intruded>>
  BY <1>1, SuffixRunsFacts
<1>3. /\ 1 \in DOMAIN chain /\ init[s] = "pending" /\ chain[1].for = {s}
      /\ chain[1].kind \in RegKinds /\ state.owner = s
  <2>1. 1 \in DOMAIN chain
    BY <1>1, <1>2, HeadFacts
  <2>. QED
    BY <1>2, <2>1 DEF RegInv, Inits, OpOf
<1>4. \E result \in {"ok", "failed"} : init' = [init EXCEPT ![s] = result]
  BY <1>2 DEF SuffixFails, SuffixWrites
<1>5. /\ init'[s] \in {"ok", "failed"}
      /\ \A t \in Sessions : t # s => init'[t] = init[t]
  BY <1>1, <1>4 DEF LiveType
<1>6. /\ Dequeued \/ Emptied
      /\ entry' = entry \/ entry'.phase = "none"
      /\ state'.owner = s
  BY <1>2, <1>3 DEF SuffixFails, SuffixWrites, Rests, Clears, Removed, NoEntry, Tracked
<1>7. RegInv'
  <2>1. /\ registered \in Sessions \cup {None} /\ saved' = saved
        /\ registered' = registered /\ (intruded => intruded')
    BY <1>1, <1>2 DEF LiveType
  <2>. QED
    BY <1>1, <1>3, <1>5, <1>6, <2>1, RegDone
<1>8. LiveInv'
  <2>1. Ordered(s)
    BY DEF LiveInv
  <2>2. Ordered(s)'
    BY <1>2, <1>3, <1>5, <2>1 DEF Ordered
  <2>. QED
    BY <1>1, <1>2, <1>3, <1>5, <1>6, <2>2, LiveDone
<1>9. OwnerInv'
  BY <1>2, <1>3, <1>5, <1>6 DEF OwnerInv
<1>. QED
  BY <1>7, <1>8, <1>9

\* A batch: it was in flight, so its Session owns the log.
LEMMA WriteLives ==
  ASSUME IInv, PrepType', LiveType', WriteRuns
  PROVE  RegInv' /\ LiveInv' /\ OwnerInv'
<1>. USE DEF IInv
<1>1. Types /\ LiveType /\ PrepType /\ DiskType
  BY DEF Types
<1>2. PICK s \in Sessions, n \in Nat :
        /\ chain # <<>> /\ OpOf(chain[1], "write", s)
        /\ n = writing[s] /\ n # 0 /\ n <= Len(events[s])
        /\ writing' = [writing EXCEPT ![s] = 0]
        /\ WriteSkips(s, n) \/ WriteStores(s, n) \/ WriteFails(s)
        /\ UNCHANGED <<torn, registered, events, init, external, intruded>>
  BY <1>1, WriteRunsFacts
<1>3. /\ chain[1].for = {s} /\ chain[1].kind = "write"
      /\ Ordered(s) /\ init[s] = "ok" /\ saved[s] < n /\ retiring[s] \in {"no", "flush"}
  BY <1>2 DEF OpOf, LiveInv, Ordered
<1>4. /\ saved[s] \in Nat /\ Len(events[s]) \in Nat /\ saved[s] < Len(events[s])
      /\ state.owner = s
  <2>1. saved[s] \in Nat /\ Len(events[s]) \in Nat /\ saved[s] < Len(events[s])
    BY <1>1, <1>2, <1>3 DEF LiveType
  <2>. QED
    BY <1>3, <2>1 DEF OwnerInv
<1>5. /\ saved'[s] \in {n, saved[s]}
      /\ \A t \in Sessions : t # s => saved'[t] = saved[t]
      /\ writing'[s] = 0 /\ \A t \in Sessions : t # s => writing'[t] = writing[t]
      /\ retiring'[s] = retiring[s] \/ (retiring[s] = "flush" /\ retiring'[s] = "failed")
      /\ \A t \in Sessions : t # s => retiring'[t] = retiring[t]
      /\ state'.owner = s
      /\ Dequeued \/ Emptied
      /\ entry' = entry \/ entry'.phase = "none"
  <2>1. CASE WriteSkips(s, n)
    BY <1>1, <1>2, <1>4, <2>1 DEF WriteSkips, LiveType, Rests
  <2>2. CASE WriteStores(s, n)
    BY <1>1, <1>2, <1>4, <2>2 DEF WriteStores, LiveType, Clears, Removed, NoEntry, Tracked
  <2>3. CASE WriteFails(s)
    BY <1>1, <1>2, <1>4, <2>3 DEF WriteFails, LiveType, Left
  <2>. QED
    BY <1>2, <2>1, <2>2, <2>3
<1>6. RegInv'
  <2>1. registered \in Sessions \cup {None} /\ (intruded => intruded')
    BY <1>1, <1>2 DEF LiveType
  <2>2. /\ init[s] # "pending" /\ init'[s] # "pending" /\ registered' = registered
        /\ \A t \in Sessions : t # s => init'[t] = init[t] /\ saved'[t] = saved[t]
    BY <1>2, <1>3, <1>5
  <2>. QED
    BY <1>1, <1>3, <1>4, <1>5, <2>1, <2>2, RegDone
<1>7. LiveInv'
  <2>1. Ordered(s)'
    BY <1>2, <1>3, <1>5 DEF Ordered
  <2>2. retiring[s] = "release" => retiring'[s] = "release"
    BY <1>3
  <2>. QED
    BY <1>1, <1>2, <1>3, <1>5, <2>1, <2>2, LiveDone
<1>8. OwnerInv'
  <2>1. \A t \in Sessions : t # s => state.owner # t
    BY <1>4
  <2>. QED
    BY <1>2, <1>3, <1>4, <1>5, <2>1 DEF OwnerInv
<1>. QED
  BY <1>6, <1>7, <1>8

\* A release: it gives up the claim of a Session with nothing left to write.
LEMMA ReleaseLives ==
  ASSUME IInv, PrepType', ReleaseRuns
  PROVE  RegInv' /\ LiveInv' /\ OwnerInv'
<1>. USE DEF IInv
<1>1. Types /\ LiveType /\ PrepType /\ DiskType
  BY DEF Types
<1>2. PICK s \in Sessions :
        /\ chain # <<>> /\ OpOf(chain[1], "release", s)
        /\ Rests
        /\ init' = [init EXCEPT ![s] = "gone"]
        /\ state' = IF state.owner = s THEN Untracked ELSE state
        /\ retiring' = [retiring EXCEPT ![s] = "done"]
        /\ UNCHANGED <<disk, registered, events, saved, writing, history>>
  BY <1>1, ReleaseRunsFacts
<1>3. /\ chain[1].for = {s} /\ chain[1].kind = "release"
      /\ Ordered(s) /\ init[s] = "ok" /\ retiring[s] = "release"
      /\ saved[s] = Len(events[s]) /\ registered # s
  <2>1. 1 \in DOMAIN chain
    BY <1>1, <1>2, HeadFacts
  <2>2. retiring[s] = "release" /\ Ordered(s)
    BY <1>2, <2>1 DEF LiveInv
  <2>. QED
    BY <1>2, <2>2 DEF OpOf, Ordered
<1>4. /\ init'[s] = "gone" /\ retiring'[s] = "done"
      /\ \A t \in Sessions : t # s => init'[t] = init[t] /\ retiring'[t] = retiring[t]
  BY <1>1, <1>2 DEF LiveType
<1>5. Dequeued /\ entry' = entry
  BY <1>2 DEF Rests
<1>6. RegInv'
  <2>1. /\ registered \in Sessions \cup {None} /\ (intruded => intruded')
        /\ registered' = registered /\ saved' = saved
    BY <1>1, <1>2 DEF LiveType, history
  <2>2. \A t \in Sessions : t # s /\ state.owner = t => state' = state
    BY <1>2
  <2>. QED
    BY <1>1, <1>3, <1>4, <1>5, <2>1, <2>2, RegDone
<1>7. LiveInv'
  <2>1. writing[s] = 0
    BY <1>3 DEF Ordered
  <2>2. Ordered(s)'
    BY <1>2, <1>3, <1>4, <2>1 DEF Ordered
  <2>. QED
    BY <1>1, <1>2, <1>3, <1>4, <1>5, <2>2, LiveDone
<1>8. OwnerInv'
  <2>1. ASSUME NEW t \in Sessions, state'.owner = t
        PROVE  init'[t] \notin {"unused", "gone"}
    <3>1. state.owner = t /\ t # s
      BY <1>2, <2>1, NoneAssumption DEF Untracked
    <3>. QED
      BY <1>4, <3>1 DEF OwnerInv
  <2>2. ASSUME NEW t \in Sessions, init'[t] = "ok",
               registered' = t \/ saved'[t] < Len(events'[t])
        PROVE  state'.owner = t
    <3>1. t # s /\ init[t] = "ok" /\ (registered = t \/ saved[t] < Len(events[t]))
      BY <1>2, <1>4, <2>2
    <3>2. state.owner = t
      BY <3>1 DEF OwnerInv
    <3>. QED
      BY <1>2, <3>1, <3>2
  <2>. QED
    BY <2>1, <2>2 DEF OwnerInv
<1>. QED
  BY <1>6, <1>7, <1>8

\* The prepared Session goes live as the owner of the log.
LEMMA PublishLives ==
  ASSUME IInv, PrepType', LiveType', NEW c \in Callers, NEW s \in Sessions, Publish(c, s)
  PROVE  RegInv' /\ LiveInv' /\ OwnerInv'
<1>. USE DEF IInv
<1>1. Types /\ LiveType /\ PrepType /\ DiskType
  BY DEF Types
<1>2. call[c].at = "held" /\ call[c].mine /\ entry.phase = "reserved" /\ state.owner = None
      /\ state.materialized
  BY DEF EntryInv, Publish
<1>3. /\ Removed({c}) /\ state' = [state EXCEPT !.owner = s]
      /\ Op("suffix", {s}, state.cursor, FALSE) \in OpType
      /\ Queue(Op("suffix", {s}, state.cursor, FALSE))
      /\ UNCHANGED <<disk, running, history>>
      /\ \E log \in Seq(EventType) :
           Registers(s, log) /\ Len(log) > Len(call[c].source.log)
  BY <1>1, <1>2, PublishFacts
<1>4. PICK log \in Seq(EventType) : Registers(s, log) /\ Len(log) > Len(call[c].source.log)
  BY <1>3
<1>. DEFINE op == Op("suffix", {s}, state.cursor, FALSE)
<1>5. /\ op \in OpType /\ Queue(op) /\ Inits(op, s) /\ ~ op.current /\ op.kind = "suffix"
  BY <1>3 DEF Op, Inits, RegKinds
<1>. HIDE DEF op
<1>6. state'.owner = s /\ state'.materialized /\ state'.cursor = state.cursor
  BY <1>1, <1>2, <1>3 DEF PrepType, StateType
<1>7. intruded' = intruded
  BY <1>3 DEF history
<1>8. intruded \/ state.cursor <= Len(log)
  <2>1. /\ Len(call[c].source.log) <= Len(store)
        /\ intruded \/ (call[c].source = Cold(store, torn) /\ state.cursor = Len(store))
    BY <1>2 DEF HeldInv
  <2>2. call[c].source = Cold(store, torn) => call[c].source.log = store
    BY DEF Cold
  <2>3. Len(store) \in Nat /\ Len(log) \in Nat
    BY <1>1 DEF DiskType
  <2>. QED
    BY <1>4, <2>1, <2>2, <2>3
<1>9. RegInv'
  <2>1. /\ entry.phase # "loading" /\ entry'.phase = "none" /\ entry.phase # "none"
        /\ op.kind # "init"
    BY <1>2, <1>3, <1>5 DEF Removed, NoEntry
  <2>2. intruded' \/ state'.cursor <= Len(log)
    BY <1>6, <1>7, <1>8
  <2>. QED
    BY <1>1, <1>4, <1>5, <1>6, <2>1, <2>2, RegAdded
<1>10. /\ registered = None /\ registered' = s /\ init[s] = "unused" /\ init'[s] = "pending"
       /\ \A t \in Sessions : t # s => init'[t] = init[t] /\ saved'[t] = saved[t]
                                       /\ events'[t] = events[t]
       /\ writing' = writing /\ retiring' = retiring
  BY <1>1, <1>4 DEF Registers, LiveType
<1>11. ASSUME NEW t \in Sessions PROVE Ordered(t)'
  <2>1. Ordered(t)
    BY DEF LiveInv
  <2>2. CASE t = s
    BY <1>10, <2>1, <2>2 DEF Ordered
  <2>3. CASE t # s
    BY <1>10, <2>1, <2>3 DEF Ordered
  <2>. QED
    BY <2>2, <2>3
<1>12. LiveInv'
  <2>1. \A t \in Sessions : ~ OpOf(op, "write", t) /\ ~ OpOf(op, "release", t)
    BY <1>5 DEF OpOf
  <2>. QED
    BY <1>1, <1>5, <1>10, <1>11, <2>1, LiveAdded
<1>13. OwnerInv'
  <2>1. ASSUME NEW t \in Sessions, init'[t] = "ok",
               registered' = t \/ saved'[t] < Len(events'[t])
        PROVE  FALSE
    <3>1. t # s /\ init[t] = "ok" /\ saved[t] < Len(events[t])
      BY <1>10, <2>1
    <3>2. state.owner = t
      BY <3>1 DEF OwnerInv
    <3>. QED
      BY <1>2, <3>2, NoneAssumption
  <2>2. \A t \in Sessions : state'.owner = t => init'[t] = "pending"
    BY <1>6, <1>10
  <2>. QED
    BY <2>1, <2>2 DEF OwnerInv
<1>. QED
  BY <1>9, <1>12, <1>13

\* A Session is created here, with no claim yet.
LEMMA CreateLives ==
  ASSUME IInv, PrepType', LiveType', NEW s \in Sessions, Create(s)
  PROVE  RegInv' /\ LiveInv' /\ OwnerInv'
<1>. USE DEF IInv
<1>1. Types /\ LiveType /\ PrepType /\ DiskType
  BY DEF Types
<1>2. /\ entry.phase = "none" /\ entry' = entry
      /\ UNCHANGED <<disk, state, running, history>>
      /\ \E log \in Seq(EventType) :
           /\ Registers(s, log)
           /\ Op("init", {s}, Len(log), FALSE) \in OpType
           /\ Queue(Op("init", {s}, Len(log), FALSE))
  BY <1>1, CreateFacts
<1>3. PICK log \in Seq(EventType) :
           /\ Registers(s, log)
           /\ Op("init", {s}, Len(log), FALSE) \in OpType
           /\ Queue(Op("init", {s}, Len(log), FALSE))
  BY <1>2
<1>. DEFINE op == Op("init", {s}, Len(log), FALSE)
<1>4. /\ op \in OpType /\ Queue(op) /\ Inits(op, s) /\ ~ op.current /\ op.kind = "init"
      /\ op.n = Len(log)
  BY <1>3 DEF Op, Inits, RegKinds
<1>. HIDE DEF op
<1>5. state' = state /\ intruded' = intruded
  BY <1>2 DEF history
<1>6. RegInv'
  <2>1. entry.phase # "loading" /\ entry'.phase = "none" /\ op.kind # "suffix"
    BY <1>2, <1>4
  <2>. QED
    BY <1>1, <1>3, <1>4, <1>5, <2>1, RegAdded
<1>7. /\ registered = None /\ registered' = s /\ init[s] = "unused" /\ init'[s] = "pending"
      /\ \A t \in Sessions : t # s => init'[t] = init[t] /\ saved'[t] = saved[t]
                                      /\ events'[t] = events[t]
      /\ writing' = writing /\ retiring' = retiring
  BY <1>1, <1>3 DEF Registers, LiveType
<1>8. ASSUME NEW t \in Sessions PROVE Ordered(t)'
  <2>1. Ordered(t)
    BY DEF LiveInv
  <2>2. CASE t = s
    BY <1>7, <2>1, <2>2 DEF Ordered
  <2>3. CASE t # s
    BY <1>7, <2>1, <2>3 DEF Ordered
  <2>. QED
    BY <2>2, <2>3
<1>9. LiveInv'
  <2>1. \A t \in Sessions : ~ OpOf(op, "write", t) /\ ~ OpOf(op, "release", t)
    BY <1>4 DEF OpOf
  <2>. QED
    BY <1>1, <1>4, <1>7, <1>8, <2>1, LiveAdded
<1>10. OwnerInv'
  <2>1. ASSUME NEW t \in Sessions, init'[t] = "ok",
               registered' = t \/ saved'[t] < Len(events'[t])
        PROVE  state'.owner = t
    <3>1. t # s /\ init[t] = "ok" /\ saved[t] < Len(events[t])
      BY <1>7, <2>1
    <3>. QED
      BY <1>5, <3>1 DEF OwnerInv
  <2>2. ASSUME NEW t \in Sessions, state'.owner = t
        PROVE  init'[t] \notin {"unused", "gone"}
    <3>1. init[t] \notin {"unused", "gone"}
      BY <1>5, <2>2 DEF OwnerInv
    <3>. QED
      BY <1>7, <3>1
  <2>. QED
    BY <2>1, <2>2 DEF OwnerInv
<1>. QED
  BY <1>6, <1>9, <1>10

\* What a live Session does between its operations.
LEMMA SessionLives ==
  ASSUME IInv, PrepType', LiveType', NEW s \in Sessions,
         Emit(s) \/ StartWrite(s) \/ RetireFlushed(s) \/ Dispose(s)
  PROVE  RegInv' /\ LiveInv' /\ OwnerInv'
<1>. USE DEF IInv
<1>1. Types /\ LiveType /\ PrepType /\ DiskType
  BY DEF Types
<1>2. /\ UNCHANGED <<init, saved, state, intruded>> /\ entry' = entry
      /\ registered' = registered \/ (registered = s /\ registered' = None)
  BY DEF Emit, StartWrite, RetireFlushed, Dispose, history
<1>3. \A t \in Sessions : t # s => events'[t] = events[t] /\ writing'[t] = writing[t]
                                   /\ retiring'[t] = retiring[t]
  <2>1. CASE Emit(s)
    BY <1>1, <2>1 DEF Emit, LiveType
  <2>2. CASE StartWrite(s)
    BY <1>1, <2>2 DEF StartWrite, LiveType
  <2>3. CASE RetireFlushed(s)
    BY <1>1, <2>3 DEF RetireFlushed, RetirementFails, LiveType
  <2>4. CASE Dispose(s)
    BY <1>1, <2>4 DEF Dispose, LiveType
  <2>. QED
    BY <2>1, <2>2, <2>3, <2>4
<1>4. Ordered(s)
  BY DEF LiveInv
<1>5. ASSUME NEW t \in Sessions, t # s PROVE Ordered(t)'
  <2>1. Ordered(t)
    BY DEF LiveInv
  <2>2. registered # t => registered' # t
    BY <1>2, NoneAssumption
  <2>. QED
    BY <1>2, <1>3, <1>5, <2>1, <2>2 DEF Ordered
<1>6. Len(events[s]) \in Nat /\ saved[s] \in Nat
  BY <1>1 DEF LiveType
<1>7. CASE Emit(s)
  <2>1. registered = s /\ UNCHANGED <<chain, registered, writing, retiring>>
    BY <1>7 DEF Emit
  <2>2. Ordered(s)'
    BY <1>2, <1>4, <2>1 DEF Ordered
  <2>3. LiveInv'
    BY <1>1, <1>5, <2>1, <2>2, LiveAdded
  <2>4. RegInv'
    BY <1>1, <1>2, <2>1, RegStill
  <2>5. OwnerInv'
    BY <1>2, <1>3, <2>1 DEF OwnerInv
  <2>. QED
    BY <2>3, <2>4, <2>5
<1>8. CASE StartWrite(s)
  <2>1. /\ UNCHANGED <<registered, events, retiring>>
        /\ writing' = [writing EXCEPT ![s] = Len(events[s])]
        /\ Queue(Op("write", {s}, Len(events[s]), FALSE))
        /\ init[s] = "ok" /\ writing[s] = 0 /\ saved[s] < Len(events[s])
        /\ retiring[s] \in {"no", "flush"}
    BY <1>8 DEF StartWrite
  <2>2. writing'[s] = Len(events[s])
    BY <1>1, <2>1 DEF LiveType
  <2>. DEFINE op == Op("write", {s}, Len(events[s]), FALSE)
  <2>3. /\ op \in OpType /\ Queue(op) /\ op.kind = "write" /\ ~ op.current /\ op.for = {s}
        /\ op.n = Len(events[s])
    BY <1>6, <2>1 DEF Op, OpType, SessionKinds
  <2>. HIDE DEF op
  <2>4. Ordered(s)'
    BY <1>2, <1>4, <2>1, <2>2 DEF Ordered
  <2>5. \A t \in Sessions : /\ OpOf(op, "write", t) => t = s
                            /\ ~ OpOf(op, "release", t)
    BY <2>3 DEF OpOf
  <2>6. op.n # 0
    BY <1>6, <2>1, <2>3
  <2>7. \A t \in Sessions : /\ writing[t] # 0 => writing'[t] = writing[t]
                            /\ retiring[t] = "release" => retiring'[t] = "release"
                            /\ Ordered(t)'
    BY <1>3, <1>5, <2>1, <2>4
  <2>8. \A t \in Sessions :
          /\ OpOf(op, "write", t) => writing[t] = 0 /\ writing'[t] = op.n /\ op.n # 0
          /\ OpOf(op, "release", t) => retiring[t] # "release" /\ retiring'[t] = "release"
    BY <2>1, <2>2, <2>3, <2>5, <2>6
  <2>9. LiveInv'
    BY <1>1, <2>3, <2>7, <2>8, LiveAdded
  <2>10. RegInv'
    BY <1>1, <1>2, <2>1, <2>3, RegStill
  <2>11. OwnerInv'
    BY <1>2, <2>1 DEF OwnerInv
  <2>. QED
    BY <2>9, <2>10, <2>11
<1>9. CASE RetireFlushed(s)
  <2>1. UNCHANGED <<registered, events, writing>> /\ retiring[s] = "flush"
    BY <1>9 DEF RetireFlushed
  <2>2. RegInv' /\ OwnerInv'
    <3>1. chain' = chain \/ Queue(Op("release", {s}, 0, FALSE))
      BY <1>9 DEF RetireFlushed
    <3>. DEFINE op == Op("release", {s}, 0, FALSE)
    <3>2. op \in OpType /\ op.kind = "release" /\ ~ op.current
      BY DEF Op, OpType, SessionKinds
    <3>3. chain' = chain \/ Queue(op)
      BY <3>1
    <3>. HIDE DEF op
    <3>4. RegInv'
      BY <1>1, <1>2, <2>1, <3>2, <3>3, RegStill
    <3>5. OwnerInv'
      BY <1>2, <2>1 DEF OwnerInv
    <3>. QED
      BY <3>4, <3>5
  <2>3. CASE /\ init[s] = "ok" /\ writing[s] = 0 /\ saved[s] = Len(events[s])
             /\ retiring' = [retiring EXCEPT ![s] = "release"]
             /\ Queue(Op("release", {s}, 0, FALSE))
    <3>1. retiring'[s] = "release"
      BY <1>1, <2>3 DEF LiveType
    <3>. DEFINE op == Op("release", {s}, 0, FALSE)
    <3>2. op \in OpType /\ Queue(op) /\ op.kind = "release" /\ op.for = {s}
      BY <2>3 DEF Op, OpType, SessionKinds
    <3>. HIDE DEF op
    <3>3. Ordered(s)'
      BY <1>2, <1>4, <2>1, <2>3, <3>1 DEF Ordered
    <3>4. \A t \in Sessions : /\ ~ OpOf(op, "write", t)
                              /\ OpOf(op, "release", t) => t = s
      BY <3>2 DEF OpOf
    <3>5. \A t \in Sessions : /\ writing[t] # 0 => writing'[t] = writing[t]
                              /\ retiring[t] = "release" => retiring'[t] = "release"
                              /\ Ordered(t)'
      BY <1>3, <1>5, <2>1, <3>1, <3>3
    <3>6. \A t \in Sessions :
            /\ OpOf(op, "write", t) => writing[t] = 0 /\ writing'[t] = op.n /\ op.n # 0
            /\ OpOf(op, "release", t) => retiring[t] # "release" /\ retiring'[t] = "release"
      BY <2>1, <3>1, <3>4
    <3>7. LiveInv'
      BY <1>1, <3>2, <3>5, <3>6, LiveAdded
    <3>. QED
      BY <2>2, <3>7
  <2>4. CASE init[s] = "failed" /\ RetirementFails(s) /\ chain' = chain
    <3>1. retiring'[s] = "failed"
      BY <1>1, <2>4 DEF LiveType, RetirementFails
    <3>2. Ordered(s)'
      BY <1>2, <1>4, <2>1, <2>4, <3>1 DEF Ordered
    <3>3. \A t \in Sessions : /\ writing[t] # 0 => writing'[t] = writing[t]
                              /\ retiring[t] = "release" => retiring'[t] = "release"
                              /\ Ordered(t)'
      BY <1>3, <1>5, <2>1, <3>1, <3>2
    <3>4. LiveInv'
      BY <1>1, <2>4, <3>3, LiveAdded
    <3>. QED
      BY <2>2, <3>4
  <2>. QED
    BY <1>9, <2>3, <2>4 DEF RetireFlushed
<1>10. CASE Dispose(s)
  <2>1. /\ UNCHANGED <<events, writing, chain>> /\ registered = s /\ registered' = None
        /\ retiring' = [retiring EXCEPT ![s] = "flush"]
    BY <1>10 DEF Dispose
  <2>2. retiring'[s] = "flush" /\ retiring[s] = "no"
    BY <1>1, <1>4, <2>1 DEF LiveType, Ordered
  <2>3. Ordered(s)'
    BY <1>2, <1>4, <2>1, <2>2, NoneAssumption DEF Ordered
  <2>4. \A t \in Sessions : /\ writing[t] # 0 => writing'[t] = writing[t]
                            /\ retiring[t] = "release" => retiring'[t] = "release"
                            /\ Ordered(t)'
    BY <1>3, <1>5, <2>1, <2>2, <2>3
  <2>5. LiveInv'
    BY <1>1, <2>1, <2>4, LiveAdded
  <2>6. RegInv'
    BY <1>1, <1>2, <2>1, RegStill
  <2>7. OwnerInv'
    BY <1>2, <2>1, NoneAssumption DEF OwnerInv
  <2>. QED
    BY <2>5, <2>6, <2>7
<1>. QED
  BY <1>7, <1>8, <1>9, <1>10

\* The lives of the Sessions and their claims go on in order.
LEMMA LivesStep ==
  ASSUME IInv, [Next]_vars
  PROVE  RegInv' /\ LiveInv' /\ OwnerInv'
<1>1. PrepType' /\ LiveType'
  BY PrepTypeStep, LiveTypeStep
<1>2. CASE Quiet
  BY <1>2, RegQuiet, LiveQuiet, OwnerQuiet
<1>3. CASE InitRuns \/ SuffixRuns \/ WriteRuns \/ ReleaseRuns
  BY <1>1, <1>3, InitLives, SuffixLives, WriteLives, ReleaseLives
<1>4. ASSUME NEW s \in Sessions,
             \/ Create(s) \/ Emit(s) \/ StartWrite(s) \/ RetireFlushed(s) \/ Dispose(s)
             \/ \E c \in Callers : Publish(c, s)
      PROVE  RegInv' /\ LiveInv' /\ OwnerInv'
  BY <1>1, <1>4, PublishLives, CreateLives, SessionLives
<1>. QED
  BY <1>2, <1>3, <1>4, Steps DEF Quiet

-----------------------------------------------------------------------------
(* The log, its cursor, and what the Sessions count as stored.             *)

\* A log whose last event leaves no turn open, and one that was repaired.
LEMMA ClosedLog ==
  ASSUME NEW q \in Seq(EventType)
  PROVE  /\ \A e \in EventType : ~ e.open => Closers(Append(q, e)) = <<>>
         /\ \A x \in Seq(EventType) :
              x = q \/ Closers(q) = <<>> => Closers(q \o Closers(x)) = <<>>
<1>1. ASSUME NEW e \in EventType, ~ e.open PROVE Closers(Append(q, e)) = <<>>
  <2>. DEFINE w == Append(q, e)
  <2>1. Len(w) = Len(q) + 1 /\ w[Len(q) + 1] = e
    BY AppendValue
  <2>. HIDE DEF w
  <2>2. Last(w) = e
    BY <2>1 DEF Last
  <2>3. Closers(w) = <<>>
    BY <1>1, <2>2 DEF Closers
  <2>. QED
    BY <2>3 DEF w
<1>2. ASSUME NEW x \in Seq(EventType), x = q \/ Closers(q) = <<>>
      PROVE  Closers(q \o Closers(x)) = <<>>
  <2>1. CASE Closers(x) = <<>>
    <3>1. q \o <<>> = q
      OBVIOUS
    <3>2. Closers(q) = <<>>
      BY <1>2, <2>1
    <3>. QED
      BY <2>1, <3>1, <3>2
  <2>2. CASE Closers(x) # <<>>
    <3>. DEFINE e == Event("closer", FALSE)
    <3>1. Closers(x) = <<e>>
      BY <2>2 DEF Closers
    <3>2. e \in EventType /\ ~ e.open
      BY DEF Event, EventType
    <3>. HIDE DEF e
    <3>3. q \o <<e>> = Append(q, e)
      BY <3>2
    <3>. QED
      BY <1>1, <3>1, <3>2, <3>3
  <2>. QED
    BY <2>1, <2>2
<1>. QED
  BY <1>1, <1>2

\* The log and its state stay, or nothing is known of the log any more.
LEMMA CursorSame ==
  ASSUME PrepType, DiskType, CursorInv, store' = store, torn' \in {torn, FALSE},
         state' = state \/ state' = Untracked,
         intruded => intruded', external' = external
  PROVE  CursorInv'
<1>1. Len(store) \in Nat
  BY DEF DiskType
<1>2. CASE state' = state
  <2>1. ~ torn => ~ torn'
    OBVIOUS
  <2>2. Closers(store') = Closers(store)
    OBVIOUS
  <2>. QED
    BY <1>2, <2>1, <2>2 DEF CursorInv
<1>3. CASE state' = Untracked
  BY <1>1, <1>3 DEF CursorInv, Untracked
<1>. QED
  BY <1>2, <1>3

\* A Session that owns the cursor of the log.
LEMMA CursorOwned ==
  ASSUME NEW s \in Sessions, state'.owner = s, state'.cursor <= Len(store'),
         intruded' \/ state'.cursor = Len(store')
  PROVE  CursorInv'
<1>1. s # None
  BY NoneAssumption
<1>. QED
  BY <1>1 DEF CursorInv

\* The log that a Session takes is the whole log, unless it was moved behind a
\* cursor of nobody.
LEMMA TakesAll ==
  ASSUME CursorInv, NEW s, NEW n, NEW cursor, Takes(s, n, cursor), ~ intruded'
  PROVE  cursor = Len(store) /\ ~ intruded
BY DEF Takes, CursorInv

\* A repair or an append, with the state it leaves.
LEMMA CursorQuiet ==
  ASSUME IInv, Quiet
  PROVE  CursorInv'
<1>. USE DEF IInv
<1>1. /\ PrepType /\ DiskType /\ DiskType' /\ OpsInv /\ CursorInv /\ LiveType /\ EntryInv
      /\ RunInv /\ state \in StateType /\ state.cursor \in Nat
      /\ store \in Seq(EventType) /\ store' \in Seq(EventType)
      /\ Len(store) \in Nat /\ Len(store') \in Nat
  <2>1. [Next]_vars
    BY DEF Quiet, Next, Operation, Continue, Settle, vars
  <2>. QED
    BY <2>1, DiskTypeStep DEF Types, DiskType, PrepType, StateType
<1>2. ASSUME /\ UNCHANGED <<disk, state, external>>
             /\ intruded' = intruded
      PROVE  CursorInv'
  BY <1>1, <1>2, CursorSame DEF disk
<1>3. CASE \/ LoadRuns \/ CheckRuns \/ Evict \/ UNCHANGED vars
           \/ \E c \in Callers :
                \/ Call(c) \/ Again(c) \/ RetirementSettled(c) \/ AppendCalled(c)
                \/ ReadDone(c) \/ FlushReturns(c) \/ Extend(c) \/ Release(c) \/ Abort(c)
  <2>1. /\ LoadRuns \/ CheckRuns => UNCHANGED <<disk, state, history>>
        /\ Evict \/ UNCHANGED vars => UNCHANGED <<disk, state, external, intruded>>
    BY <1>1, LoadRunsFacts, CheckRunsFacts, EvictFacts DEF vars, disk
  <2>2. ASSUME NEW c \in Callers,
               \/ Call(c) \/ Again(c) \/ RetirementSettled(c) \/ AppendCalled(c)
               \/ ReadDone(c) \/ FlushReturns(c) \/ Extend(c) \/ Release(c) \/ Abort(c)
        PROVE  UNCHANGED <<disk, state, external, intruded>>
    <3>1. CASE Call(c) \/ Again(c) \/ RetirementSettled(c)
      BY <1>1, <3>1, EnteringSteps DEF history
    <3>2. CASE AppendCalled(c) \/ ReadDone(c) \/ FlushReturns(c) \/ Extend(c) \/ Release(c)
      BY <3>2 DEF AppendCalled, ReadDone, FlushReturns, Extend, Release, history
    <3>3. CASE Abort(c)
      BY <3>3 DEF Abort
    <3>. QED
      BY <2>2, <3>1, <3>2, <3>3
  <2>. QED
    BY <1>2, <1>3, <2>1, <2>2 DEF history
<1>4. CASE CommitRuns
  <2>1. UNCHANGED <<disk, external, intruded>>
    BY <1>1, <1>4, CommitRunsFacts
  <2>2. CASE state' = state
    BY <1>2, <2>1, <2>2
  <2>3. CASE Succeeds(Caller)
    <3>1. /\ state'.cursor = Len(store) /\ store' = store /\ ~ torn' /\ Closers(store') = <<>>
      BY <2>1, <2>3 DEF Succeeds, ColdState, Tracked, disk
    <3>. QED
      BY <1>1, <3>1 DEF CursorInv
  <2>. QED
    BY <1>1, <1>4, <2>2, <2>3, CommitRunsFacts DEF GivesUp, Repairs
<1>5. CASE RepairSettles
  <2>1. /\ state' = state /\ external' = external /\ intruded' = intruded
        /\ running /\ Head(chain).kind = "commit"
    BY <1>1, <1>5, RepairSettlesFacts, HeadFacts
  <2>2. CASE store' = store /\ torn' \in {torn, FALSE}
    BY <1>1, <2>1, <2>2, CursorSame
  <2>3. CASE store' = store \o Closers(entry.source.log) /\ ~ torn'
    <3>. DEFINE x == entry.source.log
    <3>1. x \in Seq(EventType)
      BY <1>1 DEF PrepType, EntryType, SourceType
    <3>2. state.owner = None /\ (intruded \/ ~ state.tracked)
      BY <1>1, <2>1 DEF RunInv
    <3>. HIDE DEF x
    <3>3. Closers(x) \in Seq(EventType) /\ store' = store \o Closers(x)
      BY <2>3, <3>1, ClosersType DEF x
    <3>4. Len(store) <= Len(store')
      BY <1>1, <3>3, LongerFacts DEF Longer
    <3>5. state.tracked => Closers(store') = <<>>
      BY <1>1, <3>1, <3>2, <3>3, ClosedLog DEF CursorInv
    <3>6. state'.cursor <= Len(store')
      BY <1>1, <2>1, <3>4 DEF CursorInv
    <3>. QED
      BY <2>1, <2>3, <3>2, <3>5, <3>6 DEF CursorInv
  <2>. QED
    BY <1>1, <1>5, <2>2, <2>3, RepairSettlesFacts
<1>6. CASE AppendStarts
  <2>1. external' = external /\ (intruded => intruded')
    BY <1>1, <1>6, AppendStartsFacts
  <2>2. CASE Untouched
    BY <1>1, <2>1, <2>2, CursorSame DEF Untouched
  <2>3. CASE HalfAdopts
    BY <1>1, <2>1, <2>3, CursorSame DEF HalfAdopts
  <2>4. CASE Adopts
    <3>1. store' = store \o Closers(store) /\ ~ torn' /\ state'.cursor = Len(store')
      BY <2>4 DEF Adopts, Tracked
    <3>2. Closers(store') = <<>>
      BY <1>1, <3>1, ClosedLog
    <3>. QED
      BY <1>1, <3>1, <3>2 DEF CursorInv
  <2>. QED
    BY <1>1, <1>6, <2>2, <2>3, <2>4, AppendStartsFacts
<1>7. CASE AppendSettles
  <2>1. torn' = torn /\ external' = external /\ running /\ Head(chain).kind = "append"
    BY <1>1, <1>7, AppendSettlesFacts, HeadFacts
  <2>2. CASE store' = store /\ state' = state /\ intruded' = intruded
    BY <1>1, <2>1, <2>2, CursorSame
  <2>3. CASE /\ store' = Append(store, Event("api", FALSE))
             /\ state' = Tracked(state.cursor + 1, TRUE, state.owner)
             /\ intruded' = (intruded \/ Claimed)
    <3>. DEFINE e == Event("api", FALSE)
    <3>1. e \in EventType /\ ~ e.open
      BY DEF Event, EventType
    <3>2. state.tracked
      BY <1>1, <2>1 DEF RunInv
    <3>3. /\ state'.cursor = state.cursor + 1 /\ state'.owner = state.owner
          /\ store' = Append(store, e)
      BY <2>3 DEF Tracked
    <3>4. state.owner # None => intruded'
      BY <2>3 DEF Claimed
    <3>5. intruded => intruded'
      BY <2>3
    <3>. HIDE DEF e
    <3>6. Len(store') = Len(store) + 1 /\ Closers(store') = <<>>
      BY <1>1, <3>1, <3>3, ClosedLog, AppendValue
    <3>. QED
      BY <1>1, <2>1, <3>2, <3>3, <3>4, <3>5, <3>6 DEF CursorInv
  <2>. QED
    BY <1>1, <1>7, <2>2, <2>3, AppendSettlesFacts
<1>8. CASE External
  <2>. DEFINE e == Event("other", FALSE)
  <2>1. e \in EventType /\ ~ e.open
    BY DEF Event, EventType
  <2>2. /\ ~ torn /\ torn' = torn /\ external' = TRUE /\ state' = state
        /\ store' = Append(store, e) /\ intruded' = (intruded \/ Claimed \/ running)
    BY <1>8 DEF External
  <2>3. state.owner # None => intruded'
    BY <2>2 DEF Claimed
  <2>. HIDE DEF e
  <2>4. Len(store') = Len(store) + 1 /\ Closers(store') = <<>>
    BY <1>1, <2>1, <2>2, ClosedLog, AppendValue
  <2>. QED
    BY <1>1, <2>2, <2>3, <2>4 DEF CursorInv
<1>. QED
  BY <1>3, <1>4, <1>5, <1>6, <1>7, <1>8 DEF Quiet

\* The first m events of one log begin the other.
LEMMA FirstPrefix ==
  ASSUME NEW e \in Seq(EventType), NEW q \in Seq(EventType), NEW m \in Nat, m <= Len(e)
  PROVE  IsPrefix(SubSeq(e, 1, m), q) <=> m <= Len(q) /\ \A i \in 1 .. m : q[i] = e[i]
<1>. DEFINE p == SubSeq(e, 1, m)
<1>1. /\ p \in Seq(EventType)
      /\ Len(p) = IF 1 <= m THEN m - 1 + 1 ELSE 0
      /\ \A i \in 1 .. m - 1 + 1 : p[i] = e[1 + i - 1]
  BY SubSeqValue
<1>2. Len(p) = m /\ \A i \in 1 .. m : p[i] = e[i]
  BY <1>1
<1>. HIDE DEF p
<1>3. IsPrefix(p, q) <=> Len(p) <= Len(q) /\ \A i \in 1 .. Len(p) : p[i] = q[i]
  BY <1>1, PrefixMeans
<1>4. IsPrefix(p, q) <=> m <= Len(q) /\ \A i \in 1 .. m : q[i] = e[i]
  BY <1>2, <1>3
<1>. QED
  BY <1>4 DEF p

\* The log grows, and a Session counts as saved what it counted before, or what
\* the new log begins with.
LEMMA SavedGrown ==
  ASSUME Types, DiskType', SavedInv, Longer, KeepsMark, events' = events,
         saved' \in [Sessions -> Nat],
         \A t \in Sessions :
           \/ init'[t] \notin {"ok", "gone"}
           \/ init[t] \in {"ok", "gone"} /\ saved'[t] = saved[t]
           \/ intruded'
           \/ /\ saved'[t] <= Len(events[t]) /\ saved'[t] <= Len(store')
              /\ \A i \in 1 .. saved'[t] : store'[i] = events[t][i]
  PROVE  SavedInv'
<1>1. DiskType /\ LiveType /\ store' \in Seq(EventType)
  BY DEF Types, DiskType
<1>2. ASSUME NEW t \in Sessions, init'[t] \in {"ok", "gone"}, ~ intruded'
      PROVE  IsPrefix(SubSeq(events[t], 1, saved'[t]), store')
  <2>1. events[t] \in Seq(EventType) /\ saved'[t] \in Nat
    BY <1>1 DEF LiveType
  <2>2. CASE init[t] \in {"ok", "gone"} /\ saved'[t] = saved[t]
    <3>1. IsPrefix(SubSeq(events[t], 1, saved[t]), store)
      BY <1>2, <2>2 DEF SavedInv, KeepsMark
    <3>2. IsPrefix(SubSeq(events[t], 1, saved[t]), store')
      BY <1>1, <3>1, LongerPrefix, SavedEvents
    <3>. QED
      BY <2>2, <3>2
  <2>3. CASE /\ saved'[t] <= Len(events[t]) /\ saved'[t] <= Len(store')
             /\ \A i \in 1 .. saved'[t] : store'[i] = events[t][i]
    BY <1>1, <2>1, <2>3, FirstPrefix
  <2>. QED
    BY <1>2, <2>2, <2>3
<1>3. ASSUME NEW t \in Sessions, NEW i \in DOMAIN events[t], events[t][i].by = "closer"
      PROVE  i <= Len(store')
  <2>1. i <= Len(store) /\ i \in Nat
    BY <1>1, <1>3 DEF SavedInv, LiveType
  <2>. QED
    BY <2>1 DEF Longer
<1>. QED
  BY <1>2, <1>3 DEF SavedInv

\* The rest of a Session's first n events continues a log that they begin with.
LEMMA RestCovers ==
  ASSUME Types, NEW s \in Sessions, NEW n \in Nat, n <= Len(events[s]),
         Len(store) <= n, Agree(s, Len(store)),
         store' = store \o SubSeq(events[s], Len(store) + 1, n)
  PROVE  /\ Len(store') = n /\ \A i \in 1 .. n : store'[i] = events[s][i]
         /\ IsPrefix(store', events[s])
<1>1. /\ store \in Seq(EventType) /\ Len(store) \in Nat /\ events[s] \in Seq(EventType)
  BY DEF Types, DiskType, LiveType
<1>2. /\ store' \in Seq(EventType)
      /\ Len(store') = Len(store) + (IF Len(store) < n THEN n - Len(store) ELSE 0)
      /\ \A i \in 1 .. Len(store) : store'[i] = store[i]
      /\ \A i \in Len(store) + 1 .. Len(store') : store'[i] = events[s][i]
  BY <1>1, RestStored
<1>3. Len(store') = n
  BY <1>1, <1>2
<1>4. ASSUME NEW i \in 1 .. n PROVE store'[i] = events[s][i]
  <2>1. i \in 1 .. Len(store) \/ i \in Len(store) + 1 .. Len(store')
    BY <1>1, <1>3
  <2>. QED
    BY <1>2, <2>1 DEF Agree
<1>5. IsPrefix(store', events[s])
  <2>1. /\ Len(store') <= Len(events[s])
        /\ \A i \in 1 .. Len(store') : store'[i] = events[s][i]
    BY <1>3, <1>4
  <2>. QED
    BY <1>1, <1>2, <2>1, PrefixMeans
<1>. QED
  BY <1>3, <1>4, <1>5

\* A log that a Session's own events begin with.
LEMMA AgreePrefix ==
  ASSUME Types, NEW s \in Sessions
  PROVE  IsPrefix(store, events[s]) <=>
           Len(store) <= Len(events[s]) /\ Agree(s, Len(store))
<1>1. store \in Seq(EventType) /\ events[s] \in Seq(EventType)
  BY DEF Types, DiskType, LiveType
<1>. QED
  BY <1>1, PrefixMeans DEF Agree

\* onCreated() takes a log that the seed begins with, and appends the rest of it.
LEMMA InitLog ==
  ASSUME IInv, DiskType', PrepType', InitRuns
  PROVE  CursorInv' /\ SavedInv' /\ OwnerCovers'
<1>. USE DEF IInv
<1>1. /\ Types /\ OpsInv /\ RegInv /\ CursorInv /\ SavedInv /\ OwnerCovers
      /\ PrepType /\ DiskType /\ LiveType
      /\ store \in Seq(EventType) /\ Len(store) \in Nat /\ state.cursor \in Nat
  BY DEF Types, DiskType, PrepType, StateType
<1>2. PICK s \in Sessions, n \in Nat :
           /\ n = saved[s] /\ n <= Len(events[s])
           /\ InitRefused(s) \/ InitClaims(s, n) \/ InitWrites(s, n)
           /\ torn' \in {torn, FALSE}
           /\ UNCHANGED <<registered, events, saved, external>>
  BY <1>1, InitRunsFacts
<1>3. /\ saved' = saved /\ events' = events /\ saved' \in [Sessions -> Nat]
      /\ events[s] \in Seq(EventType) /\ Len(events[s]) \in Nat
  BY <1>1, <1>2 DEF LiveType
<1>4. ASSUME NEW result, init' = [init EXCEPT ![s] = result]
      PROVE  init'[s] = result /\ \A t \in Sessions : t # s => init'[t] = init[t]
  BY <1>1, <1>4 DEF LiveType
<1>5. CASE InitRefused(s)
  <2>1. /\ KeepsMark /\ Longer /\ store' = store /\ init' = [init EXCEPT ![s] = "failed"]
        /\ state' = state \/ state' = Untracked
    BY <1>1, <1>5, LongerFacts DEF InitRefused, KeepsMark
  <2>2. CursorInv'
    BY <1>1, <1>2, <2>1, CursorSame DEF KeepsMark
  <2>3. SavedInv'
    <3>1. \A t \in Sessions :
            \/ init'[t] \notin {"ok", "gone"}
            \/ init[t] \in {"ok", "gone"} /\ saved'[t] = saved[t]
      BY <1>3, <1>4, <2>1
    <3>. QED
      BY <1>1, <1>3, <2>1, <3>1, SavedGrown
  <2>4. OwnerCovers'
    BY <1>1, <1>3, <2>1 DEF OwnerCovers, Untracked, KeepsMark
  <2>. QED
    BY <2>2, <2>3, <2>4
<1>6. CASE InitClaims(s, n)
  <2>1. PICK result \in {"ok", "failed"} :
          init' = [init EXCEPT ![s] = result] /\ (result = "ok" => n <= state'.cursor)
    BY <1>6 DEF InitClaims
  <2>2. /\ store' = store /\ state'.owner = s /\ Takes(s, n, state'.cursor)
        /\ Longer /\ KeepsMark
    BY <1>1, <1>6, LongerFacts DEF InitClaims, Takes, KeepsMark
  <2>3. /\ state'.cursor \in Nat /\ state'.cursor <= Len(store) /\ state'.cursor <= n
        /\ Agree(s, state'.cursor)
        /\ intruded' \/ state'.cursor = Len(store)
    BY <1>1, <2>2, TakesAll DEF Takes
  <2>4. CursorInv'
    BY <2>2, <2>3, CursorOwned
  <2>5. result = "ok" =>
           /\ saved'[s] <= Len(events[s]) /\ saved'[s] <= Len(store')
           /\ \A i \in 1 .. saved'[s] : store'[i] = events[s][i]
    BY <1>1, <1>2, <1>3, <2>1, <2>2, <2>3 DEF Agree
  <2>6. SavedInv'
    <3>1. \A t \in Sessions :
            \/ init'[t] \notin {"ok", "gone"}
            \/ init[t] \in {"ok", "gone"} /\ saved'[t] = saved[t]
            \/ /\ saved'[t] <= Len(events[t]) /\ saved'[t] <= Len(store')
               /\ \A i \in 1 .. saved'[t] : store'[i] = events[t][i]
      BY <1>3, <1>4, <2>1, <2>5
    <3>. QED
      BY <1>1, <1>3, <2>2, <3>1, SavedGrown
  <2>7. ASSUME ~ intruded' PROVE IsPrefix(store', events'[s])
    <3>1. Len(store) <= Len(events[s]) /\ Agree(s, Len(store))
      BY <1>1, <1>2, <1>3, <2>3, <2>7
    <3>2. IsPrefix(store, events[s])
      BY <1>1, <3>1, AgreePrefix
    <3>. QED
      BY <1>3, <2>2, <3>2
  <2>8. OwnerCovers'
    BY <2>2, <2>7 DEF OwnerCovers
  <2>. QED
    BY <2>4, <2>6, <2>8
<1>7. CASE InitWrites(s, n)
  <2>1. PICK cursor \in Nat : /\ Takes(s, n, cursor) /\ cursor < n
                              /\ store' = store \o SubSeq(events[s], cursor + 1, n)
    BY <1>7 DEF InitWrites
  <2>2. /\ init' = [init EXCEPT ![s] = "ok"] /\ state' = Tracked(n, TRUE, s) /\ KeepsMark
    BY <1>7, <2>1 DEF InitWrites, Takes, KeepsMark
  <2>3. state'.owner = s /\ state'.cursor = n
    BY <2>2 DEF Tracked
  <2>4. Len(store') = Len(store) + (n - cursor) /\ cursor <= Len(store)
    <3>1. Len(store') = Len(store) + (IF cursor < n THEN n - cursor ELSE 0)
      BY <1>1, <1>2, <2>1, RestStored
    <3>. QED
      BY <2>1, <3>1 DEF Takes
  <2>5. Longer
    <3>1. SubSeq(events[s], cursor + 1, n) \in Seq(EventType)
      BY <1>2, <1>3, SubSeqType
    <3>. QED
      BY <1>1, <2>1, <3>1, LongerFacts
  <2>6. ASSUME ~ intruded'
        PROVE  /\ Len(store') = n /\ \A i \in 1 .. n : store'[i] = events[s][i]
               /\ IsPrefix(store', events[s])
    <3>1. cursor = Len(store)
      BY <1>1, <2>1, <2>6, TakesAll
    <3>2. Len(store) <= n /\ Agree(s, Len(store))
      BY <2>1, <3>1 DEF Takes
    <3>3. store' = store \o SubSeq(events[s], Len(store) + 1, n)
      BY <2>1, <3>1
    <3>. QED
      BY <1>1, <1>2, <3>2, <3>3, RestCovers
  <2>7. CursorInv'
    <3>1. n <= Len(store')
      BY <1>1, <2>1, <2>4
    <3>. QED
      BY <2>3, <2>6, <3>1, CursorOwned
  <2>8. SavedInv'
    <3>1. \A t \in Sessions :
            \/ init'[t] \notin {"ok", "gone"}
            \/ init[t] \in {"ok", "gone"} /\ saved'[t] = saved[t]
            \/ intruded'
            \/ /\ saved'[t] <= Len(events[t]) /\ saved'[t] <= Len(store')
               /\ \A i \in 1 .. saved'[t] : store'[i] = events[t][i]
      BY <1>2, <1>3, <1>4, <2>2, <2>6
    <3>. QED
      BY <1>1, <1>3, <2>2, <2>5, <3>1, SavedGrown
  <2>9. OwnerCovers'
    BY <1>3, <2>3, <2>6 DEF OwnerCovers
  <2>. QED
    BY <2>7, <2>8, <2>9
<1>. QED
  BY <1>2, <1>5, <1>6, <1>7

\* A batch of the owner: its first n events, from the cursor on.
LEMMA BatchLog ==
  ASSUME IInv, DiskType', NEW s \in Sessions, NEW n \in Nat, n <= Len(events[s]),
         state.owner = s, KeepsMark, events' = events,
         store' = store \o SubSeq(events[s], state.cursor + 1, n),
         intruded \/ state.cursor <= n,
         state' = Tracked(n, TRUE, s), saved' \in [Sessions -> Nat],
         \A t \in Sessions :
           \/ init'[t] \notin {"ok", "gone"}
           \/ init[t] \in {"ok", "gone"} /\ saved'[t] = saved[t]
           \/ t = s /\ saved'[t] = n
  PROVE  CursorInv' /\ SavedInv' /\ OwnerCovers'
<1>. USE DEF IInv
<1>1. /\ Types /\ CursorInv /\ SavedInv /\ OwnerCovers
      /\ PrepType /\ DiskType /\ LiveType
      /\ store \in Seq(EventType) /\ Len(store) \in Nat /\ state.cursor \in Nat
      /\ events[s] \in Seq(EventType) /\ s # None
  BY NoneAssumption DEF Types, DiskType, PrepType, StateType, LiveType
<1>2. state'.owner = s /\ state'.cursor = n
  BY DEF Tracked
<1>3. Len(store') = Len(store) + (IF state.cursor < n THEN n - state.cursor ELSE 0)
  BY <1>1, RestStored
<1>4. Longer
  <2>1. SubSeq(events[s], state.cursor + 1, n) \in Seq(EventType)
    BY <1>1, SubSeqType
  <2>. QED
    BY <1>1, <2>1, LongerFacts
<1>5. n <= Len(store')
  BY <1>1, <1>3 DEF CursorInv
<1>6. ASSUME ~ intruded'
      PROVE  /\ Len(store') = n /\ \A i \in 1 .. n : store'[i] = events[s][i]
             /\ IsPrefix(store', events[s])
  <2>1. ~ intruded /\ state.cursor <= n
    BY <1>6 DEF KeepsMark
  <2>2. state.cursor = Len(store)
    BY <1>1, <2>1 DEF CursorInv, PrepType
  <2>3. IsPrefix(store, events[s])
    BY <1>1, <2>1 DEF OwnerCovers
  <2>4. Agree(s, Len(store)) /\ Len(store) <= n
    BY <1>1, <2>1, <2>2, <2>3, AgreePrefix
  <2>5. store' = store \o SubSeq(events[s], Len(store) + 1, n)
    BY <2>2
  <2>. QED
    BY <1>1, <2>4, <2>5, RestCovers
<1>7. CursorInv'
  BY <1>2, <1>5, <1>6, CursorOwned
<1>8. SavedInv'
  <2>1. \A t \in Sessions :
          \/ init'[t] \notin {"ok", "gone"}
          \/ init[t] \in {"ok", "gone"} /\ saved'[t] = saved[t]
          \/ intruded'
          \/ /\ saved'[t] <= Len(events[t]) /\ saved'[t] <= Len(store')
             /\ \A i \in 1 .. saved'[t] : store'[i] = events[t][i]
    BY <1>5, <1>6
  <2>. QED
    BY <1>1, <1>4, <2>1, SavedGrown
<1>9. OwnerCovers'
  BY <1>2, <1>6 DEF OwnerCovers
<1>. QED
  BY <1>7, <1>8, <1>9

\* The log and the events of the Sessions stay.
LEMMA StillLog ==
  ASSUME IInv, DiskType', store' = store, torn' = torn, KeepsMark, external' = external,
         events' = events, saved' \in [Sessions -> Nat],
         state' = state \/ state' = Untracked,
         \A t \in Sessions :
           \/ init'[t] \notin {"ok", "gone"}
           \/ init[t] \in {"ok", "gone"} /\ saved'[t] = saved[t]
           \/ /\ state.owner = t /\ saved'[t] <= state.cursor /\ saved'[t] <= Len(events[t])
  PROVE  CursorInv' /\ SavedInv' /\ OwnerCovers'
<1>. USE DEF IInv
<1>1. /\ Types /\ CursorInv /\ SavedInv /\ OwnerCovers /\ PrepType /\ DiskType
      /\ Len(store) \in Nat /\ state.cursor \in Nat /\ Longer
  BY LongerFacts DEF Types, DiskType, PrepType, StateType
<1>2. CursorInv'
  BY <1>1, CursorSame DEF KeepsMark
<1>3. OwnerCovers'
  BY <1>1 DEF OwnerCovers, Untracked, KeepsMark
<1>4. ASSUME NEW t \in Sessions, state.owner = t, ~ intruded',
             saved'[t] <= state.cursor, saved'[t] <= Len(events[t])
      PROVE  /\ saved'[t] <= Len(store')
             /\ \A i \in 1 .. saved'[t] : store'[i] = events[t][i]
  <2>1. t # None /\ ~ intruded
    BY <1>4, NoneAssumption DEF KeepsMark
  <2>2. state.cursor = Len(store)
    BY <1>1, <1>4, <2>1 DEF CursorInv, PrepType
  <2>3. Agree(t, Len(store))
    BY <1>1, <1>4, <2>1, AgreePrefix DEF OwnerCovers
  <2>. QED
    BY <1>1, <1>4, <2>2, <2>3 DEF Agree
<1>5. \A t \in Sessions :
        \/ init'[t] \notin {"ok", "gone"}
        \/ init[t] \in {"ok", "gone"} /\ saved'[t] = saved[t]
        \/ intruded'
        \/ /\ saved'[t] <= Len(events[t]) /\ saved'[t] <= Len(store')
           /\ \A i \in 1 .. saved'[t] : store'[i] = events[t][i]
  BY <1>4
<1>6. SavedInv'
  BY <1>1, <1>5, SavedGrown
<1>. QED
  BY <1>2, <1>3, <1>6

\* The append of attachPrepared() continues the log it owns.
LEMMA SuffixLog ==
  ASSUME IInv, DiskType', SuffixRuns
  PROVE  CursorInv' /\ SavedInv' /\ OwnerCovers'
<1>. USE DEF IInv
<1>1. Types /\ OpsInv /\ RegInv /\ LiveType
  BY DEF Types
<1>2. PICK s \in Sessions :
           /\ chain # <<>> /\ OpOf(chain[1], "suffix", s) /\ Inits(chain[1], s)
           /\ SuffixFails(s) \/ SuffixWrites(s)
           /\ UNCHANGED <<torn, events, saved, external, intruded>>
  BY <1>1, SuffixRunsFacts
<1>3. /\ events' = events /\ saved' = saved /\ saved' \in [Sessions -> Nat] /\ KeepsMark
      /\ saved[s] \in Nat /\ saved[s] <= Len(events[s])
  BY <1>1, <1>2 DEF LiveType, KeepsMark
<1>4. ASSUME NEW result, init' = [init EXCEPT ![s] = result]
      PROVE  init'[s] = result /\ \A t \in Sessions : t # s => init'[t] = init[t]
  BY <1>1, <1>4 DEF LiveType
<1>5. CASE SuffixFails(s)
  <2>1. \A t \in Sessions :
          \/ init'[t] \notin {"ok", "gone"}
          \/ init[t] \in {"ok", "gone"} /\ saved'[t] = saved[t]
    BY <1>3, <1>4, <1>5 DEF SuffixFails
  <2>2. store' = store /\ state' = state /\ torn' = torn /\ external' = external
    BY <1>2, <1>5 DEF SuffixFails
  <2>. QED
    BY <1>3, <2>1, <2>2, StillLog
<1>6. CASE SuffixWrites(s)
  <2>1. state.owner = s /\ (intruded \/ state.cursor <= saved[s])
    <3>1. 1 \in DOMAIN chain
      BY <1>1, <1>2, HeadFacts DEF Types
    <3>. QED
      BY <1>1, <1>2, <3>1 DEF RegInv, OpOf
  <2>2. PICK n \in Nat : n = saved[s]
    BY <1>3
  <2>3. \A t \in Sessions :
          \/ init'[t] \notin {"ok", "gone"}
          \/ init[t] \in {"ok", "gone"} /\ saved'[t] = saved[t]
          \/ t = s /\ saved'[t] = n
    BY <1>3, <1>4, <1>6, <2>2 DEF SuffixWrites
  <2>4. /\ store' = store \o SubSeq(events[s], state.cursor + 1, n)
        /\ state' = Tracked(n, TRUE, s)
    BY <1>6, <2>2 DEF SuffixWrites
  <2>5. /\ n <= Len(events[s]) /\ (intruded \/ state.cursor <= n) /\ state.owner = s
        /\ KeepsMark /\ events' = events /\ saved' \in [Sessions -> Nat]
    BY <1>3, <2>1, <2>2
  <2>. QED
    BY <2>3, <2>4, <2>5, BatchLog
<1>. QED
  BY <1>2, <1>5, <1>6

\* So does a batch of the write-behind.
LEMMA WriteLog ==
  ASSUME IInv, DiskType', WriteRuns
  PROVE  CursorInv' /\ SavedInv' /\ OwnerCovers'
<1>. USE DEF IInv
<1>1. Types /\ OpsInv /\ LiveInv /\ LiveType /\ OwnerInv
  BY DEF Types
<1>2. PICK s \in Sessions, n \in Nat :
           /\ n = writing[s] /\ n # 0 /\ n <= Len(events[s])
           /\ WriteSkips(s, n) \/ WriteStores(s, n) \/ WriteFails(s)
           /\ UNCHANGED <<torn, events, init, external, intruded>>
  BY <1>1, WriteRunsFacts
<1>3. /\ events' = events /\ init' = init /\ torn' = torn /\ external' = external
      /\ KeepsMark /\ saved \in [Sessions -> Nat]
  BY <1>1, <1>2 DEF LiveType, KeepsMark
<1>4. state.owner = s /\ init[s] = "ok"
  <2>1. init[s] = "ok" /\ saved[s] < writing[s] /\ saved[s] \in Nat /\ Len(events[s]) \in Nat
    BY <1>1, <1>2 DEF LiveInv, Ordered, LiveType
  <2>2. saved[s] < Len(events[s])
    BY <1>2, <2>1
  <2>. QED
    BY <1>1, <2>1, <2>2 DEF OwnerInv
<1>5. ASSUME saved' = [saved EXCEPT ![s] = n]
      PROVE  /\ saved' \in [Sessions -> Nat] /\ saved'[s] = n
             /\ \A t \in Sessions : t # s => saved'[t] = saved[t]
  BY <1>3, <1>5
<1>6. CASE WriteSkips(s, n)
  <2>1. /\ store' = store /\ state' = state /\ n <= state.cursor
        /\ saved' = [saved EXCEPT ![s] = n]
    BY <1>6 DEF WriteSkips
  <2>2. \A t \in Sessions :
          \/ init'[t] \notin {"ok", "gone"}
          \/ init[t] \in {"ok", "gone"} /\ saved'[t] = saved[t]
          \/ /\ state.owner = t /\ saved'[t] <= state.cursor /\ saved'[t] <= Len(events[t])
    BY <1>2, <1>3, <1>4, <1>5, <2>1
  <2>. QED
    BY <1>3, <1>5, <2>1, <2>2, StillLog
<1>7. CASE WriteStores(s, n)
  <2>1. /\ state.cursor < n /\ store' = store \o SubSeq(events[s], state.cursor + 1, n)
        /\ state' = Tracked(n, TRUE, s) /\ saved' = [saved EXCEPT ![s] = n]
    BY <1>4, <1>7 DEF WriteStores
  <2>2. \A t \in Sessions :
          \/ init'[t] \notin {"ok", "gone"}
          \/ init[t] \in {"ok", "gone"} /\ saved'[t] = saved[t]
          \/ t = s /\ saved'[t] = n
    BY <1>3, <1>5, <2>1
  <2>3. state.cursor <= n
    BY <1>1, <2>1 DEF Types, PrepType, StateType
  <2>. QED
    BY <1>2, <1>3, <1>4, <1>5, <2>1, <2>2, <2>3, BatchLog
<1>8. CASE WriteFails(s)
  <2>1. store' = store /\ state' = state /\ saved' = saved
    BY <1>8 DEF WriteFails
  <2>2. \A t \in Sessions :
          \/ init'[t] \notin {"ok", "gone"}
          \/ init[t] \in {"ok", "gone"} /\ saved'[t] = saved[t]
    BY <1>3, <2>1
  <2>. QED
    BY <1>3, <2>1, <2>2, StillLog
<1>. QED
  BY <1>2, <1>6, <1>7, <1>8

\* A release: its Session was initialized, and what it saved stays.
LEMMA ReleaseLog ==
  ASSUME IInv, DiskType', ReleaseRuns
  PROVE  CursorInv' /\ SavedInv' /\ OwnerCovers'
<1>. USE DEF IInv
<1>1. Types /\ OpsInv /\ LiveInv /\ LiveType /\ PrepType
  BY DEF Types
<1>2. PICK s \in Sessions :
           /\ chain # <<>> /\ OpOf(chain[1], "release", s)
           /\ init' = [init EXCEPT ![s] = "gone"]
           /\ state' = IF state.owner = s THEN Untracked ELSE state
           /\ UNCHANGED <<disk, events, saved, history>>
  BY <1>1, ReleaseRunsFacts
<1>3. /\ events' = events /\ saved' = saved /\ saved' \in [Sessions -> Nat]
      /\ torn' = torn /\ store' = store /\ external' = external /\ KeepsMark
      /\ state' = state \/ state' = Untracked
  BY <1>1, <1>2 DEF LiveType, KeepsMark, disk, history
<1>4. init[s] = "ok"
  <2>1. 1 \in DOMAIN chain
    BY <1>1, <1>2, HeadFacts
  <2>2. retiring[s] = "release"
    BY <1>1, <1>2, <2>1 DEF LiveInv
  <2>. QED
    BY <1>1, <2>2 DEF LiveInv, Ordered
<1>5. \A t \in Sessions :
        \/ init'[t] \notin {"ok", "gone"}
        \/ init[t] \in {"ok", "gone"} /\ saved'[t] = saved[t]
  BY <1>1, <1>2, <1>3, <1>4 DEF LiveType
<1>. QED
  BY <1>3, <1>5, StillLog

\* A Session enters with its log, beside the stored one.
LEMMA RegisterLog ==
  ASSUME IInv, DiskType', NEW s \in Sessions, NEW log \in Seq(EventType), Registers(s, log),
         store' = store, intruded' = intruded,
         \A i \in 1 .. Len(log) : log[i].by = "closer" => i <= Len(store)
  PROVE  /\ SavedInv'
         /\ \A t \in Sessions : events'[t] = IF t = s THEN log ELSE events[t]
<1>. USE DEF IInv
<1>1. SavedInv /\ LiveType
  BY DEF Types
<1>2. \A t \in Sessions : /\ events'[t] = IF t = s THEN log ELSE events[t]
                          /\ init'[t] = IF t = s THEN "pending" ELSE init[t]
                          /\ t # s => saved'[t] = saved[t]
  BY <1>1 DEF Registers, LiveType
<1>3. DOMAIN log = 1 .. Len(log)
  OBVIOUS
<1>. QED
  BY <1>1, <1>2, <1>3 DEF SavedInv

\* The prepared Session continues the stored log, which nobody appended to.
LEMMA PublishLog ==
  ASSUME IInv, DiskType', NEW c \in Callers, NEW s \in Sessions, Publish(c, s)
  PROVE  CursorInv' /\ SavedInv' /\ OwnerCovers'
<1>. USE DEF IInv
<1>1. /\ Types /\ CursorInv /\ PrepType /\ DiskType /\ EntryInv /\ HeldInv
      /\ store \in Seq(EventType) /\ Len(store) \in Nat /\ state.cursor \in Nat
  BY DEF Types, DiskType, PrepType, StateType
<1>2. call[c].at = "held" /\ call[c].mine
  BY <1>1 DEF Publish, EntryInv
<1>. DEFINE src == call[c].source.log
<1>3. /\ state' = [state EXCEPT !.owner = s] /\ UNCHANGED <<disk, running, history>>
      /\ \E log \in Seq(EventType) :
              /\ Registers(s, log)
              /\ Len(log) > Len(src)
              /\ \A i \in 1 .. Len(src) : log[i] = src[i]
              /\ \A i \in Len(src) + 1 .. Len(log) : log[i].by # "closer"
  BY <1>1, <1>2, PublishFacts
<1>4. PICK log \in Seq(EventType) :
              /\ Registers(s, log)
              /\ Len(log) > Len(src)
              /\ \A i \in 1 .. Len(src) : log[i] = src[i]
              /\ \A i \in Len(src) + 1 .. Len(log) : log[i].by # "closer"
  BY <1>3
<1>5. src \in Seq(EventType) /\ Len(src) \in Nat /\ Len(log) \in Nat
  BY <1>1 DEF PrepType, CallType, SourceType
<1>6. /\ Len(src) <= Len(store)
      /\ intruded \/ (src = store /\ state.cursor = Len(store))
  BY <1>1, <1>2 DEF HeldInv, Cold
<1>. HIDE DEF src
<1>7. ASSUME NEW i \in 1 .. Len(log), log[i].by = "closer" PROVE i <= Len(store)
  <2>1. i \in 1 .. Len(src)
    BY <1>4, <1>5, <1>7
  <2>. QED
    BY <1>1, <1>5, <1>6, <2>1
<1>8. store' = store /\ intruded' = intruded /\ state'.owner = s /\ state'.cursor = state.cursor
  BY <1>1, <1>3 DEF disk, history, PrepType, StateType
<1>9. SavedInv' /\ events'[s] = log
  BY <1>4, <1>7, <1>8, RegisterLog
<1>10. CursorInv'
  BY <1>1, <1>6, <1>8, CursorOwned DEF CursorInv
<1>11. OwnerCovers'
  <2>1. ASSUME ~ intruded PROVE IsPrefix(store, log)
    <3>1. Len(store) <= Len(log) /\ \A i \in 1 .. Len(store) : store[i] = log[i]
      BY <1>1, <1>4, <1>5, <1>6, <2>1
    <3>. QED
      BY <1>1, <3>1, PrefixMeans
  <2>. QED
    BY <1>8, <1>9, <2>1 DEF OwnerCovers
<1>. QED
  BY <1>9, <1>10, <1>11

\* A Session that is created here claims nothing yet.
LEMMA CreateLog ==
  ASSUME IInv, DiskType', NEW s \in Sessions, Create(s)
  PROVE  CursorInv' /\ SavedInv' /\ OwnerCovers'
<1>. USE DEF IInv
<1>1. Types /\ CursorInv /\ PrepType /\ DiskType /\ OwnerInv /\ OwnerCovers
  BY DEF Types
<1>2. UNCHANGED <<disk, state, history>>
  BY <1>1, CreateFacts
<1>3. PICK log \in Seq(EventType) :
        /\ Registers(s, log)
        /\ \A i \in 1 .. Len(log) : log[i].by = "closer" => i <= Len(store)
  BY <1>1, CreateFacts
<1>4. store' = store /\ intruded' = intruded /\ torn' = torn /\ external' = external
      /\ state' = state
  BY <1>2 DEF disk, history
<1>5. SavedInv' /\ \A t \in Sessions : events'[t] = IF t = s THEN log ELSE events[t]
  BY <1>3, <1>4, RegisterLog
<1>6. CursorInv'
  BY <1>1, <1>4, CursorSame
<1>7. state.owner # s
  BY <1>1, <1>3 DEF OwnerInv, Registers
<1>8. state.owner # None => state.owner \in Sessions
  BY <1>1 DEF PrepType, StateType
<1>9. OwnerCovers'
  BY <1>1, <1>4, <1>5, <1>7, <1>8 DEF OwnerCovers
<1>. QED
  BY <1>5, <1>6, <1>9

\* What a Session emits it has not saved, and is no closer.
LEMMA EmitLog ==
  ASSUME IInv, DiskType', NEW s \in Sessions, Emit(s)
  PROVE  CursorInv' /\ SavedInv' /\ OwnerCovers'
<1>. USE DEF IInv
<1>1. Types /\ CursorInv /\ PrepType /\ DiskType /\ LiveType /\ SavedInv /\ OwnerCovers
      /\ store \in Seq(EventType)
  BY DEF Types, DiskType
<1>. DEFINE e == Event(s, TRUE)
<1>2. /\ events' = [events EXCEPT ![s] = Append(events[s], e)]
      /\ store' = store /\ torn' = torn /\ external' = external /\ intruded' = intruded
      /\ state' = state /\ init' = init /\ saved' = saved
  BY DEF Emit, disk, history
<1>3. e \in EventType /\ e.by # "closer"
  BY WritersAssumption DEF Event, EventType
<1>. HIDE DEF e
<1>4. \A t \in Sessions : events'[t] = IF t = s THEN Append(events[s], e) ELSE events[t]
  BY <1>1, <1>2 DEF LiveType
<1>5. ASSUME NEW t \in Sessions
      PROVE  /\ events'[t] \in Seq(EventType) /\ events[t] \in Seq(EventType)
             /\ Len(events[t]) \in Nat /\ Len(events[t]) <= Len(events'[t])
             /\ \A i \in 1 .. Len(events[t]) : events'[t][i] = events[t][i]
             /\ \A i \in DOMAIN events'[t] :
                  events'[t][i].by = "closer" => i \in DOMAIN events[t] /\ events[t][i].by = "closer"
  <2>1. events[t] \in Seq(EventType) /\ Len(events[t]) \in Nat
    BY <1>1 DEF LiveType
  <2>2. CASE t # s
    BY <1>4, <2>1, <2>2
  <2>3. CASE t = s
    <3>. DEFINE q == events[s]
    <3>1. q \in Seq(EventType) /\ events'[t] = Append(q, e)
      BY <1>4, <2>1, <2>3
    <3>. HIDE DEF q
    <3>2. /\ Append(q, e) \in Seq(EventType) /\ Len(q) \in Nat
          /\ Len(Append(q, e)) = Len(q) + 1
          /\ DOMAIN Append(q, e) = 1 .. Len(q) + 1 /\ DOMAIN q = 1 .. Len(q)
          /\ Append(q, e)[Len(q) + 1] = e
          /\ \A i \in 1 .. Len(q) : Append(q, e)[i] = q[i]
      BY <1>3, <3>1, AppendValue
    <3>3. ASSUME NEW i \in DOMAIN Append(q, e), Append(q, e)[i].by = "closer"
          PROVE  i \in DOMAIN q /\ q[i].by = "closer"
      BY <1>3, <3>2, <3>3
    <3>4. /\ Append(q, e) \in Seq(EventType) /\ Len(q) <= Len(Append(q, e))
          /\ \A i \in 1 .. Len(q) : Append(q, e)[i] = q[i]
      BY <3>2
    <3>5. q = events[t]
      BY <2>3 DEF q
    <3>. QED
      BY <2>1, <3>1, <3>3, <3>4, <3>5
  <2>. QED
    BY <2>2, <2>3
<1>6. ASSUME NEW t \in Sessions, init[t] \in {"ok", "gone"}, ~ intruded
      PROVE  IsPrefix(SubSeq(events'[t], 1, saved[t]), store)
  <2>1. saved[t] \in Nat /\ saved[t] <= Len(events[t])
    BY <1>1 DEF LiveType
  <2>2. IsPrefix(SubSeq(events[t], 1, saved[t]), store)
    BY <1>1, <1>6 DEF SavedInv
  <2>3. saved[t] <= Len(store) /\ \A i \in 1 .. saved[t] : store[i] = events[t][i]
    BY <1>1, <1>5, <2>1, <2>2, FirstPrefix
  <2>4. \A i \in 1 .. saved[t] : store[i] = events'[t][i]
    BY <1>5, <2>1, <2>3
  <2>5. saved[t] <= Len(events'[t])
    BY <1>5, <2>1
  <2>6. events'[t] \in Seq(EventType)
    BY <1>5
  <2>. QED
    BY <1>1, <2>1, <2>3, <2>4, <2>5, <2>6, FirstPrefix
<1>7. SavedInv'
  BY <1>1, <1>2, <1>5, <1>6 DEF SavedInv
<1>8. CursorInv'
  BY <1>1, <1>2, CursorSame
<1>9. OwnerCovers'
  <2>1. ASSUME state.owner # None, ~ intruded
        PROVE  IsPrefix(store, events'[state.owner])
    <3>. DEFINE t == state.owner
    <3>1. t \in Sessions
      BY <1>1, <2>1 DEF PrepType, StateType
    <3>2. IsPrefix(store, events[t])
      BY <1>1, <2>1 DEF OwnerCovers
    <3>. HIDE DEF t
    <3>3. Len(store) <= Len(events[t]) /\ \A i \in 1 .. Len(store) : store[i] = events[t][i]
      BY <1>1, <1>5, <3>1, <3>2, PrefixMeans
    <3>4. /\ Len(store) <= Len(events'[t])
          /\ \A i \in 1 .. Len(store) : store[i] = events'[t][i]
      BY <1>1, <1>5, <3>1, <3>3
    <3>5. IsPrefix(store, events'[t])
      BY <1>1, <1>5, <3>1, <3>4, PrefixMeans
    <3>. QED
      BY <3>5 DEF t
  <2>. QED
    BY <1>2, <2>1 DEF OwnerCovers
<1>. QED
  BY <1>7, <1>8, <1>9

\* The cursor, the saved events and the owner's history stay in step with the log.
LEMMA LogStep ==
  ASSUME IInv, [Next]_vars
  PROVE  CursorInv' /\ SavedInv' /\ OwnerCovers'
<1>1. DiskType' /\ PrepType'
  BY DiskTypeStep, PrepTypeStep
<1>2. CASE Quiet
  BY <1>2, CursorQuiet, SavedQuiet, CoversQuiet
<1>3. CASE InitRuns \/ SuffixRuns \/ WriteRuns \/ ReleaseRuns
  BY <1>1, <1>3, InitLog, SuffixLog, WriteLog, ReleaseLog
<1>4. ASSUME NEW s \in Sessions, StartWrite(s) \/ RetireFlushed(s) \/ Dispose(s)
      PROVE  CursorInv' /\ SavedInv' /\ OwnerCovers'
  <2>1. UNCHANGED <<disk, events, init, saved, state, history>>
    BY <1>4 DEF StartWrite, RetireFlushed, Dispose
  <2>2. /\ store' = store /\ torn' = torn /\ external' = external /\ intruded' = intruded
        /\ events' = events /\ saved' = saved /\ init' = init /\ state' = state
        /\ saved \in [Sessions -> Nat]
    BY <2>1 DEF disk, history, IInv, Types, LiveType
  <2>. QED
    BY <1>1, <2>2, StillLog DEF KeepsMark
<1>5. ASSUME NEW s \in Sessions,
             Create(s) \/ Emit(s) \/ \E c \in Callers : Publish(c, s)
      PROVE  CursorInv' /\ SavedInv' /\ OwnerCovers'
  BY <1>1, <1>5, CreateLog, EmitLog, PublishLog
<1>. QED
  BY <1>2, <1>3, <1>4, <1>5, Steps DEF Quiet

-----------------------------------------------------------------------------
(* The entry of the preparation and the calls that joined it.              *)

\* Only a reservation has a holder, and a call that commits has its entry.
LEMMA Joined ==
  ASSUME EntryInv
  PROVE  \A c \in Callers :
           /\ call[c].at = "held" => call[c].mine /\ entry.phase = "reserved"
           /\ call[c].mine /\ call[c].at = "commit" => entry.phase = "committing"
BY DEF EntryInv

\* The entry is gone, and its holder with it.
LEMMA EntryEmptied ==
  ASSUME EntryInv, NEW D, Removed(D), \A c \in Callers : call[c].at = "held" => c \in D
  PROVE  EntryInv' /\ HeldInv'
<1>1. entry'.phase = "none" /\ \A c \in Callers : ~ call'[c].mine
  BY DEF Removed, NoEntry
<1>2. ASSUME NEW c \in Callers PROVE call'[c].at # "held"
  <2>1. CASE c \in D
    BY <2>1 DEF Removed, Settled
  <2>2. CASE c \notin D
    BY <2>2 DEF Removed, Stays
  <2>. QED
    BY <2>1, <2>2
<1>. QED
  BY <1>1, <1>2 DEF EntryInv, HeldInv

\* The entry is ready for the next call: no call commits or holds it.
LEMMA EntryReadied ==
  ASSUME EntryInv, NEW source, NEW D, Readied(source, D), registered' = None,
         \A c \in Callers :
           (call[c].mine /\ call[c].at = "commit") \/ call[c].at = "held" => c \in D
  PROVE  EntryInv' /\ HeldInv'
<1>1. entry'.phase = "ready"
  BY DEF Readied
<1>2. ASSUME NEW c \in Callers
      PROVE  /\ call'[c].at # "held"
             /\ ~ (call'[c].mine /\ call'[c].at = "commit")
  <2>1. CASE c \in D
    BY <2>1 DEF Readied, Settled
  <2>2. CASE c \notin D
    BY <2>2 DEF Readied, Stays
  <2>. QED
    BY <2>1, <2>2
<1>. QED
  BY <1>1, <1>2 DEF EntryInv, HeldInv

\* What the holder relies on stays, or the history says that it does not.
Reliable ==
  \/ entry.phase # "reserved"
  \/ state' = state /\ store' = store /\ torn' = torn /\ KeepsMark
  \/ state' = state /\ Longer /\ intruded'

\* A call goes on in a way that does not touch the entry it joined.
Fits(c) ==
  \/ call'[c] = call[c]
  \/ /\ call[c].at = "held" /\ call'[c].at = "held"
     /\ call'[c].mine = call[c].mine /\ call'[c].source = call[c].source
  \/ /\ call[c].at # "held" /\ call'[c].at # "held"
     /\ call'[c].mine =>
          /\ call'[c].at # "commit"
          /\ call'[c].at \in {"loaded", "blocked", "check"} =>
               entry.phase \in {"ready", "committing", "reserved"}

\* Calls that go on beside the entry leave the reservation as it was.
LEMMA EntryKept ==
  ASSUME PrepType, EntryInv, HeldInv, entry' = entry, Reliable,
         entry.phase = "none" \/ registered' = None,
         \A c \in Callers : Fits(c)
  PROVE  EntryInv' /\ HeldInv'
<1>1. ASSUME NEW c \in Callers
      PROVE  /\ call'[c].mine /\ call'[c].at = "commit" =>
                  call[c].mine /\ call[c].at = "commit"
             /\ call'[c].at = "held" => /\ call[c].at = "held" /\ call'[c].mine = call[c].mine
                                        /\ call'[c].source = call[c].source
             /\ call[c].at = "held" => call'[c].at = "held"
             /\ call'[c].mine /\ call'[c].at \in {"loaded", "blocked", "check"} =>
                  entry.phase \in {"ready", "committing", "reserved"}
  <2>1. CASE call'[c] = call[c]
    BY <2>1 DEF EntryInv
  <2>2. CASE /\ call[c].at = "held" /\ call'[c].at = "held"
             /\ call'[c].mine = call[c].mine /\ call'[c].source = call[c].source
    BY <2>2
  <2>3. CASE /\ call[c].at # "held" /\ call'[c].at # "held"
             /\ call'[c].mine =>
                  /\ call'[c].at # "commit"
                  /\ call'[c].at \in {"loaded", "blocked", "check"} =>
                       entry.phase \in {"ready", "committing", "reserved"}
    BY <2>3
  <2>. QED
    BY <2>1, <2>2, <2>3 DEF Fits
<1>2. entry.phase = "reserved" => state' = state
  BY DEF Reliable
<1>3. EntryInv'
  <2>1. entry'.phase # "none" => registered' = None
    OBVIOUS
  <2>2. entry'.phase = "reserved" =>
          /\ state'.owner = None /\ state'.tracked /\ state'.materialized
          /\ \E c \in Callers : call'[c].at = "held"
    BY <1>1, <1>2 DEF EntryInv
  <2>3. \A c \in Callers :
          /\ call'[c].mine /\ call'[c].at \in {"loaded", "blocked", "check"} =>
               entry'.phase \in {"ready", "committing", "reserved"}
          /\ call'[c].mine /\ call'[c].at = "commit" => entry'.phase = "committing"
          /\ call'[c].at = "held" => call'[c].mine /\ entry'.phase = "reserved"
    BY <1>1 DEF EntryInv
  <2>4. \A c, d \in Callers :
          /\ call'[c].mine /\ call'[d].mine /\ call'[c].at = "commit" /\ call'[d].at = "commit"
               => c = d
          /\ call'[c].at = "held" /\ call'[d].at = "held" => c = d
    BY <1>1 DEF EntryInv
  <2>. QED
    BY <2>1, <2>2, <2>3, <2>4 DEF EntryInv
<1>4. ASSUME NEW c \in Callers, call'[c].at = "held"
      PROVE  /\ Len(call'[c].source.log) <= Len(store')
             /\ intruded' \/ (call'[c].source = Cold(store', torn') /\ state'.cursor = Len(store'))
  <2>1. call[c].at = "held" /\ call'[c].source = call[c].source /\ entry.phase = "reserved"
    BY <1>1, <1>4 DEF EntryInv
  <2>2. /\ Len(call[c].source.log) <= Len(store)
        /\ intruded \/ (call[c].source = Cold(store, torn) /\ state.cursor = Len(store))
    BY <2>1 DEF HeldInv
  <2>3. CASE state' = state /\ store' = store /\ torn' = torn /\ KeepsMark
    BY <2>1, <2>2, <2>3 DEF KeepsMark
  <2>4. CASE state' = state /\ Longer /\ intruded'
    <3>1. Len(call[c].source.log) \in Nat
      BY DEF PrepType, CallType, SourceType
    <3>. QED
      BY <2>1, <2>2, <2>4, <3>1 DEF Longer
  <2>. QED
    BY <2>1, <2>3, <2>4 DEF Reliable
<1>. QED
  BY <1>3, <1>4 DEF HeldInv

\* Nothing awaits the backend, or the head of the chain and what it relies on stay.
LEMMA RunKept ==
  ASSUME PrepType, OpsInv, EntryInv, RunInv, running' = running,
         running => Head(chain').kind = Head(chain).kind /\ Head(chain').for = Head(chain).for,
         state' = state, (store' = store /\ torn' = torn /\ KeepsMark) \/ (running => intruded'),
         entry.phase # "reserved" => entry'.phase # "reserved",
         \A c \in Callers : running /\ Head(chain).for = {c} /\ call[c].at = "commit"
                            /\ call[c].mine /\ entry.phase = "committing" =>
           call'[c].mine /\ entry' = entry
  PROVE  RunInv'
<1>1. ASSUME running, Head(chain).kind = "append"
      PROVE  state'.tracked /\ entry'.phase # "reserved"
  BY <1>1 DEF RunInv
<1>2. ASSUME running, Head(chain).kind = "commit"
      PROVE  /\ \A c \in Callers : Head(chain).for = {c} => call'[c].mine
             /\ state'.owner = None
             /\ intruded' \/ (~ state'.tracked /\ entry'.source = Cold(store', torn'))
  <2>1. chain # <<>>
    BY <1>2 DEF OpsInv
  <2>2. Caller \in Callers /\ Head(chain).for = {Caller} /\ call[Caller].at = "commit"
    BY <1>2, <2>1, HeadFacts DEF CallKinds
  <2>3. /\ call[Caller].mine /\ state.owner = None
        /\ intruded \/ (~ state.tracked /\ entry.source = Cold(store, torn))
    BY <1>2, <2>2 DEF RunInv
  <2>4. entry.phase = "committing"
    BY <2>2, <2>3 DEF EntryInv
  <2>5. call'[Caller].mine /\ entry' = entry
    BY <1>2, <2>2, <2>3, <2>4
  <2>6. \A c \in Callers : Head(chain).for = {c} => call'[c].mine
    BY <2>2, <2>5
  <2>7. intruded' \/ (~ state'.tracked /\ entry'.source = Cold(store', torn'))
    BY <1>2, <2>3, <2>5 DEF KeepsMark
  <2>. QED
    BY <2>3, <2>6, <2>7
<1>. QED
  BY <1>1, <1>2 DEF RunInv

\* The head of a chain that is queued at.
LEMMA HeadKept ==
  ASSUME PrepType, OpsInv, chain' = chain \/ \E op \in OpType : Queue(op)
  PROVE  running => Head(chain').kind = Head(chain).kind /\ Head(chain').for = Head(chain).for
<1>1. running => chain # <<>>
  BY DEF OpsInv
<1>. QED
  BY <1>1, QueueFacts

\* The calls that a step settles hold nothing.
LEMMA LeftFits ==
  ASSUME NEW D, Left(D), \A c \in Callers : c \in D => call[c].at # "held"
  PROVE  entry' = entry /\ \A c \in Callers : Fits(c)
<1>1. ASSUME NEW c \in Callers PROVE Fits(c)
  <2>1. CASE c \in D
    BY <2>1 DEF Left, Settled, Fits
  <2>2. CASE c \notin D
    BY <2>2 DEF Left, Fits
  <2>. QED
    BY <2>1, <2>2
<1>. QED
  BY <1>1 DEF Left

\* Nothing awaits the backend after an operation is over.
LEMMA RunOver ==
  ASSUME running' = FALSE
  PROVE  RunInv'
BY DEF RunInv

\* The shared read answers while no call commits or holds its entry.
LEMMA LoadEntry ==
  ASSUME IInv, LoadRuns
  PROVE  EntryInv' /\ HeldInv' /\ RunInv'
<1>. USE DEF IInv
<1>1. PrepType /\ DiskType /\ OpsInv /\ EntryInv /\ HeldInv
  BY DEF Types
<1>2. /\ chain # <<>> /\ chain[1].kind = "load" /\ running' = FALSE
      /\ UNCHANGED <<disk, live, state, history>>
      /\ \A d \in Callers : d \in chain[1].for =>
              /\ call'[d].at \in {"loaded", "over"}
              /\ call'[d].mine => entry'.phase = "ready" /\ call[d].mine
      /\ \A d \in Callers : d \notin chain[1].for => Stays(d)
      /\ \/ chain[1].current /\ registered = None /\ entry'.phase = "ready"
         \/ /\ chain[1].current /\ entry'.phase = "none"
            /\ \A d \in Callers : ~ call'[d].mine
         \/ ~ chain[1].current /\ entry' = entry
            /\ \A d \in Callers : d \notin chain[1].for => call'[d] = call[d]
  BY <1>1, LoadRunsFacts
<1>3. RunInv'
  BY <1>2, RunOver
<1>4. 1 \in DOMAIN chain
  BY <1>1, <1>2, HeadFacts
<1>5. /\ \A d \in Callers : d \in chain[1].for => call[d].at = "loading"
      /\ chain[1].current => entry.phase = "loading"
  BY <1>1, <1>2, <1>4 DEF OpsInv
<1>6. registered' = registered /\ state' = state /\ store' = store /\ torn' = torn
      /\ intruded' = intruded
  BY <1>2 DEF live, disk, history
<1>7. CASE chain[1].current
  <2>1. entry.phase = "loading"
    BY <1>5, <1>7
  <2>2. ASSUME NEW d \in Callers
        PROVE  /\ call'[d].at # "held"
               /\ ~ (call'[d].mine /\ call'[d].at = "commit")
    <3>1. call[d].at # "held" /\ ~ (call[d].mine /\ call[d].at = "commit")
      BY <1>1, <2>1, Joined
    <3>2. CASE d \in chain[1].for
      BY <1>2, <3>2
    <3>3. CASE d \notin chain[1].for
      BY <1>2, <3>1, <3>3 DEF Stays
    <3>. QED
      BY <3>2, <3>3
  <2>3. CASE entry'.phase = "ready" /\ registered = None
    BY <1>3, <1>6, <2>2, <2>3 DEF EntryInv, HeldInv
  <2>4. CASE entry'.phase = "none" /\ \A d \in Callers : ~ call'[d].mine
    BY <1>3, <2>2, <2>4 DEF EntryInv, HeldInv
  <2>. QED
    BY <1>2, <1>3, <1>7, <2>3, <2>4
<1>8. CASE ~ chain[1].current
  <2>1. /\ entry' = entry
        /\ \A d \in Callers : d \notin chain[1].for => call'[d] = call[d]
    BY <1>2, <1>8
  <2>2. ASSUME NEW d \in Callers PROVE Fits(d)
    <3>1. CASE d \in chain[1].for
      <4>1. call[d].at # "held" /\ call'[d].at \in {"loaded", "over"}
        BY <1>2, <1>5, <3>1
      <4>2. call'[d].mine => entry.phase = "ready"
        BY <1>2, <2>1, <3>1
      <4>. QED
        BY <4>1, <4>2 DEF Fits
    <3>2. CASE d \notin chain[1].for
      BY <2>1, <3>2 DEF Fits
    <3>. QED
      BY <3>1, <3>2
  <2>3. Reliable
    BY <1>6 DEF Reliable, KeepsMark
  <2>4. entry.phase = "none" \/ registered' = None
    BY <1>1, <1>6 DEF EntryInv
  <2>. QED
    BY <1>1, <1>3, <2>1, <2>2, <2>3, <2>4, EntryKept
<1>. QED
  BY <1>7, <1>8

\* commitPrepared() takes the reservation, returns it or loses the entry.
LEMMA CommitEntry ==
  ASSUME IInv, CommitRuns
  PROVE  EntryInv' /\ HeldInv' /\ RunInv'
<1>. USE DEF IInv
<1>. DEFINE c == Caller
<1>1. /\ PrepType /\ DiskType /\ OpsInv /\ EntryInv /\ HeldInv /\ CursorInv
      /\ store \in Seq(EventType) /\ Len(store) \in Nat
  BY DEF Types, DiskType
<1>2. /\ chain # <<>> /\ chain[1].kind = "commit" /\ ~ running
      /\ c \in Callers /\ chain[1].for = {c} /\ call[c].at = "commit"
      /\ GivesUp(c) \/ Repairs(c) \/ Succeeds(c)
      /\ UNCHANGED <<disk, live, external, intruded>>
  BY <1>1, CommitRunsFacts
<1>. HIDE DEF c
<1>3. registered' = registered /\ store' = store /\ torn' = torn /\ intruded' = intruded
  BY <1>2 DEF live, disk
<1>4. entry.phase = "none" \/ registered' = None
  BY <1>1, <1>3 DEF EntryInv
<1>5. ASSUME call[c].mine
      PROVE  /\ entry.phase = "committing"
             /\ \A d \in Callers : call[d].at # "held"
             /\ \A d \in Callers : call[d].mine /\ call[d].at = "commit" => d = c
  <2>1. entry.phase = "committing"
    BY <1>1, <1>2, <1>5, Joined
  <2>. QED
    BY <1>1, <1>2, <1>5, <2>1, Joined DEF EntryInv
<1>6. CASE GivesUp(c)
  <2>1. RunInv'
    BY <1>6, RunOver DEF GivesUp
  <2>2. CASE call[c].mine
    <3>1. Removed({c})
      BY <1>6, <2>2 DEF GivesUp
    <3>. QED
      BY <1>1, <1>5, <2>1, <2>2, <3>1, EntryEmptied
  <2>3. CASE ~ call[c].mine
    <3>1. Left({c}) /\ state' = state
      BY <1>6, <2>3 DEF GivesUp
    <3>2. entry' = entry /\ \A d \in Callers : Fits(d)
      BY <1>2, <3>1, LeftFits
    <3>3. Reliable
      BY <1>3, <3>1 DEF Reliable, KeepsMark
    <3>. QED
      BY <1>1, <1>4, <2>1, <3>2, <3>3, EntryKept
  <2>. QED
    BY <2>2, <2>3
<1>7. CASE Repairs(c)
  <2>1. /\ call[c].mine /\ entry.source = Cold(store, torn) /\ state.owner = None
        /\ torn \/ Closers(store) # <<>>
        /\ call' = call /\ entry' = entry /\ chain' = chain /\ state' = state
    BY <1>7 DEF Repairs
  <2>2. ~ state.tracked
    BY <1>1, <2>1 DEF CursorInv
  <2>3. EntryInv' /\ HeldInv'
    <3>1. Reliable /\ \A d \in Callers : Fits(d)
      BY <1>3, <2>1 DEF Reliable, KeepsMark, Fits
    <3>. QED
      BY <1>1, <1>4, <2>1, <3>1, EntryKept
  <2>4. Head(chain) = chain[1]
    BY <1>1, <1>2, HeadFacts
  <2>5. RunInv'
    BY <1>2, <1>3, <2>1, <2>2, <2>4 DEF RunInv
  <2>. QED
    BY <2>3, <2>5
<1>8. CASE Succeeds(c)
  <2>1. /\ call[c].mine /\ entry.source = Cold(store, torn) /\ state' = ColdState
        /\ running' = FALSE
        /\ Removed({c}) \/ Holds(c) \/ Readied(entry.source, {c})
    BY <1>8 DEF Succeeds
  <2>2. RunInv'
    BY <2>1, RunOver
  <2>3. CASE Removed({c})
    BY <1>1, <1>5, <2>1, <2>2, <2>3, EntryEmptied
  <2>4. CASE Readied(entry.source, {c})
    <3>1. registered' = None
      BY <1>4, <1>5, <2>1
    <3>2. \A d \in Callers :
            (call[d].mine /\ call[d].at = "commit") \/ call[d].at = "held" => d \in {c}
      BY <1>5, <2>1
    <3>. QED
      BY <1>1, <2>2, <2>4, <3>1, <3>2, EntryReadied
  <2>5. CASE Holds(c)
    <3>1. /\ entry'.phase = "reserved" /\ call'[c].at = "held" /\ call'[c].mine
          /\ call'[c].source = Cold(store, torn)
          /\ \A d \in Callers : d # c => call'[d] = call[d]
      BY <2>1, <2>5 DEF Holds, Others
    <3>2. registered' = None
      BY <1>4, <1>5, <2>1
    <3>3. state'.owner = None /\ state'.tracked /\ state'.materialized /\ state'.cursor = Len(store)
      BY <2>1 DEF ColdState, Tracked
    <3>4. ASSUME NEW d \in Callers
          PROVE  /\ call'[d].at = "held" => d = c
                 /\ ~ (call'[d].mine /\ call'[d].at = "commit")
      BY <1>5, <2>1, <3>1
    <3>5. EntryInv'
      BY <1>2, <3>1, <3>2, <3>3, <3>4 DEF EntryInv
    <3>6. call'[c].source.log = store
      BY <3>1 DEF Cold
    <3>7. HeldInv'
      BY <1>1, <1>3, <3>1, <3>3, <3>4, <3>6 DEF HeldInv
    <3>. QED
      BY <2>2, <3>5, <3>7
  <2>. QED
    BY <2>1, <2>3, <2>4, <2>5
<1>. QED
  BY <1>2, <1>6, <1>7, <1>8

\* The repaired log is read again.
LEMMA RepairEntry ==
  ASSUME IInv, RepairSettles
  PROVE  EntryInv' /\ HeldInv' /\ RunInv'
<1>. USE DEF IInv
<1>. DEFINE c == Caller
<1>1. PrepType /\ DiskType /\ OpsInv /\ EntryInv /\ RunInv
  BY DEF Types
<1>2. /\ chain # <<>> /\ chain[1].kind = "commit" /\ running
      /\ c \in Callers /\ chain[1].for = {c} /\ call[c].at = "commit"
      /\ Removed({c}) /\ running' = FALSE
  BY <1>1, RepairSettlesFacts
<1>. HIDE DEF c
<1>3. Head(chain) = chain[1]
  BY <1>1, <1>2, HeadFacts
<1>4. call[c].mine
  BY <1>1, <1>2, <1>3 DEF RunInv
<1>5. \A d \in Callers : call[d].at # "held"
  BY <1>1, <1>2, <1>4, Joined
<1>. QED
  BY <1>1, <1>2, <1>5, EntryEmptied, RunOver

\* inspect() drops a stale source only when nobody has reserved it.
LEMMA CheckEntry ==
  ASSUME IInv, CheckRuns
  PROVE  EntryInv' /\ HeldInv' /\ RunInv'
<1>. USE DEF IInv
<1>. DEFINE c == Caller
<1>1. PrepType /\ DiskType /\ OpsInv /\ EntryInv /\ HeldInv
  BY DEF Types
<1>2. /\ c \in Callers /\ call[c].at = "check" /\ running' = FALSE
      /\ Left({c}) \/ (call[c].mine /\ Writable /\ Removed({c}))
      /\ UNCHANGED <<disk, live, state, history>>
  BY <1>1, CheckRunsFacts
<1>. HIDE DEF c
<1>3. CASE Writable /\ Removed({c})
  BY <1>1, <1>2, <1>3, Joined, EntryEmptied, RunOver DEF Writable
<1>4. CASE Left({c})
  <2>1. entry' = entry /\ \A d \in Callers : Fits(d)
    BY <1>2, <1>4, LeftFits
  <2>2. Reliable /\ (entry.phase = "none" \/ registered' = None)
    BY <1>1, <1>2 DEF Reliable, KeepsMark, EntryInv, live, disk, history
  <2>. QED
    BY <1>1, <1>2, <2>1, <2>2, EntryKept, RunOver
<1>. QED
  BY <1>2, <1>3, <1>4

\* The public append: it starts only beside no reservation.
LEMMA AppendEntry ==
  ASSUME IInv, AppendStarts
  PROVE  EntryInv' /\ HeldInv' /\ RunInv'
<1>. USE DEF IInv
<1>. DEFINE c == Caller
<1>1. PrepType /\ DiskType /\ OpsInv /\ EntryInv /\ HeldInv
  BY DEF Types
<1>2. /\ chain # <<>> /\ chain[1].kind = "append" /\ ~ running
      /\ c \in Callers /\ call[c].at = "append"
      /\ Adopts \/ HalfAdopts \/ Untouched
      /\ intruded' = (intruded \/ (store' # store /\ Claimed))
      /\ UNCHANGED <<live, external>>
  BY <1>1, AppendStartsFacts
<1>3. \/ /\ Writable /\ state'.tracked
         /\ running' = TRUE /\ chain' = chain
         /\ (entry' = entry /\ call' = call) \/ (entry.phase = "ready" /\ Removed({}))
      \/ /\ running' = FALSE
         /\ Left({c}) \/ (entry.phase = "ready" /\ Removed({c}))
  BY <1>1, AppendStartsFacts
<1>. HIDE DEF c
<1>4. Reliable
  BY <1>2 DEF Reliable, Adopts, HalfAdopts, Untouched, Writable, KeepsMark
<1>5. entry.phase = "none" \/ registered' = None
  BY <1>1, <1>2 DEF EntryInv, live
<1>6. EntryInv' /\ HeldInv'
  <2>1. ASSUME NEW D, entry.phase = "ready", Removed(D) PROVE EntryInv' /\ HeldInv'
    BY <1>1, <2>1, Joined, EntryEmptied
  <2>2. CASE entry' = entry /\ call' = call
    <3>1. \A d \in Callers : Fits(d)
      BY <2>2 DEF Fits
    <3>. QED
      BY <1>1, <1>4, <1>5, <2>2, <3>1, EntryKept
  <2>3. CASE Left({c})
    <3>1. entry' = entry /\ \A d \in Callers : Fits(d)
      BY <1>2, <2>3, LeftFits
    <3>. QED
      BY <1>1, <1>4, <1>5, <3>1, EntryKept
  <2>. QED
    BY <1>3, <2>1, <2>2, <2>3
<1>7. CASE running' = FALSE
  BY <1>6, <1>7, RunOver
<1>8. CASE /\ Writable /\ state'.tracked
           /\ running' = TRUE /\ chain' = chain
           /\ (entry' = entry /\ call' = call) \/ (entry.phase = "ready" /\ Removed({}))
  <2>1. Head(chain').kind = "append"
    BY <1>1, <1>2, <1>8, HeadFacts
  <2>2. entry'.phase # "reserved"
    BY <1>8 DEF Writable, Removed, NoEntry
  <2>3. RunInv'
    BY <1>8, <2>1, <2>2 DEF RunInv
  <2>. QED
    BY <1>6, <2>3
<1>. QED
  BY <1>3, <1>7, <1>8

\* The public append is over: no preparation was reserved beside it.
LEMMA SettleEntry ==
  ASSUME IInv, AppendSettles
  PROVE  EntryInv' /\ HeldInv' /\ RunInv'
<1>. USE DEF IInv
<1>. DEFINE c == Caller
<1>1. PrepType /\ DiskType /\ OpsInv /\ EntryInv /\ HeldInv /\ RunInv
  BY DEF Types
<1>2. /\ chain # <<>> /\ chain[1].kind = "append" /\ running /\ running' = FALSE
      /\ c \in Callers /\ call[c].at = "append"
      /\ Removed({c}) \/ Left({c})
      /\ UNCHANGED live
  BY <1>1, AppendSettlesFacts
<1>. HIDE DEF c
<1>3. entry.phase # "reserved"
  BY <1>1, <1>2, HeadFacts DEF RunInv
<1>4. CASE Removed({c})
  BY <1>1, <1>2, <1>3, <1>4, Joined, EntryEmptied, RunOver
<1>5. CASE Left({c})
  <2>1. entry' = entry /\ \A d \in Callers : Fits(d)
    BY <1>2, <1>5, LeftFits
  <2>2. Reliable /\ (entry.phase = "none" \/ registered' = None)
    BY <1>1, <1>2, <1>3 DEF Reliable, EntryInv, live
  <2>. QED
    BY <1>1, <1>2, <2>1, <2>2, EntryKept, RunOver
<1>. QED
  BY <1>2, <1>4, <1>5

\* A storage operation of a live Session, which leaves a reservation alone.
LEMMA OperationEntry ==
  ASSUME PrepType, OpsInv, EntryInv, HeldInv, running' = FALSE, registered' = registered,
         \/ Rests /\ Reliable
         \/ Clears /\ entry.phase # "reserved"
         \/ Reliable /\ \E s : Left(Flushing(s))
  PROVE  EntryInv' /\ HeldInv' /\ RunInv'
<1>1. entry.phase = "none" \/ registered' = None
  BY DEF EntryInv
<1>2. CASE Rests /\ Reliable
  <2>1. entry' = entry /\ \A d \in Callers : Fits(d)
    BY <1>2 DEF Rests, Fits
  <2>. QED
    BY <1>1, <1>2, <2>1, EntryKept, RunOver
<1>3. CASE Clears /\ entry.phase # "reserved"
  BY <1>3, Joined, EntryEmptied, RunOver DEF Clears
<1>4. ASSUME NEW s, Reliable, Left(Flushing(s)) PROVE EntryInv' /\ HeldInv' /\ RunInv'
  <2>1. entry' = entry /\ \A d \in Callers : Fits(d)
    <3>1. \A d \in Callers : d \in Flushing(s) => call[d].at # "held"
      BY DEF Flushing
    <3>. QED
      BY <1>4, <3>1, LeftFits
  <2>. QED
    BY <1>1, <1>4, <2>1, EntryKept, RunOver
<1>. QED
  BY <1>2, <1>3, <1>4

\* A live Session is initialized beside no reservation and writes beside none.
LEMMA LiveEntry ==
  ASSUME IInv, InitRuns \/ SuffixRuns \/ WriteRuns \/ ReleaseRuns
  PROVE  EntryInv' /\ HeldInv' /\ RunInv'
<1>. USE DEF IInv
<1>1. /\ Types /\ PrepType /\ DiskType /\ OpsInv /\ RegInv /\ LiveInv /\ EntryInv /\ HeldInv
      /\ CursorInv
  BY DEF Types
<1>2. ASSUME chain # <<>>, chain[1].kind \in RegKinds PROVE entry.phase # "reserved"
  <2>1. 1 \in DOMAIN chain /\ \E s \in Sessions : chain[1].for = {s}
    BY <1>1, <1>2, HeadFacts DEF OpsInv, SessionKinds
  <2>. QED
    BY <1>1, <1>2, <2>1 DEF RegInv, Inits
<1>3. CASE InitRuns
  <2>1. PICK s \in Sessions, n \in Nat :
           /\ chain # <<>> /\ Inits(chain[1], s)
           /\ InitRefused(s) \/ InitClaims(s, n) \/ InitWrites(s, n)
           /\ registered' = registered
    BY <1>1, <1>3, InitRunsFacts
  <2>2. entry.phase # "reserved"
    BY <1>2, <2>1 DEF Inits
  <2>3. (Rests \/ Clears) /\ running' = FALSE
    BY <2>1 DEF InitRefused, InitClaims, InitWrites, Rests, Clears
  <2>. QED
    BY <1>1, <2>1, <2>2, <2>3, OperationEntry DEF Reliable
<1>4. CASE SuffixRuns
  <2>1. PICK s \in Sessions :
           /\ chain # <<>> /\ Inits(chain[1], s)
           /\ SuffixFails(s) \/ SuffixWrites(s)
           /\ registered' = registered
    BY <1>1, <1>4, SuffixRunsFacts
  <2>2. entry.phase # "reserved"
    BY <1>2, <2>1 DEF Inits
  <2>3. (Rests \/ Clears) /\ running' = FALSE
    BY <2>1 DEF SuffixFails, SuffixWrites, Rests, Clears
  <2>. QED
    BY <1>1, <2>1, <2>2, <2>3, OperationEntry DEF Reliable
<1>5. CASE WriteRuns
  <2>1. PICK s \in Sessions, n \in Nat :
           /\ WriteSkips(s, n) \/ WriteStores(s, n) \/ WriteFails(s)
           /\ UNCHANGED <<torn, registered, intruded>>
    BY <1>1, <1>5, WriteRunsFacts
  <2>2. running' = FALSE /\ registered' = registered /\ torn' = torn /\ KeepsMark
    BY <2>1 DEF WriteSkips, WriteStores, WriteFails, Rests, Clears, KeepsMark
  <2>3. CASE WriteSkips(s, n)
    <3>1. Rests /\ Reliable
      BY <2>2, <2>3 DEF WriteSkips, Reliable
    <3>. QED
      BY <1>1, <2>2, <3>1, OperationEntry
  <2>4. CASE WriteStores(s, n)
    <3>1. Clears /\ entry.phase # "reserved"
      BY <2>4 DEF WriteStores, Writable
    <3>. QED
      BY <1>1, <2>2, <3>1, OperationEntry
  <2>5. CASE WriteFails(s)
    <3>1. Reliable /\ Left(Flushing(s))
      BY <2>2, <2>5 DEF WriteFails, Reliable
    <3>. QED
      BY <1>1, <2>2, <3>1, OperationEntry
  <2>. QED
    BY <2>1, <2>3, <2>4, <2>5
<1>6. CASE ReleaseRuns
  <2>1. PICK s \in Sessions :
           /\ Rests /\ state' = (IF state.owner = s THEN Untracked ELSE state)
           /\ UNCHANGED <<disk, registered, history>>
    BY <1>1, <1>6, ReleaseRunsFacts
  <2>2. s # None
    BY NoneAssumption
  <2>3. Reliable
    BY <1>1, <2>1, <2>2 DEF Reliable, EntryInv, KeepsMark, disk, history
  <2>4. running' = FALSE /\ registered' = registered
    BY <2>1 DEF Rests
  <2>. QED
    BY <1>1, <2>1, <2>3, <2>4, OperationEntry
<1>. QED
  BY <1>3, <1>4, <1>5, <1>6

\* A call that waits for a read joins the entry, and no commit.
LEMMA EntersEntry ==
  ASSUME IInv, NEW c \in Callers, Enters(c), UNCHANGED <<disk, live, state, running, history>>
  PROVE  EntryInv' /\ HeldInv' /\ RunInv'
<1>. USE DEF IInv
<1>1. PrepType /\ OpsInv /\ EntryInv /\ HeldInv /\ RunInv
  BY DEF Types
<1>2. /\ registered' = registered /\ state' = state /\ store' = store /\ torn' = torn
      /\ running' = running /\ Reliable /\ KeepsMark
  BY DEF live, disk, history, Reliable, KeepsMark
<1>3. entry.phase = "none" \/ registered' = None
  BY <1>1, <1>2 DEF EntryInv
<1>4. /\ call[c].at \notin {"held", "commit"}
      /\ \A d \in Callers : d # c => call'[d] = call[d]
  BY DEF Enters, Others
<1>5. CASE Opens(c)
  <2>1. /\ registered = None /\ entry.phase = "none" /\ entry'.phase = "loading"
        /\ call'[c].at = "loading"
    BY <1>5 DEF Opens
  <2>2. EntryInv' /\ HeldInv'
    <3>1. \A d \in Callers :
            /\ call[d].at # "held"
            /\ ~ (call[d].mine /\ call[d].at \in {"loaded", "blocked", "check", "commit"})
      BY <1>1, <2>1 DEF EntryInv
    <3>2. \A d \in Callers :
            /\ call'[d].at # "held"
            /\ ~ (call'[d].mine /\ call'[d].at \in {"loaded", "blocked", "check", "commit"})
      BY <1>4, <2>1, <3>1
    <3>. QED
      BY <1>2, <2>1, <3>2 DEF EntryInv, HeldInv
  <2>3. Op("load", {c}, 0, TRUE) \in OpType
    BY DEF Op, OpType
  <2>4. running => Head(chain').kind = Head(chain).kind /\ Head(chain').for = Head(chain).for
    BY <1>1, <1>5, <2>3, HeadKept DEF Opens
  <2>5. RunInv'
    BY <1>1, <1>2, <2>1, <2>4, RunKept
  <2>. QED
    BY <2>2, <2>5
<1>6. CASE Apart1(c) \/ Shares(c) \/ Finds(c)
  <2>1. entry' = entry
    BY <1>6 DEF Apart1, Shares, Finds
  <2>2. Fits(c)
    BY <1>4, <1>6 DEF Apart1, Shares, Finds, Fits
  <2>3. \A d \in Callers : Fits(d)
    BY <1>4, <2>2 DEF Fits
  <2>4. EntryInv' /\ HeldInv'
    BY <1>1, <1>2, <1>3, <2>1, <2>3, EntryKept
  <2>5. running => Head(chain').kind = Head(chain).kind /\ Head(chain').for = Head(chain).for
    <3>1. CASE chain' = chain
      BY <3>1
    <3>2. ASSUME Shares(c), running
          PROVE  Head(chain').kind = Head(chain).kind /\ Head(chain').for = Head(chain).for
      <4>1. /\ chain # <<>> /\ Head(chain).kind \in {"commit", "append"}
            /\ Head(chain) = chain[1] /\ 1 \in DOMAIN chain
        BY <1>1, <3>2, HeadFacts DEF OpsInv
      <4>2. chain'[1].kind = chain[1].kind /\ chain'[1].for = chain[1].for
        BY <3>2, <4>1 DEF Shares, Kept
      <4>3. Head(chain') = chain'[1]
        BY DEF Enters
      <4>. QED
        BY <4>1, <4>2, <4>3
    <3>. QED
      BY <1>6, <3>1, <3>2 DEF Apart1, Finds
  <2>6. RunInv'
    BY <1>1, <1>2, <1>4, <2>1, <2>5, RunKept
  <2>. QED
    BY <2>4, <2>6
<1>. QED
  BY <1>5, <1>6 DEF Enters

\* reserve() finds the entry ready and marks it, or the call goes elsewhere.
LEMMA ReadDoneEntry ==
  ASSUME IInv, NEW c \in Callers, ReadDone(c)
  PROVE  EntryInv' /\ HeldInv' /\ RunInv'
<1>. USE DEF IInv
<1>1. PrepType /\ OpsInv /\ EntryInv /\ HeldInv /\ RunInv
  BY DEF Types
<1>2. /\ Others(c) /\ call[c].at = "loaded"
      /\ \/ Left({c}) /\ chain' = chain
         \/ Checks(c) \/ Commits(c) \/ Waits(c)
      /\ UNCHANGED <<disk, live, state, running, history>>
  BY <1>1, ReadDoneFacts
<1>3. /\ registered' = registered /\ state' = state /\ store' = store /\ torn' = torn
      /\ running' = running /\ Reliable /\ KeepsMark
      /\ \A d \in Callers : d # c => call'[d] = call[d]
  BY <1>2 DEF live, disk, history, Reliable, KeepsMark, Others
<1>4. entry.phase = "none" \/ registered' = None
  BY <1>1, <1>3 DEF EntryInv
<1>5. \A k \in {"check", "commit"} : Op(k, {c}, 0, FALSE) \in OpType
  BY DEF Op, OpType, CallKinds
<1>6. running => Head(chain').kind = Head(chain).kind /\ Head(chain').for = Head(chain).for
  BY <1>1, <1>2, <1>5, HeadKept DEF Checks, Commits, Waits
<1>7. CASE Commits(c)
  <2>1. /\ call[c].mine /\ entry.phase = "ready" /\ entry'.phase = "committing"
        /\ call'[c].at = "commit"
    BY <1>7 DEF Commits
  <2>2. \A d \in Callers : call[d].at # "held" /\ ~ (call[d].mine /\ call[d].at = "commit")
    BY <1>1, <2>1, Joined
  <2>3. \A d \in Callers : /\ call'[d].at # "held"
                           /\ call'[d].mine /\ call'[d].at = "commit" => d = c
    BY <1>3, <2>1, <2>2
  <2>4. EntryInv' /\ HeldInv'
    BY <1>4, <2>1, <2>3 DEF EntryInv, HeldInv
  <2>5. RunInv'
    BY <1>1, <1>3, <1>6, <2>1, RunKept
  <2>. QED
    BY <2>4, <2>5
<1>8. CASE Left({c}) \/ Checks(c) \/ Waits(c)
  <2>1. entry' = entry
    BY <1>8 DEF Left, Checks, Waits
  <2>2. Fits(c)
    <3>1. CASE Left({c})
      BY <1>2, <3>1, LeftFits
    <3>2. CASE Checks(c)
      BY <1>1, <1>2, <3>2 DEF Checks, Fits, EntryInv
    <3>3. CASE Waits(c)
      BY <1>1, <1>2, <3>3 DEF Waits, Fits, EntryInv
    <3>. QED
      BY <1>8, <3>1, <3>2, <3>3
  <2>3. \A d \in Callers : Fits(d)
    BY <1>3, <2>2 DEF Fits
  <2>4. EntryInv' /\ HeldInv'
    BY <1>1, <1>3, <1>4, <2>1, <2>3, EntryKept
  <2>5. RunInv'
    BY <1>1, <1>2, <1>3, <1>6, <2>1, RunKept
  <2>. QED
    BY <2>4, <2>5
<1>. QED
  BY <1>2, <1>7, <1>8

\* Steps of one call that leave the entry as it is.
LEMMA CallEntry ==
  ASSUME IInv, NEW c \in Callers, FlushReturns(c) \/ AppendCalled(c) \/ Extend(c)
  PROVE  EntryInv' /\ HeldInv' /\ RunInv'
<1>. USE DEF IInv
<1>1. PrepType /\ DiskType /\ OpsInv /\ EntryInv /\ HeldInv /\ RunInv
  BY DEF Types
<1>2. /\ entry' = entry /\ UNCHANGED <<disk, live, state, running, history>>
      /\ Fits(c) /\ call[c].at # "commit"
      /\ \A d \in Callers : d # c => call'[d] = call[d]
      /\ chain' = chain \/ \E op \in OpType : Queue(op)
  <2>1. CASE FlushReturns(c)
    <3>1. Left({c}) /\ call[c].at = "flush"
          /\ UNCHANGED <<disk, live, state, chain, running, history>>
      BY <1>1, <2>1, FlushReturnsFacts
    <3>2. \A d \in Callers : d # c => call'[d] = call[d]
      BY <3>1 DEF Left
    <3>. QED
      BY <3>1, <3>2, LeftFits
  <2>2. CASE AppendCalled(c)
    BY <1>1, <2>2, AppendCalledFacts DEF Others, Fits
  <2>3. CASE Extend(c)
    BY <1>1, <2>3, ExtendFacts DEF Others, Fits
  <2>. QED
    BY <2>1, <2>2, <2>3
<1>3. /\ registered' = registered /\ state' = state /\ store' = store /\ torn' = torn
      /\ running' = running /\ Reliable /\ KeepsMark
  BY <1>2 DEF live, disk, history, Reliable, KeepsMark
<1>4. entry.phase = "none" \/ registered' = None
  BY <1>1, <1>3 DEF EntryInv
<1>5. \A d \in Callers : Fits(d)
  BY <1>2 DEF Fits
<1>6. EntryInv' /\ HeldInv'
  BY <1>1, <1>2, <1>3, <1>4, <1>5, EntryKept
<1>7. running => Head(chain').kind = Head(chain).kind /\ Head(chain').for = Head(chain).for
  BY <1>1, <1>2, HeadKept
<1>8. RunInv'
  BY <1>1, <1>2, <1>3, <1>7, RunKept
<1>. QED
  BY <1>6, <1>8

\* While a preparation is held nothing awaits the backend.
LEMMA HeldRests ==
  ASSUME IInv, NEW c \in Callers, call[c].at = "held"
  PROVE  /\ ~ running /\ call[c].mine /\ entry.phase = "reserved"
         /\ \A d \in Callers : call[d].at = "held" => d = c
<1>. USE DEF IInv
<1>1. PrepType /\ OpsInv /\ EntryInv /\ RunInv
  BY DEF Types
<1>2. call[c].mine /\ entry.phase = "reserved"
  BY <1>1, Joined
<1>3. ASSUME running PROVE FALSE
  <2>1. chain # <<>> /\ Head(chain).kind \in {"commit", "append"}
    BY <1>1, <1>3 DEF OpsInv
  <2>2. Head(chain).kind = "commit"
    BY <1>1, <1>2, <1>3, <2>1 DEF RunInv
  <2>3. Caller \in Callers /\ Head(chain).for = {Caller} /\ call[Caller].at = "commit"
    BY <1>1, <2>1, <2>2, HeadFacts DEF CallKinds
  <2>4. call[Caller].mine
    BY <1>1, <1>3, <2>2, <2>3 DEF RunInv
  <2>. QED
    BY <1>1, <1>2, <2>3, <2>4, Joined
<1>. QED
  BY <1>1, <1>2, <1>3 DEF EntryInv

\* The holder settles: by a release or by the publication of its Session.
LEMMA HolderEntry ==
  ASSUME IInv, NEW c \in Callers, Release(c) \/ \E s \in Sessions : Publish(c, s)
  PROVE  EntryInv' /\ HeldInv' /\ RunInv'
<1>. USE DEF IInv
<1>1. PrepType /\ EntryInv
  BY DEF Types
<1>2. call[c].at = "held"
  BY DEF Release, Publish
<1>3. /\ ~ running /\ call[c].mine /\ entry.phase = "reserved"
      /\ \A d \in Callers : call[d].at = "held" => d = c
  BY <1>2, HeldRests
<1>4. \A d \in Callers : ~ (call[d].mine /\ call[d].at = "commit")
  BY <1>1, <1>3, Joined
<1>5. running \in BOOLEAN
  BY <1>1 DEF PrepType
<1>6. CASE Release(c)
  <2>1. /\ Readied(entry.source, {c}) \/ Removed({c})
        /\ UNCHANGED <<live, running>>
    BY <1>1, <1>3, <1>6, ReleaseFacts
  <2>2. registered' = None /\ running' = FALSE
    BY <1>1, <1>3, <1>5, <2>1 DEF EntryInv, live
  <2>3. \A d \in Callers :
          (call[d].mine /\ call[d].at = "commit") \/ call[d].at = "held" => d \in {c}
    BY <1>3, <1>4
  <2>4. CASE Readied(entry.source, {c})
    BY <1>1, <2>2, <2>3, <2>4, EntryReadied, RunOver
  <2>5. CASE Removed({c})
    BY <1>1, <2>2, <2>3, <2>5, EntryEmptied, RunOver
  <2>. QED
    BY <2>1, <2>4, <2>5
<1>7. ASSUME NEW s \in Sessions, Publish(c, s) PROVE EntryInv' /\ HeldInv' /\ RunInv'
  <2>1. Removed({c}) /\ running' = running
    BY <1>1, <1>3, <1>7, PublishFacts
  <2>2. running' = FALSE
    BY <1>3, <1>5, <2>1
  <2>. QED
    BY <1>1, <1>3, <2>1, <2>2, EntryEmptied, RunOver
<1>. QED
  BY <1>6, <1>7

\* A cancelled call withdraws from the entry, unless its commit has started.
LEMMA AbortEntry ==
  ASSUME IInv, NEW c \in Callers, Abort(c)
  PROVE  EntryInv' /\ HeldInv' /\ RunInv'
<1>. USE DEF IInv
<1>1. PrepType /\ OpsInv /\ EntryInv /\ HeldInv /\ RunInv
  BY DEF Types
<1>2. /\ chain' \in Seq(OpType)
      /\ Leaves(c) \/ StopsReading(c) \/ Withdraws(c)
      /\ UNCHANGED <<disk, live, state, running, external, intruded>>
  BY <1>1, AbortFacts
<1>3. /\ registered' = registered /\ state' = state /\ store' = store /\ torn' = torn
      /\ running' = running /\ Reliable /\ KeepsMark
  BY <1>2 DEF live, disk, Reliable, KeepsMark
<1>4. entry.phase = "none" \/ registered' = None
  BY <1>1, <1>3 DEF EntryInv
<1>5. /\ call[c].at \in {"begin", "retirement", "blocked", "loading", "commit", "check"}
      /\ Left({c}) \/ (call[c].at = "commit" /\ call[c].mine /\ Removed({c}))
  BY <1>2 DEF Leaves, StopsReading, Withdraws
<1>6. EntryInv' /\ HeldInv'
  <2>1. CASE Left({c})
    <3>1. entry' = entry /\ \A d \in Callers : Fits(d)
      BY <1>5, <2>1, LeftFits
    <3>. QED
      BY <1>1, <1>3, <1>4, <3>1, EntryKept
  <2>2. CASE call[c].at = "commit" /\ call[c].mine /\ Removed({c})
    BY <1>1, <2>2, Joined, EntryEmptied
  <2>. QED
    BY <1>5, <2>1, <2>2
<1>7. ASSUME running
      PROVE  /\ Head(chain').kind = Head(chain).kind /\ Head(chain').for = Head(chain).for
             /\ call[c].at = "commit" => Head(chain).for # {c}
  <2>1. /\ chain # <<>> /\ Head(chain).kind \in {"commit", "append"}
        /\ Head(chain) = chain[1] /\ 1 \in DOMAIN chain
    BY <1>1, <1>7, HeadFacts DEF OpsInv
  <2>2. PICK d \in Callers : Head(chain).for = {d} /\ call[d].at \in {"commit", "append"}
    BY <1>1, <2>1, HeadFacts DEF CallKinds
  <2>3. CASE Leaves(c)
    BY <2>3 DEF Leaves
  <2>4. CASE StopsReading(c)
    <3>1. /\ call[c].at = "loading" /\ Len(chain') = Len(chain)
          /\ chain'[1] = [chain[1] EXCEPT !.for = chain[1].for \ {c}]
      BY <2>1, <2>4 DEF StopsReading
    <3>2. chain[1].for \ {c} = chain[1].for
      BY <2>1, <2>2, <3>1
    <3>3. chain[1] \in OpType
      BY <1>1, <2>1 DEF PrepType
    <3>4. chain'[1].kind = chain[1].kind /\ chain'[1].for = chain[1].for
      BY <3>1, <3>2, <3>3 DEF OpType
    <3>5. Head(chain') = chain'[1]
      BY <1>2
    <3>. QED
      BY <2>1, <3>1, <3>4, <3>5
  <2>5. CASE Withdraws(c)
    <3>1. PICK k \in DOMAIN chain : chain[k].for = {c} /\ chain' = RemoveAt(chain, k)
      BY <2>5 DEF Withdraws
    <3>2. Head(chain).for # {c}
      BY <1>7, <2>5 DEF Withdraws
    <3>3. k # 1
      BY <2>1, <3>1, <3>2
    <3>4. k \in 1 .. Len(chain) /\ Len(chain) \in Nat
      BY <1>1, <3>1 DEF PrepType
    <3>5. /\ RemoveAt(chain, k)[1] = chain[1] /\ Len(RemoveAt(chain, k)) = Len(chain) - 1
      <4>1. chain \in Seq(OpType)
        BY <1>1 DEF PrepType
      <4>2. /\ Len(RemoveAt(chain, k)) = Len(chain) - 1
            /\ \A i \in 1 .. Len(chain) - 1 :
                 RemoveAt(chain, k)[i] = chain[IF i < k THEN i ELSE i + 1]
        BY <3>1, <4>1, RemoveAtValue
      <4>3. 1 \in 1 .. Len(chain) - 1 /\ 1 < k
        BY <3>3, <3>4
      <4>. QED
        BY <4>2, <4>3
    <3>6. Head(chain') = chain'[1]
      BY <1>2
    <3>. QED
      BY <2>1, <3>1, <3>2, <3>5, <3>6
  <2>. QED
    BY <1>2, <2>3, <2>4, <2>5
<1>8. entry.phase # "reserved" => entry'.phase # "reserved"
  BY <1>5 DEF Left, Removed, NoEntry
<1>9. ASSUME NEW d \in Callers, running, Head(chain).for = {d}, call[d].at = "commit",
             call[d].mine, entry.phase = "committing"
      PROVE  call'[d].mine /\ entry' = entry
  <2>1. d # c
    BY <1>7, <1>9
  <2>2. Left({c})
    BY <1>1, <1>5, <1>9, <2>1 DEF EntryInv
  <2>. QED
    BY <1>9, <2>1, <2>2 DEF Left
<1>10. RunInv'
  BY <1>1, <1>3, <1>7, <1>8, <1>9, RunKept
<1>. QED
  BY <1>6, <1>10

\* Steps that leave the calls and the entry as they are.
LEMMA OtherEntry ==
  ASSUME IInv, entry' = entry, call' = call, running' = running, state' = state,
         entry.phase = "none" \/ registered' \in {registered, None},
         chain' = chain \/ \E op \in OpType : Queue(op),
         \/ store' = store /\ torn' = torn /\ KeepsMark
         \/ Longer /\ (running \/ entry.phase = "reserved" => intruded')
  PROVE  EntryInv' /\ HeldInv' /\ RunInv'
<1>. USE DEF IInv
<1>1. PrepType /\ OpsInv /\ EntryInv /\ HeldInv /\ RunInv
  BY DEF Types
<1>2. Reliable /\ \A d \in Callers : Fits(d)
  BY DEF Reliable, Fits
<1>3. entry.phase = "none" \/ registered' = None
  BY <1>1 DEF EntryInv
<1>4. EntryInv' /\ HeldInv'
  BY <1>1, <1>2, <1>3, EntryKept
<1>5. running => Head(chain').kind = Head(chain).kind /\ Head(chain').for = Head(chain).for
  BY <1>1, HeadKept
<1>6. RunInv'
  BY <1>1, <1>5, RunKept
<1>. QED
  BY <1>4, <1>6

\* The steps of a live Session between its operations.
LEMMA SessionEntry ==
  ASSUME IInv, NEW s \in Sessions,
         Create(s) \/ Emit(s) \/ StartWrite(s) \/ RetireFlushed(s) \/ Dispose(s)
  PROVE  EntryInv' /\ HeldInv' /\ RunInv'
<1>. USE DEF IInv
<1>1. PrepType /\ DiskType /\ LiveType
  BY DEF Types
<1>2. CASE Create(s)
  <2>1. /\ entry.phase = "none" /\ entry' = entry /\ call' = call
        /\ UNCHANGED <<disk, state, running, history>>
        /\ \E op \in OpType : Queue(op)
    BY <1>1, <1>2, CreateFacts
  <2>. QED
    BY <2>1, OtherEntry DEF disk, history, KeepsMark
<1>3. CASE Emit(s) \/ StartWrite(s) \/ RetireFlushed(s) \/ Dispose(s)
  <2>1. /\ UNCHANGED <<disk, state, entry, running, call, history>>
        /\ registered' \in {registered, None}
    BY <1>3 DEF Emit, StartWrite, RetireFlushed, Dispose
  <2>2. chain' = chain \/ \E op \in OpType : Queue(op)
    <3>1. CASE StartWrite(s)
      <4>1. Op("write", {s}, Len(events[s]), FALSE) \in OpType
        BY <1>1 DEF Op, OpType, SessionKinds, LiveType
      <4>. QED
        BY <3>1, <4>1 DEF StartWrite
    <3>2. CASE RetireFlushed(s)
      <4>1. Op("release", {s}, 0, FALSE) \in OpType
        BY DEF Op, OpType, SessionKinds
      <4>. QED
        BY <3>2, <4>1 DEF RetireFlushed
    <3>3. CASE Emit(s) \/ Dispose(s)
      BY <3>3 DEF Emit, Dispose
    <3>. QED
      BY <1>3, <3>1, <3>2, <3>3
  <2>3. /\ store' = store /\ torn' = torn /\ KeepsMark /\ entry' = entry /\ call' = call
        /\ running' = running /\ state' = state
    BY <2>1 DEF disk, history, KeepsMark
  <2>. QED
    BY <2>1, <2>2, <2>3, OtherEntry
<1>. QED
  BY <1>2, <1>3

\* Another process appends beside a reservation or a pending write: the history
\* says so. An evicted source has no holder.
LEMMA OutsideEntry ==
  ASSUME IInv, External \/ Evict \/ UNCHANGED vars
  PROVE  EntryInv' /\ HeldInv' /\ RunInv'
<1>. USE DEF IInv
<1>1. PrepType /\ DiskType /\ OpsInv /\ EntryInv /\ RunInv
  BY DEF Types
<1>2. CASE External
  <2>1. /\ UNCHANGED <<torn, live, state, entry, chain, running, call>>
        /\ store' = Append(store, Event("other", FALSE))
        /\ intruded' = (intruded \/ Claimed \/ running)
    BY <1>2 DEF External
  <2>2. Longer
    <3>1. Event("other", FALSE) \in EventType
      BY DEF Event, EventType
    <3>. QED
      BY <1>1, <2>1, <3>1, LongerFacts
  <2>3. running \/ entry.phase = "reserved" => intruded'
    BY <2>1 DEF Claimed
  <2>. QED
    BY <2>1, <2>2, <2>3, OtherEntry DEF live
<1>3. CASE Evict
  <2>1. /\ entry.phase = "ready" /\ Removed({})
        /\ UNCHANGED <<disk, live, state, chain, running, external, intruded>>
    BY <1>1, <1>3, EvictFacts
  <2>2. EntryInv' /\ HeldInv'
    BY <1>1, <2>1, Joined, EntryEmptied
  <2>3. /\ running' = running /\ state' = state /\ store' = store /\ torn' = torn /\ KeepsMark
        /\ chain' = chain
    BY <2>1 DEF disk, KeepsMark
  <2>4. RunInv'
    BY <1>1, <2>1, <2>3, RunKept DEF Removed, NoEntry
  <2>. QED
    BY <2>2, <2>4
<1>4. CASE UNCHANGED vars
  BY <1>4, OtherEntry DEF vars, KeepsMark
<1>. QED
  BY <1>2, <1>3, <1>4

\* The entry and the calls that joined it go on agreeing.
LEMMA EntryStep ==
  ASSUME IInv, [Next]_vars
  PROVE  EntryInv' /\ HeldInv' /\ RunInv'
<1>1. CASE LoadRuns \/ CommitRuns \/ RepairSettles \/ CheckRuns
  BY <1>1, LoadEntry, CommitEntry, RepairEntry, CheckEntry
<1>2. CASE AppendStarts \/ AppendSettles
  BY <1>2, AppendEntry, SettleEntry
<1>3. CASE InitRuns \/ SuffixRuns \/ WriteRuns \/ ReleaseRuns
  BY <1>3, LiveEntry
<1>4. ASSUME NEW c \in Callers,
             \/ Call(c) \/ Again(c) \/ RetirementSettled(c)
             \/ AppendCalled(c) \/ ReadDone(c) \/ FlushReturns(c)
             \/ Extend(c) \/ Release(c) \/ Abort(c)
             \/ \E s \in Sessions : Publish(c, s)
      PROVE  EntryInv' /\ HeldInv' /\ RunInv'
  <2>1. CASE Call(c) \/ Again(c) \/ RetirementSettled(c)
    <3>1. PrepType /\ LiveType
      BY DEF IInv, Types
    <3>. QED
      BY <2>1, <3>1, EnteringSteps, EntersEntry
  <2>2. CASE AppendCalled(c) \/ FlushReturns(c) \/ Extend(c)
    BY <2>2, CallEntry
  <2>3. CASE ReadDone(c)
    BY <2>3, ReadDoneEntry
  <2>4. CASE Abort(c)
    BY <2>4, AbortEntry
  <2>5. CASE Release(c) \/ \E s \in Sessions : Publish(c, s)
    BY <2>5, HolderEntry
  <2>. QED
    BY <1>4, <2>1, <2>2, <2>3, <2>4, <2>5
<1>5. ASSUME NEW s \in Sessions,
             Create(s) \/ Emit(s) \/ StartWrite(s) \/ RetireFlushed(s) \/ Dispose(s)
      PROVE  EntryInv' /\ HeldInv' /\ RunInv'
  BY <1>5, SessionEntry
<1>6. CASE External \/ Evict \/ UNCHANGED vars
  BY <1>6, OutsideEntry
<1>. QED
  BY <1>1, <1>2, <1>3, <1>4, <1>5, <1>6, Steps

-----------------------------------------------------------------------------
(* The invariant holds at first and after every step.                      *)

\* Every step keeps the invariant.
LEMMA IInvStep ==
  ASSUME IInv, [Next]_vars
  PROVE  IInv'
<1>1. Types'
  BY DiskTypeStep, LiveTypeStep, PrepTypeStep DEF Types
<1>. QED
  BY <1>1, OpsInvStep, LivesStep, LogStep, EntryStep DEF IInv

\* The two logs the program may find, and the log of a Session that was live.
LEMMA InitialLog ==
  /\ Base \in Seq(EventType) /\ Len(Base) = 2
  /\ \A log \in InitialLogs :
       /\ log \in Seq(EventType) /\ Len(log) \in Nat
       /\ IsPrefix(log, Base)
  /\ \A i \in DOMAIN Base : Base[i].by # "closer"
<1>1. /\ Base \in Seq(EventType) /\ Len(Base) = 2
      /\ \A i \in DOMAIN Base : Base[i].by # "closer"
  BY DEF Base, Event, EventType
<1>. HIDE DEF Base
<1>2. ASSUME NEW n \in 0 .. 2
      PROVE  LET log == SubSeq(Base, 1, n) IN
             log \in Seq(EventType) /\ Len(log) \in Nat /\ IsPrefix(log, Base)
  <2>. DEFINE log == SubSeq(Base, 1, n)
  <2>1. /\ log \in Seq(EventType) /\ Len(log) = IF 1 <= n THEN n - 1 + 1 ELSE 0
        /\ \A i \in 1 .. n - 1 + 1 : log[i] = Base[1 + i - 1]
    BY <1>1, SubSeqValue
  <2>2. Len(log) = n
    BY <2>1
  <2>3. Len(log) <= Len(Base) /\ \A i \in 1 .. Len(log) : log[i] = Base[i]
    BY <1>1, <2>1, <2>2
  <2>. HIDE DEF log
  <2>4. IsPrefix(log, Base)
    BY <1>1, <2>1, <2>3, PrefixMeans
  <2>. QED
    BY <2>1, <2>2, <2>4 DEF log
<1>3. ASSUME NEW log, log = <<>>
      PROVE  log \in Seq(EventType) /\ Len(log) \in Nat /\ IsPrefix(log, Base)
  <2>1. log \in Seq(EventType) /\ Len(log) = 0
    BY <1>3
  <2>2. Len(log) <= Len(Base) /\ \A i \in 1 .. Len(log) : log[i] = Base[i]
    BY <1>1, <2>1
  <2>3. IsPrefix(log, Base)
    BY <1>1, <2>1, <2>2, PrefixMeans
  <2>. QED
    BY <2>1, <2>3
<1>4. ASSUME NEW log \in InitialLogs
      PROVE  log \in Seq(EventType) /\ Len(log) \in Nat /\ IsPrefix(log, Base)
  <2>1. log = <<>> \/ \E n \in 0 .. 2 : log = SubSeq(Base, 1, n)
    BY <1>4 DEF InitialLogs
  <2>. QED
    BY <1>2, <1>3, <2>1
<1>. QED
  BY <1>1, <1>4

\* What the initial states say, the log of a live Session left abstract.
LEMMA InitFacts ==
  ASSUME Init
  PROVE  /\ store \in Seq(EventType) /\ Len(store) \in Nat /\ torn \in BOOLEAN
         /\ registered \in Sessions \cup {None}
         /\ events \in [Sessions -> Seq(EventType)]
         /\ init = [s \in Sessions |-> IF s = registered THEN "pending" ELSE "unused"]
         /\ \A s \in Sessions :
              /\ saved[s] = Len(events[s])
              /\ \A i \in DOMAIN events[s] : events[s][i].by # "closer"
         /\ saved \in [Sessions -> Nat]
         /\ chain \in Seq(OpType)
         /\ registered = None => chain = <<>>
         /\ registered # None =>
              /\ Len(chain) = 1 /\ DOMAIN chain = {1}
              /\ chain[1] = Op("init", {registered}, saved[registered], FALSE)
<1>1. store \in Seq(EventType) /\ Len(store) \in Nat /\ torn \in BOOLEAN
  <2>1. store \in InitialLogs
    BY DEF Init
  <2>2. torn \in BOOLEAN
    BY DEF Init
  <2>. QED
    BY <2>1, <2>2, InitialLog
<1>2. registered \in Sessions \cup {None}
  BY DEF Init
<1>3. /\ events = [s \in Sessions |-> IF s = registered THEN Base ELSE <<>>]
      /\ init = [s \in Sessions |-> IF s = registered THEN "pending" ELSE "unused"]
      /\ saved = [s \in Sessions |-> Len(events[s])]
  BY DEF Init
<1>4. ASSUME NEW s \in Sessions
      PROVE  /\ events[s] \in Seq(EventType) /\ Len(events[s]) \in Nat
             /\ \A i \in DOMAIN events[s] : events[s][i].by # "closer"
  <2>1. CASE s = registered
    <3>1. events[s] = Base
      BY <1>3, <2>1
    <3>2. Base \in Seq(EventType) /\ Len(Base) \in Nat /\ \A i \in DOMAIN Base : Base[i].by # "closer"
      BY InitialLog
    <3>. QED
      BY <3>1, <3>2
  <2>2. CASE s # registered
    <3>1. events[s] = <<>>
      BY <1>3, <2>2
    <3>2. ASSUME NEW e, e = <<>>
          PROVE  e \in Seq(EventType) /\ Len(e) \in Nat /\ DOMAIN e = {}
      BY <3>2
    <3>. QED
      BY <3>1, <3>2
  <2>. QED
    BY <2>1, <2>2
<1>5. /\ events \in [Sessions -> Seq(EventType)]
      /\ saved \in [Sessions -> Nat] /\ \A s \in Sessions : saved[s] = Len(events[s])
  BY <1>3, <1>4
<1>6. CASE registered = None
  <2>1. chain = <<>>
    BY <1>6 DEF Init
  <2>2. chain \in Seq(OpType)
    BY <2>1
  <2>. QED
    BY <1>1, <1>2, <1>3, <1>4, <1>5, <1>6, <2>1, <2>2
<1>7. CASE registered # None
  <2>. DEFINE op == Op("init", {registered}, saved[registered], FALSE)
  <2>1. chain = <<op>>
    BY <1>2, <1>5, <1>7 DEF Init
  <2>2. op \in OpType
    BY <1>2, <1>5, <1>7 DEF Op, OpType, SessionKinds, RegKinds
  <2>. HIDE DEF op
  <2>3. <<op>> \in Seq(OpType) /\ Len(<<op>>) = 1 /\ <<op>>[1] = op
    BY <2>2, SingletonSeq
  <2>4. chain \in Seq(OpType) /\ Len(chain) = 1 /\ DOMAIN chain = {1} /\ chain[1] = op
    BY <2>1, <2>3
  <2>5. chain[1] = Op("init", {registered}, saved[registered], FALSE)
    BY <2>4 DEF op
  <2>. QED
    BY <1>1, <1>2, <1>3, <1>4, <1>5, <1>7, <2>4, <2>5
<1>. QED
  BY <1>6, <1>7

\* The coordinator starts in it, cold or beside a live Session.
LEMMA IInvInit ==
  ASSUME Init
  PROVE  IInv
<1>1. /\ store \in Seq(EventType) /\ Len(store) \in Nat /\ torn \in BOOLEAN
      /\ registered \in Sessions \cup {None}
      /\ events \in [Sessions -> Seq(EventType)]
      /\ init = [s \in Sessions |-> IF s = registered THEN "pending" ELSE "unused"]
      /\ \A s \in Sessions :
           /\ saved[s] = Len(events[s])
           /\ \A i \in DOMAIN events[s] : events[s][i].by # "closer"
      /\ saved \in [Sessions -> Nat]
      /\ chain \in Seq(OpType)
  BY InitFacts
<1>2. /\ registered = None => chain = <<>>
      /\ registered # None =>
           /\ Len(chain) = 1 /\ DOMAIN chain = {1}
           /\ chain[1] = Op("init", {registered}, saved[registered], FALSE)
  BY InitFacts
<1>3. /\ writing = [s \in Sessions |-> 0] /\ retiring = [s \in Sessions |-> "no"]
      /\ retirement = None /\ state = Untracked /\ entry = NoEntry
      /\ running = FALSE /\ call = [c \in Callers |-> Idle]
      /\ external = FALSE /\ intruded = FALSE
  BY DEF Init
<1>4. \A s \in Sessions : /\ writing[s] = 0 /\ retiring[s] = "no" /\ s # None
                          /\ init[s] = (IF s = registered THEN "pending" ELSE "unused")
                          /\ events[s] \in Seq(EventType) /\ Len(events[s]) \in Nat
  BY <1>1, <1>3, NoneAssumption
<1>5. /\ state.owner = None /\ ~ state.tracked /\ state.cursor = 0
      /\ entry.phase = "none"
      /\ \A c \in Callers : call[c].at = "idle" /\ ~ call[c].mine
  BY <1>3 DEF Untracked, NoEntry, Idle
<1>6. DiskType
  BY <1>1, <1>3 DEF DiskType
<1>7. LiveType
  BY <1>1, <1>3, <1>4 DEF LiveType
<1>8. PrepType
  <2>1. state \in StateType /\ entry \in EntryType /\ call \in [Callers -> CallType]
    BY <1>3, CallRecords
  <2>. QED
    BY <1>1, <1>3, <1>5, <2>1 DEF PrepType
<1>9. ASSUME NEW i \in DOMAIN chain
      PROVE  /\ i = 1 /\ registered \in Sessions /\ chain[i].kind = "init"
             /\ chain[i].for = {registered}
             /\ chain[i].n = saved[registered] /\ ~ chain[i].current
  <2>1. registered # None
    BY <1>2, <1>9
  <2>. QED
    BY <1>1, <1>2, <1>9, <2>1 DEF Op
<1>10. OpsInv
  <2>1. /\ "init" \in SessionKinds /\ "init" # "load" /\ "init" \notin CallKinds
    BY DEF SessionKinds, RegKinds, CallKinds
  <2>. QED
    BY <1>3, <1>9, <2>1 DEF OpsInv
<1>11. RegInv
  <2>1. ASSUME NEW s \in Sessions, init[s] = "pending"
        PROVE  \E i \in DOMAIN chain : Inits(chain[i], s)
    <3>1. s = registered /\ 1 \in DOMAIN chain
      BY <1>2, <1>4, <2>1
    <3>. QED
      BY <1>9, <3>1 DEF Inits, RegKinds
  <2>2. ASSUME NEW i \in DOMAIN chain, NEW s \in Sessions, Inits(chain[i], s)
        PROVE  s = registered /\ init[s] = "pending"
    BY <1>4, <1>9, <2>2 DEF Inits
  <2>3. registered # None => registered \in Sessions /\ init[registered] = "pending"
    BY <1>1, <1>4
  <2>4. ASSUME NEW i \in DOMAIN chain, NEW s \in Sessions, Inits(chain[i], s)
        PROVE  /\ init[s] = "pending" /\ entry.phase \in {"none", "loading"}
               /\ chain[i].kind = "init" => chain[i].n = saved[s]
               /\ chain[i].kind # "suffix"
    BY <1>5, <1>9, <2>2, <2>4
  <2>5. \A i, j \in DOMAIN chain : i = j /\ ~ chain[i].current
    BY <1>9
  <2>6. \A i, j \in DOMAIN chain : j <= i
    BY <1>9
  <2>. QED
    BY <2>1, <2>3, <2>4, <2>5, <2>6 DEF RegInv
<1>12. LiveInv
  <2>1. \A i \in DOMAIN chain, s \in Sessions :
          ~ OpOf(chain[i], "write", s) /\ ~ OpOf(chain[i], "release", s)
    BY <1>9 DEF OpOf
  <2>2. \A s \in Sessions : Ordered(s)
    BY <1>1, <1>4 DEF Ordered
  <2>. QED
    BY <2>1, <2>2 DEF LiveInv
<1>13. EntryInv /\ HeldInv /\ RunInv
  BY <1>3, <1>5 DEF EntryInv, HeldInv, RunInv
<1>14. OwnerInv
  BY <1>4, <1>5 DEF OwnerInv
<1>15. CursorInv /\ OwnerCovers
  BY <1>1, <1>5 DEF CursorInv, OwnerCovers
<1>16. SavedInv
  BY <1>1, <1>4 DEF SavedInv
<1>. QED
  BY <1>6, <1>7, <1>8, <1>10, <1>11, <1>12, <1>13, <1>14, <1>15, <1>16 DEF IInv, Types

\* IInv is an invariant of the coordinator.
THEOREM Invariance == Spec => []IInv
<1>1. Init => IInv
  BY IInvInit
<1>2. IInv /\ [Next]_vars => IInv'
  BY IInvStep
<1>. QED
  BY <1>1, <1>2, PTL DEF Spec

\* Every variable has its type, and only a queued operation awaits the backend.
THEOREM TypeCorrect == Spec => []TypeOK
<1>1. IInv => TypeOK
  <2>. SUFFICES ASSUME IInv PROVE TypeOK
    OBVIOUS
  <2>1. DiskType /\ LiveType /\ PrepType /\ OpsInv
    BY DEF IInv, Types
  <2>2. \A s \in Sessions : saved[s] \in 0 .. Len(events[s]) /\ writing[s] \in 0 .. Len(events[s])
    <3>1. \A s \in Sessions : /\ saved[s] \in Nat /\ writing[s] \in Nat /\ Len(events[s]) \in Nat
                              /\ saved[s] <= Len(events[s]) /\ writing[s] <= Len(events[s])
      BY <2>1 DEF LiveType
    <3>. QED
      BY <3>1
  <2>3. /\ state.owner \in Sessions \cup {None}
        /\ state.owner # None => state.tracked
        /\ entry.phase \in {"none", "loading", "ready", "committing", "reserved"}
    BY <2>1 DEF PrepType, StateType, EntryType, Phases
  <2>. QED
    BY <2>1, <2>2, <2>3 DEF TypeOK, DiskType, LiveType, EventType, OpsInv
<1>. QED
  BY <1>1, Invariance, PTL

\* While a live Session owns the cursor, the cursor is the length of the log and
\* the log is a prefix of that Session's events, unless another writer moved it.
THEOREM OwnerMatchesLog == Spec => []OwnerCoversStore
<1>1. IInv => OwnerCoversStore
  BY DEF IInv, Types, PrepType, CursorInv, OwnerCovers, OwnerCoversStore
<1>. QED
  BY <1>1, Invariance, PTL

\* A reserved preparation has exactly one holder, and what it was prepared from
\* stays the stored log until it settles.
THEOREM ReservationIsKept == Spec => []ReservationHolds
<1>1. IInv => ReservationHolds
  <2>. SUFFICES ASSUME IInv, entry.phase = "reserved"
                PROVE  /\ Cardinality({c \in Callers : call[c].at = "held" /\ call[c].mine}) = 1
                       /\ registered = None /\ state.owner = None
                       /\ \A c \in Callers : call[c].at = "held" /\ ~ intruded =>
                            call[c].source = Cold(store, torn) /\ state.cursor = Len(store)
    BY DEF ReservationHolds
  <2>1. EntryInv /\ HeldInv
    BY DEF IInv
  <2>2. PICK c \in Callers : call[c].at = "held"
    BY <2>1 DEF EntryInv
  <2>3. {d \in Callers : call[d].at = "held" /\ call[d].mine} = {c}
    BY <2>1, <2>2 DEF EntryInv
  <2>4. Cardinality({c}) = 1
    BY FS_Singleton
  <2>5. registered = None /\ state.owner = None
    BY <2>1 DEF EntryInv
  <2>. QED
    BY <2>1, <2>3, <2>4, <2>5 DEF HeldInv
<1>. QED
  BY <1>1, Invariance, PTL

\* A Session whose retirement is over left its whole history in storage.
THEOREM RetiredIsDurable == Spec => []RetiredDurable
<1>1. IInv => RetiredDurable
  <2>. SUFFICES ASSUME IInv, NEW s \in Sessions, retiring[s] = "done", ~ intruded
                PROVE  IsPrefix(events[s], store)
    BY DEF RetiredDurable
  <2>1. LiveInv /\ SavedInv /\ LiveType /\ DiskType
    BY DEF IInv, Types
  <2>2. init[s] = "gone" /\ saved[s] = Len(events[s])
    BY <2>1 DEF LiveInv, Ordered
  <2>3. IsPrefix(SubSeq(events[s], 1, saved[s]), store)
    BY <2>1, <2>2 DEF SavedInv
  <2>4. events[s] \in Seq(EventType) /\ store \in Seq(EventType) /\ saved[s] \in Nat
        /\ saved[s] <= Len(events[s])
    BY <2>1 DEF LiveType, DiskType
  <2>5. saved[s] <= Len(store) /\ \A i \in 1 .. saved[s] : store[i] = events[s][i]
    BY <2>3, <2>4, FirstPrefix
  <2>. QED
    BY <2>2, <2>4, <2>5, PrefixMeans
<1>. QED
  BY <1>1, Invariance, PTL

-----------------------------------------------------------------------------
(* Recovery.                                                               *)

\* Another closer in the log is one of the events a step appended.
LEMMA CloserAdded ==
  ASSUME DiskType, DiskType', Longer, Closings' > Closings
  PROVE  \E i \in Len(store) + 1 .. Len(store') : store'[i].by = "closer"
<1>1. SUFFICES ASSUME \A i \in Len(store) + 1 .. Len(store') : store'[i].by # "closer"
               PROVE  FALSE
  OBVIOUS
<1>2. /\ DOMAIN store = 1 .. Len(store) /\ DOMAIN store' = 1 .. Len(store')
      /\ Len(store) \in Nat /\ Len(store') \in Nat /\ Len(store) <= Len(store')
      /\ \A i \in 1 .. Len(store) : store'[i] = store[i]
  BY DEF DiskType, Longer
<1>. DEFINE old == {i \in DOMAIN store : store[i].by = "closer"}
            new == {i \in DOMAIN store' : store'[i].by = "closer"}
<1>3. ASSUME NEW i \in DOMAIN store', store'[i].by = "closer"
      PROVE  i \in DOMAIN store
  BY <1>1, <1>2, <1>3
<1>4. DOMAIN store \subseteq DOMAIN store'
  BY <1>2
<1>5. new = old
  BY <1>2, <1>3, <1>4
<1>6. Cardinality(old) \in Nat
  <2>1. IsFiniteSet(1 .. Len(store))
    BY <1>2, FS_Interval
  <2>2. IsFiniteSet(old)
    BY <1>2, <2>1, FS_Subset
  <2>. QED
    BY <2>2, FS_CardinalityType
<1>7. Closings = Cardinality(old) /\ Closings' = Cardinality(new)
  BY DEF Closings
<1>8. Closings' = Closings /\ Closings \in Nat
  BY <1>5, <1>6, <1>7
<1>. QED
  BY <1>8

\* What a live Session appends holds no closer: the ones it was given are stored.
LEMMA BatchCloses ==
  ASSUME IInv, NEW s \in Sessions, NEW n \in Nat, n <= Len(events[s]),
         store' = store \o SubSeq(events[s], Len(store) + 1, n),
         NEW i \in Len(store) + 1 .. Len(store')
  PROVE  store'[i].by # "closer"
<1>1. Types /\ SavedInv /\ Len(store) \in Nat /\ events[s] \in Seq(EventType)
  BY DEF IInv, Types, DiskType, LiveType
<1>2. /\ Len(store') = Len(store) + (IF Len(store) < n THEN n - Len(store) ELSE 0)
      /\ \A k \in Len(store) + 1 .. Len(store') : store'[k] = events[s][k]
  BY <1>1, RestStored
<1>3. i \in DOMAIN events[s] /\ ~ (i <= Len(store)) /\ store'[i] = events[s][i]
  BY <1>1, <1>2
<1>. QED
  BY <1>1, <1>3 DEF SavedInv

\* A log without an owner, while no Session is being initialized, holds every
\* event of the Sessions that were initialized.
LEMMA NothingWaits ==
  ASSUME IInv, state.owner = None, \A s \in Sessions : init[s] # "pending"
  PROVE  \A s \in Sessions : init[s] # "failed" => saved[s] = Len(events[s])
<1>1. LiveType /\ LiveInv /\ OwnerInv
  BY DEF IInv, Types
<1>2. ASSUME NEW s \in Sessions, init[s] # "failed" PROVE saved[s] = Len(events[s])
  <2>1. /\ init[s] \in {"unused", "ok", "gone"} /\ saved[s] \in Nat /\ Len(events[s]) \in Nat
        /\ saved[s] <= Len(events[s]) /\ s # None
    BY <1>1, <1>2, NoneAssumption DEF LiveType
  <2>2. CASE init[s] = "ok"
    <3>1. ~ (saved[s] < Len(events[s]))
      BY <1>1, <2>1, <2>2 DEF OwnerInv
    <3>. QED
      BY <2>1, <3>1
  <2>3. CASE init[s] \in {"unused", "gone"}
    BY <1>1, <2>3 DEF LiveInv, Ordered
  <2>. QED
    BY <2>1, <2>2, <2>3
<1>. QED
  BY <1>2

\* A log that is not closed has an open turn at its end.
LEMMA OpenEnd ==
  ASSUME store \in Seq(EventType), store' = store \o Closers(store),
         NEW i \in Len(store) + 1 .. Len(store')
  PROVE  Last(store).open /\ store' # store
<1>1. Closers(store) # <<>>
  <2>1. ASSUME Closers(store) = <<>> PROVE FALSE
    <3>1. store' = store
      BY <2>1
    <3>. QED
      BY <3>1
  <2>. QED
    BY <2>1
<1>2. Last(store).open
  BY <1>1 DEF Closers
<1>3. store' # store
  OBVIOUS
<1>. QED
  BY <1>2, <1>3

\* The steps that may close a turn: a repair, and the adoption of a log by the
\* public append.
LEMMA WhoCloses ==
  ASSUME IInv, [Next]_vars, Closings' > Closings, ~ intruded'
  PROVE  RepairSettles \/ AppendStarts
<1>. USE DEF IInv
<1>1. /\ Types /\ DiskType /\ PrepType /\ OpsInv /\ RegInv /\ LiveInv /\ CursorInv /\ OwnerInv
      /\ store \in Seq(EventType) /\ Len(store) \in Nat
  BY DEF Types, DiskType
<1>2. DiskType'
  BY DiskTypeStep
<1>3. ASSUME Longer
      PROVE  \E i \in Len(store) + 1 .. Len(store') : store'[i].by = "closer"
  BY <1>1, <1>2, <1>3, CloserAdded
<1>4. ASSUME store' = store PROVE FALSE
  <2>1. Longer
    BY <1>1, <1>4, LongerFacts
  <2>2. PICK i \in Len(store) + 1 .. Len(store') : TRUE
    BY <1>3, <2>1
  <2>. QED
    BY <1>1, <1>4, <2>2
<1>5. ASSUME NEW e \in EventType, e.by # "closer", store' = Append(store, e) PROVE FALSE
  <2>1. Longer
    BY <1>1, <1>5, LongerFacts
  <2>2. PICK i \in Len(store) + 1 .. Len(store') : store'[i].by = "closer"
    BY <1>3, <2>1
  <2>3. Len(store') = Len(store) + 1 /\ store'[Len(store) + 1] = e
    BY <1>1, <1>5, AppendValue
  <2>4. i = Len(store) + 1
    BY <1>1, <2>2, <2>3
  <2>. QED
    BY <1>5, <2>2, <2>3, <2>4
<1>6. ASSUME NEW s \in Sessions, NEW n \in Nat, n <= Len(events[s]),
             NEW a \in Nat, a = Len(store), store' = store \o SubSeq(events[s], a + 1, n)
      PROVE  FALSE
  <2>1. SubSeq(events[s], a + 1, n) \in Seq(EventType)
    BY <1>1, <1>6, SubSeqType DEF Types, LiveType
  <2>2. Longer
    BY <1>1, <1>6, <2>1, LongerFacts
  <2>3. store' = store \o SubSeq(events[s], Len(store) + 1, n)
    BY <1>6
  <2>. QED
    BY <1>3, <1>6, <2>2, <2>3, BatchCloses
<1>7. ASSUME NEW s \in Sessions, state.owner = s, ~ intruded
      PROVE  state.cursor \in Nat /\ state.cursor = Len(store)
  BY <1>1, <1>7, NoneAssumption DEF PrepType, StateType, CursorInv
<1>8. CASE InitRuns
  <2>1. PICK s \in Sessions, n \in Nat :
           /\ n <= Len(events[s])
           /\ InitRefused(s) \/ InitClaims(s, n) \/ InitWrites(s, n)
    BY <1>1, <1>8, InitRunsFacts
  <2>2. CASE InitWrites(s, n)
    <3>1. PICK cursor \in Nat : /\ Takes(s, n, cursor)
                                /\ store' = store \o SubSeq(events[s], cursor + 1, n)
      BY <2>2 DEF InitWrites
    <3>2. cursor = Len(store)
      BY <1>1, <3>1, TakesAll
    <3>. QED
      BY <1>6, <2>1, <3>1, <3>2
  <2>. QED
    BY <1>4, <2>1, <2>2 DEF InitRefused, InitClaims
<1>9. CASE SuffixRuns
  <2>1. PICK s \in Sessions :
           /\ chain # <<>> /\ OpOf(chain[1], "suffix", s) /\ Inits(chain[1], s)
           /\ SuffixFails(s) \/ SuffixWrites(s)
           /\ intruded' = intruded
    BY <1>1, <1>9, SuffixRunsFacts
  <2>2. state.owner = s
    <3>1. 1 \in DOMAIN chain
      BY <1>1, <2>1, HeadFacts
    <3>. QED
      BY <1>1, <2>1, <3>1 DEF RegInv, OpOf
  <2>3. CASE SuffixWrites(s)
    <3>1. state.cursor \in Nat /\ state.cursor = Len(store)
      BY <1>7, <2>1, <2>2
    <3>2. PICK n \in Nat : n = saved[s]
      BY <1>1 DEF Types, LiveType
    <3>3. n <= Len(events[s]) /\ store' = store \o SubSeq(events[s], state.cursor + 1, n)
      BY <1>1, <2>3, <3>2 DEF Types, LiveType, SuffixWrites
    <3>. QED
      BY <1>6, <3>1, <3>3
  <2>. QED
    BY <1>4, <2>1, <2>3 DEF SuffixFails
<1>10. CASE WriteRuns
  <2>1. PICK s \in Sessions, n \in Nat :
           /\ n = writing[s] /\ n # 0 /\ n <= Len(events[s])
           /\ WriteSkips(s, n) \/ WriteStores(s, n) \/ WriteFails(s)
           /\ intruded' = intruded
    BY <1>1, <1>10, WriteRunsFacts
  <2>2. state.owner = s
    <3>1. init[s] = "ok" /\ saved[s] < writing[s] /\ saved[s] \in Nat /\ Len(events[s]) \in Nat
      BY <1>1, <2>1 DEF LiveInv, Ordered, Types, LiveType
    <3>2. saved[s] < Len(events[s])
      BY <2>1, <3>1
    <3>. QED
      BY <1>1, <3>1, <3>2 DEF OwnerInv
  <2>3. CASE WriteStores(s, n)
    <3>1. state.cursor \in Nat /\ state.cursor = Len(store)
      BY <1>7, <2>1, <2>2
    <3>2. store' = store \o SubSeq(events[s], state.cursor + 1, n)
      BY <2>3 DEF WriteStores
    <3>. QED
      BY <1>6, <2>1, <3>1, <3>2
  <2>. QED
    BY <1>4, <2>1, <2>3 DEF WriteSkips, WriteFails
<1>11. CASE ReleaseRuns
  BY <1>1, <1>4, <1>11, ReleaseRunsFacts DEF disk
<1>12. CASE AppendSettles
  <2>1. store' = store \/ store' = Append(store, Event("api", FALSE))
    BY <1>1, <1>12, AppendSettlesFacts
  <2>2. Event("api", FALSE) \in EventType /\ Event("api", FALSE).by # "closer"
    BY DEF Event, EventType
  <2>. QED
    BY <1>4, <1>5, <2>1, <2>2
<1>13. CASE External
  <2>1. store' = Append(store, Event("other", FALSE))
    BY <1>13 DEF External
  <2>2. Event("other", FALSE) \in EventType /\ Event("other", FALSE).by # "closer"
    BY DEF Event, EventType
  <2>. QED
    BY <1>5, <2>1, <2>2
<1>14. CASE LoadRuns \/ CommitRuns \/ CheckRuns \/ Evict \/ UNCHANGED vars
  BY <1>4, <1>14 DEF LoadRuns, CommitRuns, CheckRuns, Evict, vars, disk
<1>15. ASSUME NEW c \in Callers,
              \/ Call(c) \/ Again(c) \/ RetirementSettled(c)
              \/ AppendCalled(c) \/ ReadDone(c) \/ FlushReturns(c)
              \/ Extend(c) \/ Release(c) \/ Abort(c)
              \/ \E s \in Sessions : Publish(c, s)
       PROVE  FALSE
  <2>1. CASE Call(c) \/ Again(c)
    BY <1>4, <2>1 DEF Call, Again, Enter, disk
  <2>2. CASE RetirementSettled(c) \/ AppendCalled(c) \/ ReadDone(c) \/ FlushReturns(c)
    BY <1>4, <2>2 DEF RetirementSettled, AppendCalled, ReadDone, FlushReturns, disk
  <2>3. CASE Extend(c) \/ Release(c) \/ Abort(c) \/ \E s \in Sessions : Publish(c, s)
    BY <1>4, <2>3 DEF Extend, Release, Abort, Publish, disk
  <2>. QED
    BY <1>15, <2>1, <2>2, <2>3
<1>16. ASSUME NEW s \in Sessions,
              Create(s) \/ Emit(s) \/ StartWrite(s) \/ RetireFlushed(s) \/ Dispose(s)
       PROVE  FALSE
  BY <1>4, <1>16 DEF Create, Emit, StartWrite, RetireFlushed, Dispose, disk
<1>. QED
  BY <1>8, <1>9, <1>10, <1>11, <1>12, <1>13, <1>14, <1>15, <1>16, Steps

\* A repair happens under the commit of a call that has the entry.
LEMMA RepairCloses ==
  ASSUME IInv, RepairSettles, Closings' > Closings, ~ intruded', DiskType'
  PROVE  /\ Last(store).open /\ registered = None
         /\ \A s \in Sessions : init[s] # "failed" => saved[s] = Len(events[s])
<1>. USE DEF IInv
<1>. DEFINE c == Caller
<1>1. /\ DiskType /\ PrepType /\ OpsInv /\ EntryInv /\ RunInv /\ RegInv
      /\ store \in Seq(EventType) /\ Len(store) \in Nat
  BY DEF Types, DiskType
<1>2. /\ chain # <<>> /\ chain[1].kind = "commit" /\ running
      /\ c \in Callers /\ chain[1].for = {c} /\ call[c].at = "commit"
      /\ \/ store' = store \o Closers(entry.source.log)
         \/ store' = store
      /\ intruded' = intruded
  BY <1>1, RepairSettlesFacts
<1>. HIDE DEF c
<1>3. /\ call[c].mine /\ state.owner = None /\ entry.source = Cold(store, torn)
  BY <1>1, <1>2, HeadFacts DEF RunInv
<1>4. entry.phase = "committing"
  BY <1>1, <1>2, <1>3, Joined
<1>5. store' = store \/ store' = store \o Closers(store)
  BY <1>2, <1>3 DEF Cold
<1>6. Closers(store) \in Seq(EventType)
  BY <1>1, ClosersType
<1>7. Longer
  BY <1>1, <1>5, <1>6, LongerFacts
<1>8. PICK i \in Len(store) + 1 .. Len(store') : store'[i].by = "closer"
  BY <1>1, <1>7, CloserAdded
<1>9. Last(store).open
  <2>1. store' # store
    BY <1>1, <1>8
  <2>. QED
    BY <1>1, <1>5, <1>8, <2>1, OpenEnd
<1>10. registered = None
  BY <1>1, <1>4 DEF EntryInv
<1>11. \A s \in Sessions : init[s] # "pending"
  BY <1>1, <1>4 DEF RegInv
<1>. QED
  BY <1>3, <1>9, <1>10, <1>11, NothingWaits

\* The adoption of a log for an append counts as an intrusion beside any claim.
LEMMA AppendCloses ==
  ASSUME IInv, AppendStarts, Closings' > Closings, ~ intruded', DiskType'
  PROVE  /\ Last(store).open /\ registered = None
         /\ \A s \in Sessions : init[s] # "failed" => saved[s] = Len(events[s])
<1>. USE DEF IInv
<1>1. /\ DiskType /\ PrepType /\ OpsInv
      /\ store \in Seq(EventType) /\ Len(store) \in Nat
  BY DEF Types, DiskType
<1>2. /\ store' = store \o Closers(store) \/ store' = store
      /\ intruded' = (intruded \/ (store' # store /\ Claimed))
  BY <1>1, AppendStartsFacts DEF Adopts, HalfAdopts, Untouched
<1>3. Closers(store) \in Seq(EventType)
  BY <1>1, ClosersType
<1>4. Longer
  BY <1>1, <1>2, <1>3, LongerFacts
<1>5. PICK i \in Len(store) + 1 .. Len(store') : store'[i].by = "closer"
  BY <1>1, <1>4, CloserAdded
<1>6. store' # store
  BY <1>1, <1>5
<1>7. Last(store).open
  BY <1>1, <1>2, <1>5, <1>6, OpenEnd
<1>8. ~ Claimed
  BY <1>2, <1>6
<1>9. registered = None /\ state.owner = None /\ \A s \in Sessions : init[s] # "pending"
  BY <1>8 DEF Claimed
<1>. QED
  BY <1>7, <1>9, NothingWaits

\* Recovery does not end a turn whose own ending is still to be written: a closer
\* is appended only to an open turn, with no Session live and no event waiting.
THEOREM RecoveryIsCold == Spec => RepairIsCold
<1>1. ASSUME IInv, [Next]_vars, Closings' > Closings, ~ intruded'
      PROVE  /\ Last(store).open /\ registered = None
             /\ \A s \in Sessions : init[s] # "failed" => saved[s] = Len(events[s])
  <2>1. DiskType'
    BY <1>1, DiskTypeStep
  <2>. QED
    BY <1>1, <2>1, WhoCloses, RepairCloses, AppendCloses
<1>2. IInv /\ [Next]_vars =>
        [Closings' > Closings /\ ~ intruded' =>
           /\ Last(store).open /\ registered = None
           /\ \A s \in Sessions : init[s] # "failed" => saved[s] = Len(events[s])]_vars
  BY <1>1
<1>. QED
  BY <1>2, Invariance, PTL DEF Spec, RepairIsCold
====
