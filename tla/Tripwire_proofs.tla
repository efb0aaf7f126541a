--------------------------- MODULE Tripwire_proofs ---------------------------
(***************************************************************************)
(* For any periods, logs and faults: what consume remembers is what it has *)
(* yet to report, it reports no refusal twice, and none too late.  The     *)
(* argument: line numbers rise on their way through the pipe; and the age  *)
(* of a refusal and the time left until the next notification can begin,   *)
(* or end, add up to a constant.                                           *)
(***************************************************************************)
EXTENDS Tripwire, FiniteSetTheorems, TLAPS

TypeOK ==
    /\ denied \in Seq({"refusal", "probe"})
    /\ position \in Nat
    /\ ssh \in BOOLEAN /\ streaming \in BOOLEAN
    /\ pipe \in Seq(Nat)
    /\ pc \in {"read", "notify", "final", "down"}
    /\ pending \in Nat /\ first \in Nat
    /\ wake \in 0 .. TickEvery
    /\ quiet \in 0 .. Coalesce
    /\ wait \in Nat
    /\ owed \subseteq Nat
    /\ age \in Nat
    /\ reports \in [1 .. MaxLines -> Nat]

\* A line in the pipe was sent, comes after all that is owed, and before what
\* is behind it.
PipeInv ==
    \A i \in DOMAIN pipe : pipe[i] # Tick =>
        /\ pipe[i] < position
        /\ \A x \in owed : x < pipe[i]
        /\ \A j \in DOMAIN pipe : i < j /\ pipe[j] # Tick => pipe[i] < pipe[j]

OwedInv ==
    /\ IsFiniteSet(owed)
    /\ 0 < position /\ position <= Len(denied) + 1
    /\ \A x \in owed : 0 < x /\ x < position

\* What consume remembers; that first is a least element makes it the least.
SummaryInv ==
    /\ pending = Cardinality(owed)
    /\ owed # {} => first \in owed /\ \A x \in owed : first <= x

\* What was reported is neither owed nor on its way any more.
OnceInv ==
    \A i \in 1 .. MaxLines :
        /\ reports[i] <= 1
        /\ reports[i] = 1 => /\ i < position /\ i \notin owed
                             /\ \A j \in DOMAIN pipe : pipe[j] # i

\* Until the quiet period is over, until the next tick, until curl returns.
TimeInv ==
    /\ owed = {} => age = 0
    /\ pc = "down" => owed = {}
    /\ pc = "read" /\ quiet > 0 => age + quiet <= Coalesce
    /\ pc = "read" /\ quiet = 0 =>
         \/ age + wake <= Coalesce + TickEvery
         \/ pipe # <<>> /\ age <= Coalesce + TickEvery
    /\ pc \in {"notify", "final"} => age + wait <= Deadline

TripInv == TypeOK /\ PipeInv /\ OwedInv /\ SummaryInv /\ OnceInv /\ TimeInv

-----------------------------------------------------------------------------
\* The constants are numbers.
LEMMA Periods ==
    /\ Coalesce \in Nat /\ TickEvery \in Nat /\ MaxNotify \in Nat /\ Throttle \in Nat
    /\ MaxLines \in Nat
BY TripwireAssumption

\* A least element is the only one.
LEMMA LeastIsMin ==
    ASSUME NEW S \in SUBSET Nat, NEW m \in S, \A x \in S : m <= x
    PROVE  Min(S) = m
<1>1. \A y \in S : (\A x \in S : y <= x) => y = m
  OBVIOUS
<1>2. Min(S) \in S /\ \A x \in S : Min(S) <= x
  BY DEF Min
<1> QED BY <1>1, <1>2

\* A line of which nothing is known but that it is behind the others.
LEMMA AppendPipe ==
    ASSUME TripInv, NEW n \in Nat, n = Tick \/ n = position, NEW p \in Nat, p = position \/ p = position + 1,
           pipe' = Append(pipe, n), position' = p, n # Tick => p = position + 1,
           UNCHANGED <<owed, reports>>
    PROVE  pipe' \in Seq(Nat) /\ PipeInv' /\ OnceInv'
<1>1. /\ pipe' \in Seq(Nat) /\ pipe' # <<>>
      /\ DOMAIN pipe' = 1 .. Len(pipe) + 1 /\ DOMAIN pipe = 1 .. Len(pipe) /\ Len(pipe) \in Nat
      /\ \A i \in 1 .. Len(pipe) : pipe'[i] = pipe[i] /\ pipe[i] \in Nat
      /\ pipe'[Len(pipe) + 1] = n
  BY DEF TripInv, TypeOK
<1>2. PipeInv'
  <2> SUFFICES ASSUME NEW i \in DOMAIN pipe', pipe'[i] # Tick
               PROVE  /\ pipe'[i] < position'
                      /\ \A x \in owed : x < pipe'[i]
                      /\ \A j \in DOMAIN pipe' : i < j /\ pipe'[j] # Tick => pipe'[i] < pipe'[j]
    BY DEF PipeInv
  <2>1. CASE i \in DOMAIN pipe
    BY <1>1, <2>1 DEF TripInv, PipeInv, TypeOK, Tick
  <2>2. CASE i \notin DOMAIN pipe
    BY <1>1, <2>2 DEF TripInv, OwedInv, TypeOK, Tick
  <2> QED BY <2>1, <2>2
<1>3. OnceInv'
  <2> SUFFICES ASSUME NEW i \in 1 .. MaxLines
               PROVE  /\ reports[i] <= 1
                      /\ reports[i] = 1 => /\ i < position' /\ i \notin owed
                                           /\ \A j \in DOMAIN pipe' : pipe'[j] # i
    BY DEF OnceInv
  <2> QED BY <1>1 DEF TripInv, OnceInv, TypeOK, Tick
<1> QED BY <1>1, <1>2, <1>3

\* Nothing is read or reported: what was true of the pipe stays true.
LEMMA SamePipe ==
    ASSUME TripInv, UNCHANGED <<pipe, owed, reports>>, position' \in Nat, position <= position'
    PROVE  PipeInv' /\ OnceInv'
<1>1. PipeInv'
  BY DEF TripInv, PipeInv, TypeOK
<1>2. OnceInv'
  BY DEF TripInv, OnceInv, TypeOK
<1> QED BY <1>1, <1>2

\* A line or a tick is taken from the pipe.
LEMMA ReadStep ==
    ASSUME TripInv, Read
    PROVE  TripInv'
<1> USE Periods
<1> DEFINE item == Head(pipe)
           n == IF IsRefusal(item) THEN pending + 1 ELSE pending
<1>1. /\ pc = "read" /\ pipe # <<>> /\ pipe' = Tail(pipe)
      /\ pending' = n /\ first' = FirstLine(item)
      /\ owed' = IF IsRefusal(item) THEN owed \cup {item} ELSE owed
      /\ \/ n > 0 /\ quiet = 0 /\ pc' = "notify" /\ quiet' = Coalesce /\ wait' = MaxNotify
         \/ ~(n > 0 /\ quiet = 0) /\ UNCHANGED <<pc, quiet, wait>>
      /\ UNCHANGED <<denied, position, ssh, streaming, wake, age, reports, faults>>
  BY DEF Read, Reports, streamVars
<1>2. /\ Len(pipe) \in Nat \ {0} /\ DOMAIN pipe = 1 .. Len(pipe) /\ item = pipe[1]
      /\ item \in Nat /\ \A i \in DOMAIN pipe : pipe[i] \in Nat
      /\ pipe' \in Seq(Nat) /\ DOMAIN pipe' = 1 .. Len(pipe) - 1
      /\ \A i \in 1 .. Len(pipe) - 1 : pipe'[i] = pipe[i + 1]
  BY <1>1 DEF TripInv, TypeOK
<1>3. ASSUME IsRefusal(item) PROVE item > 0 /\ item < position /\ \A x \in owed : x < item
  BY <1>2, <1>3 DEF IsRefusal, TripInv, PipeInv, Tick
<1>4. owed \subseteq Nat /\ IsFiniteSet(owed) /\ pending = Cardinality(owed) /\ pending \in Nat
      /\ (pending = 0 <=> owed = {}) /\ first \in Nat
  BY FS_EmptySet DEF TripInv, TypeOK, OwedInv, SummaryInv
<1> HIDE DEF item
<1>5. n \in Nat /\ n = Cardinality(owed') /\ IsFiniteSet(owed') /\ owed' \subseteq Nat
  <2>1. CASE IsRefusal(item)
    <3>1. item \notin owed
      BY <1>2, <1>3, <1>4, <2>1
    <3>2. n = pending + 1 /\ owed' = owed \cup {item}
      BY <1>1, <2>1
    <3>3. IsFiniteSet(owed \cup {item}) /\ Cardinality(owed \cup {item}) = Cardinality(owed) + 1
      BY <1>4, <3>1, FS_AddElement
    <3> HIDE DEF n
    <3>4. owed' \subseteq Nat /\ IsFiniteSet(owed') /\ Cardinality(owed') = pending + 1
      BY <1>2, <1>4, <3>2, <3>3
    <3> QED BY <1>4, <3>2, <3>4
  <2>2. CASE ~IsRefusal(item)
    BY <1>1, <1>4, <2>2
  <2> QED BY <2>1, <2>2
<1>6. TypeOK'
  <2>1. first' \in Nat
    BY <1>1, <1>2, <1>4 DEF FirstLine
  <2>2. pc' \in {"read", "notify", "final", "down"} /\ quiet' \in 0 .. Coalesce /\ wait' \in Nat
    BY <1>1 DEF TripInv, TypeOK
  <2> QED BY <1>1, <1>2, <1>5, <2>1, <2>2 DEF TripInv, TypeOK
<1>7. PipeInv'
  <2>0. position' = position
    BY <1>1
  <2> SUFFICES ASSUME NEW i \in 1 .. Len(pipe) - 1, pipe[i + 1] # Tick
               PROVE  /\ pipe[i + 1] < position
                      /\ \A x \in owed' : x < pipe[i + 1]
                      /\ \A j \in 1 .. Len(pipe) - 1 :
                           i < j /\ pipe[j + 1] # Tick => pipe[i + 1] < pipe[j + 1]
    BY <1>2, <2>0 DEF PipeInv
  <2>1. i + 1 \in DOMAIN pipe /\ 1 \in DOMAIN pipe /\ 1 < i + 1
    BY <1>2
  <2>2. pipe[i + 1] < position /\ \A x \in owed : x < pipe[i + 1]
    BY <2>1 DEF TripInv, PipeInv
  <2>3. item # Tick => item < pipe[i + 1]
    BY <1>2, <2>1 DEF TripInv, PipeInv
  <2>4. \A x \in owed' : x < pipe[i + 1]
    BY <1>1, <2>2, <2>3 DEF IsRefusal
  <2>5. ASSUME NEW j \in 1 .. Len(pipe) - 1, i < j, pipe[j + 1] # Tick
        PROVE  pipe[i + 1] < pipe[j + 1]
    <3>1. j + 1 \in DOMAIN pipe /\ i + 1 < j + 1
      BY <1>2, <2>5
    <3> QED BY <2>1, <2>5, <3>1 DEF TripInv, PipeInv
  <2> QED BY <2>2, <2>4, <2>5
<1>8. OwedInv'
  BY <1>1, <1>2, <1>3, <1>5 DEF TripInv, OwedInv
<1>9. SummaryInv'
  <2>1. CASE IsRefusal(item)
    <3>1. owed' = owed \cup {item} /\ pending' = Cardinality(owed')
      BY <1>1, <1>5, <2>1
    <3>2. CASE owed = {}
      <4>1. first' = item
        BY <1>1, <1>4, <2>1, <3>2 DEF FirstLine
      <4> QED BY <1>2, <3>1, <3>2, <4>1 DEF SummaryInv
    <3>3. CASE owed # {}
      <4>1. first' = first /\ first \in owed /\ \A x \in owed : first <= x
        BY <1>1, <1>4, <3>3 DEF FirstLine, TripInv, SummaryInv
      <4>2. first < item
        BY <1>3, <2>1, <4>1
      <4> QED BY <1>2, <1>4, <3>1, <4>1, <4>2 DEF SummaryInv
    <3> QED BY <3>2, <3>3
  <2>2. CASE ~IsRefusal(item)
    BY <1>1, <1>5, <2>2 DEF TripInv, SummaryInv, FirstLine
  <2> QED BY <2>1, <2>2
<1>10. OnceInv'
  <2> SUFFICES ASSUME NEW i \in 1 .. MaxLines
               PROVE  /\ reports[i] <= 1
                      /\ reports[i] = 1 => /\ i < position /\ i \notin owed'
                                           /\ \A j \in 1 .. Len(pipe) - 1 : pipe[j + 1] # i
    BY <1>1, <1>2 DEF OnceInv
  <2>1. ASSUME reports[i] = 1
        PROVE  i < position /\ i \notin owed /\ \A j \in DOMAIN pipe : pipe[j] # i
    BY <2>1 DEF TripInv, OnceInv
  <2>2. \A j \in 1 .. Len(pipe) - 1 : j + 1 \in DOMAIN pipe
    BY <1>2
  <2>3. 1 \in DOMAIN pipe
    BY <1>2
  <2> QED BY <1>1, <1>2, <2>1, <2>2, <2>3 DEF TripInv, OnceInv
<1>11. TimeInv'
  <2>1. age <= Coalesce + TickEvery /\ age \in Nat /\ quiet \in 0 .. Coalesce /\ wake \in 0 .. TickEvery
    BY <1>1 DEF TripInv, TimeInv, TypeOK
  <2>2. owed' = {} => age' = 0
    BY <1>1 DEF TripInv, TimeInv
  <2>3. CASE n > 0 /\ quiet = 0
    BY <1>1, <2>1, <2>2, <2>3 DEF TimeInv, Deadline
  <2>4. CASE ~(n > 0 /\ quiet = 0)
    <3>1. quiet = 0 => owed' = {}
      BY <1>5, <2>1, <2>4, FS_EmptySet
    <3>2. pc' = "read" /\ quiet' = quiet /\ age' = age /\ wake' = wake
      BY <1>1, <2>4
    <3>3. quiet > 0 => age + quiet <= Coalesce
      BY <1>1 DEF TripInv, TimeInv
    <3> QED BY <2>1, <2>2, <3>1, <3>2, <3>3 DEF TimeInv
  <2> QED BY <2>3, <2>4
<1> QED BY <1>6, <1>7, <1>8, <1>9, <1>10, <1>11 DEF TripInv

\* A notification ends.
LEMMA NotifiedStep ==
    ASSUME TripInv, Notified
    PROVE  TripInv'
<1> USE Periods
<1>1. /\ reports' = [i \in 1 .. MaxLines |-> reports[i] + (IF i \in owed THEN 1 ELSE 0)]
      /\ owed' = {} /\ age' = 0 /\ pending' = 0 /\ first' = 0
      /\ \/ pc' = "read" /\ wait' = 0
         \/ pc' = "down" /\ wait' = Throttle
      /\ UNCHANGED <<denied, position, ssh, streaming, wake, pipe, quiet>>
  BY DEF Notified, streamVars
<1>2. TypeOK'
  BY <1>1 DEF TripInv, TypeOK
<1>3. PipeInv'
  BY <1>1 DEF TripInv, PipeInv
<1>4. OwedInv' /\ SummaryInv'
  BY <1>1, FS_EmptySet DEF TripInv, OwedInv, SummaryInv
<1>5. OnceInv'
  <2> SUFFICES ASSUME NEW i \in 1 .. MaxLines
               PROVE  /\ reports'[i] <= 1
                      /\ reports'[i] = 1 => i < position /\ \A j \in DOMAIN pipe : pipe[j] # i
    BY <1>1 DEF OnceInv
  <2>1. reports[i] \in Nat /\ reports[i] <= 1
        /\ (reports[i] = 1 => i < position /\ i \notin owed /\ \A j \in DOMAIN pipe : pipe[j] # i)
    BY DEF TripInv, TypeOK, OnceInv
  <2>2. CASE i \in owed
    <3>1. i < position
      BY <2>2 DEF TripInv, OwedInv
    <3>2. ASSUME NEW j \in DOMAIN pipe, pipe[j] = i PROVE FALSE
      <4>1. i < pipe[j]
        BY <2>2, <3>2 DEF TripInv, PipeInv, Tick
      <4> QED BY <3>2, <4>1
    <3> QED BY <1>1, <2>1, <2>2, <3>1, <3>2
  <2>3. CASE i \notin owed
    BY <1>1, <2>1, <2>3
  <2> QED BY <2>2, <2>3
<1>6. TimeInv'
  BY <1>1 DEF TripInv, TypeOK, TimeInv
<1> QED BY <1>2, <1>3, <1>4, <1>5, <1>6 DEF TripInv

\* Time passes: what is due has happened.
LEMMA PassStep ==
    ASSUME TripInv, Pass
    PROVE  TripInv'
<1> USE Periods
<1>1. /\ Settled /\ wake' = Less(wake) /\ quiet' = Less(quiet) /\ wait' = Less(wait)
      /\ age' = IF owed = {} THEN 0 ELSE age + 1
      /\ UNCHANGED <<denied, position, ssh, streaming, pipe, pc, pending, first, owed, reports>>
  BY DEF Pass
<1>2. /\ age \in Nat /\ quiet \in 0 .. Coalesce /\ wake \in 0 .. TickEvery /\ wait \in Nat
  BY DEF TripInv, TypeOK
<1>3. TypeOK'
  BY <1>1, <1>2 DEF TripInv, TypeOK, Less
<1>4. PipeInv' /\ OnceInv'
  BY <1>1, SamePipe DEF TripInv, TypeOK
<1>5. OwedInv' /\ SummaryInv'
  BY <1>1 DEF TripInv, OwedInv, SummaryInv
<1>6. TimeInv'
  <2>1. (owed' = {} => age' = 0) /\ (pc' = "down" => owed' = {})
    BY <1>1 DEF TripInv, TimeInv
  <2>2. CASE pc = "read"
    BY <1>1, <1>2, <2>1, <2>2 DEF TripInv, TimeInv, Settled, Less
  <2>3. CASE pc # "read"
    BY <1>1, <1>2, <2>1, <2>3 DEF TripInv, TimeInv, Settled, Less, Deadline
  <2> QED BY <2>2, <2>3
<1> QED BY <1>3, <1>4, <1>5, <1>6 DEF TripInv

\* Every other step of stream, consume, launchd and nginx.
LEMMA OtherStep ==
    ASSUME TripInv,
           Deliver \/ Wake \/ Disconnect \/ Eof \/ Restart \/ Kill
             \/ \E kind \in {"refusal", "probe"} : Write(kind)
    PROVE  TripInv'
<1> USE Periods
<1>1. CASE Deliver
  <2> USE <1>1 DEF Deliver, consumeVars, history
  <2>1. pipe' \in Seq(Nat) /\ PipeInv' /\ OnceInv'
    BY AppendPipe DEF TripInv, TypeOK
  <2>2. TypeOK' /\ OwedInv' /\ SummaryInv'
    BY <2>1 DEF TripInv, TypeOK, OwedInv, SummaryInv
  <2>3. pipe' # <<>>
    BY DEF TripInv, TypeOK
  <2>4. TimeInv'
    BY <2>3 DEF TripInv, TypeOK, TimeInv
  <2> QED BY <2>1, <2>2, <2>4 DEF TripInv
<1>2. CASE Wake
  <2> USE <1>2 DEF Wake, consumeVars, history
  <2>1. pipe' \in Seq(Nat) /\ PipeInv' /\ OnceInv'
    BY AppendPipe DEF TripInv, TypeOK, Tick
  <2>2. wake' \in 0 .. TickEvery /\ streaming' \in BOOLEAN
    BY DEF TripInv, TypeOK
  <2>3. TypeOK' /\ OwedInv' /\ SummaryInv'
    BY <2>1, <2>2 DEF TripInv, TypeOK, OwedInv, SummaryInv
  <2>4. pipe' # <<>>
    BY DEF TripInv, TypeOK
  <2>5. TimeInv'
    <3>1. /\ UNCHANGED <<pc, owed, age, quiet, wait>> /\ wake = 0
          /\ age \in Nat /\ wake' \in Nat /\ quiet \in Nat
      BY <2>2 DEF TripInv, TypeOK
    <3>2. pc = "read" /\ quiet = 0 => age <= Coalesce + TickEvery
      BY <3>1 DEF TripInv, TimeInv
    <3> QED BY <2>4, <3>1, <3>2 DEF TripInv, TimeInv
  <2> QED BY <2>1, <2>3, <2>5 DEF TripInv
<1>3. CASE Disconnect
  BY <1>3 DEF Disconnect, consumeVars, history, TripInv, TypeOK, PipeInv, OwedInv, SummaryInv,
        OnceInv, TimeInv
<1>4. CASE Eof
  <2> USE <1>4 DEF Eof, streamVars, history
  <2>1. PipeInv' /\ OnceInv'
    BY SamePipe DEF TripInv, TypeOK
  <2>2. TypeOK' /\ OwedInv' /\ SummaryInv'
    BY DEF TripInv, TypeOK, OwedInv, SummaryInv
  <2>3. pending = 0 => owed = {}
    BY FS_EmptySet DEF TripInv, OwedInv, SummaryInv
  <2>4. TimeInv'
    BY <2>3 DEF TripInv, TypeOK, TimeInv, Deadline
  <2> QED BY <2>1, <2>2, <2>4 DEF TripInv
<1>5. CASE Restart
  <2> USE <1>5 DEF Restart, history
  <2>1. Len(denied) \in Nat /\ position' = Len(denied) + 1 /\ position <= position'
    BY DEF NextPosition, TripInv, TypeOK, OwedInv
  <2>2. PipeInv' /\ OnceInv'
    BY <2>1, SamePipe
  <2>3. TypeOK'
    BY <2>1 DEF TripInv, TypeOK
  <2>4. OwedInv' /\ SummaryInv'
    <3>1. UNCHANGED <<denied, pending, first, owed>> /\ position \in Nat /\ owed \subseteq Nat
      BY DEF TripInv, TypeOK
    <3>2. SummaryInv'
      BY <3>1 DEF TripInv, SummaryInv
    <3>3. 0 < position' /\ position' <= Len(denied') + 1
      BY <2>1, <3>1
    <3>4. IsFiniteSet(owed') /\ \A x \in owed' : 0 < x /\ x < position'
      BY <2>1, <3>1 DEF TripInv, OwedInv
    <3> QED BY <3>2, <3>3, <3>4 DEF OwedInv
  <2>5. TimeInv'
    BY DEF TripInv, TypeOK, TimeInv
  <2> QED BY <2>2, <2>3, <2>4, <2>5 DEF TripInv
<1>6. CASE Kill
  <2> USE <1>6 DEF Kill
  <2>1. TypeOK'
    <3>1. pipe' \in Seq(Nat)
      OBVIOUS
    <3>2. ssh' \in BOOLEAN /\ streaming' \in BOOLEAN
      OBVIOUS
    <3>3. /\ UNCHANGED <<denied, position, wake, quiet, reports>> /\ pc' = "down" /\ wait' = Throttle
          /\ pending' = 0 /\ first' = 0 /\ owed' = {} /\ age' = 0
      OBVIOUS
    <3> HIDE <1>6 DEF Kill
    <3> QED BY <3>1, <3>2, <3>3 DEF TripInv, TypeOK
  <2>2. PipeInv' /\ TimeInv'
    BY DEF PipeInv, TimeInv
  <2>3. OwedInv' /\ SummaryInv' /\ OnceInv'
    BY FS_EmptySet DEF TripInv, OwedInv, SummaryInv, OnceInv
  <2> QED BY <2>1, <2>2, <2>3 DEF TripInv
<1>7. ASSUME NEW kind \in {"refusal", "probe"}, Write(kind) PROVE TripInv'
  <2> USE <1>7 DEF Write, streamVars, consumeVars, history
  <2>1. denied' \in Seq({"refusal", "probe"}) /\ Len(denied') = Len(denied) + 1 /\ Len(denied) \in Nat
    BY DEF TripInv, TypeOK
  <2>2. UNCHANGED <<position, ssh, streaming, pipe, pc, pending, first, wake, quiet, wait, owed, age, reports>>
    OBVIOUS
  <2>3. TypeOK'
    BY <2>1, <2>2 DEF TripInv, TypeOK
  <2>4. OwedInv' /\ SummaryInv' /\ TimeInv'
    <3>1. position' <= Len(denied') + 1
      BY <2>1, <2>2 DEF TripInv, TypeOK, OwedInv
    <3> QED BY <2>2, <3>1 DEF TripInv, OwedInv, SummaryInv, TimeInv
  <2>5. PipeInv' /\ OnceInv'
    BY SamePipe DEF TripInv, TypeOK
  <2> QED BY <2>3, <2>4, <2>5 DEF TripInv
<1> QED BY <1>1, <1>2, <1>3, <1>4, <1>5, <1>6, <1>7

\* stream and consume: what is pending is what is owed, in order and in time,
\* whichever half moves, breaks off or is started again.
THEOREM TripHolds == Spec => []TripInv
<1>1. Init => TripInv
  <2> SUFFICES ASSUME Init PROVE TripInv
    OBVIOUS
  <2>1. TypeOK
    <3>1. denied \in Seq({"refusal", "probe"}) /\ pipe \in Seq(Nat)
      BY DEF Init
    <3>2. reports \in [1 .. MaxLines -> Nat]
      BY DEF Init
    <3>3. ssh \in BOOLEAN /\ streaming \in BOOLEAN
      BY Zenon DEF Init
    <3>4. /\ position = 1 /\ pc = "down" /\ pending = 0 /\ first = 0
          /\ wake = 0 /\ quiet = 0 /\ wait = 0 /\ owed = {} /\ age = 0
      BY DEF Init
    <3> QED BY <3>1, <3>2, <3>3, <3>4, Periods DEF TypeOK
  <2>2. PipeInv /\ OnceInv /\ TimeInv
    BY DEF Init, PipeInv, OnceInv, TimeInv
  <2>3. OwedInv /\ SummaryInv
    BY FS_EmptySet DEF Init, OwedInv, SummaryInv
  <2> QED BY <2>1, <2>2, <2>3 DEF TripInv
<1>2. TripInv /\ [Next]_vars => TripInv'
  <2> SUFFICES ASSUME TripInv, [Next]_vars PROVE TripInv'
    OBVIOUS
  <2>1. CASE Next
    BY <2>1, ReadStep, NotifiedStep, PassStep, OtherStep DEF Next, Step
  <2>2. CASE UNCHANGED vars
    BY <2>2 DEF vars, streamVars, consumeVars, history, TripInv, TypeOK, PipeInv, OwedInv,
          SummaryInv, OnceInv, TimeInv
  <2> QED BY <2>1, <2>2
<1> QED BY <1>1, <1>2, PTL DEF Spec

-----------------------------------------------------------------------------
\* notify: a notification tells how many routes were refused since the one
\* before, and shows the first of them.
THEOREM SummaryHolds == Spec => []SummaryExact
<1>1. TripInv => SummaryExact
  BY LeastIsMin DEF TripInv, TypeOK, SummaryInv, SummaryExact
<1> QED BY <1>1, TripHolds, PTL

\* consume: a refusal that was read is in a notification within the quiet
\* period, a tick and the time that curl may take.
THEOREM InTime == Spec => []ReportedInTime
<1>1. TripInv => ReportedInTime
  <2> SUFFICES ASSUME TripInv, owed # {} PROVE age <= Deadline
    BY DEF ReportedInTime
  <2> QED BY Periods DEF TripInv, TypeOK, TimeInv, Deadline
<1> QED BY <1>1, TripHolds, PTL

\* stream and consume: no refusal is reported twice, whatever connection
\* breaks and however often launchd starts the script again.
THEOREM Once == Spec => []ReportedOnce
<1>1. TripInv => ReportedOnce
  BY DEF TripInv, OnceInv, ReportedOnce
<1> QED BY <1>1, TripHolds, PTL
=============================================================================
