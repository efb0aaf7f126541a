--------------------------- MODULE Monitor_proofs ---------------------------
(***************************************************************************)
(* What is proved of the parts of the monitor that share no state: the     *)
(* lockout of logins, the limit on its log, the salt of its starts and the *)
(* handlers of its requests.                                               *)
(***************************************************************************)
EXTENDS Handlers, Lockout, LogLimit, MonitorStart, FiniteSetTheorems, TLAPS

-----------------------------------------------------------------------------
(* For any number of clients, credentials and waiting threads: the list of *)
(* failures of a client stays bounded, and a right credential is refused   *)
(* only because of guesses that were counted within the window.            *)

Guesses == [stamp : Nat, digest : Credentials]

LockoutTypeOK ==
    /\ clock \in Nat
    /\ waiting \subseteq [client : Clients, cred : Credentials, now : Nat]
    /\ failures \in [Clients -> SUBSET Guesses]
    /\ counted \in [Clients -> SUBSET Guesses]

\* The clocks that threads have read are not ahead.
ReadBefore == \A q \in waiting : q.now <= clock

\* What is kept was counted since the last success, and both are finite.
KeptIsCounted ==
    \A c \in Clients : failures[c] \subseteq counted[c] /\ IsFiniteSet(counted[c])

AuthInv == LockoutTypeOK /\ ReadBefore /\ KeptIsCounted /\ FailuresBounded

-----------------------------------------------------------------------------
(* The failures of a client that its next request leaves, whatever it is.  *)
LEMMA RecentIsKept ==
    ASSUME AuthInv, NEW c \in Clients, NEW now \in Nat
    PROVE  /\ Recent(c, now) \subseteq failures[c]
           /\ Recent(c, now) \subseteq counted[c]
           /\ IsFiniteSet(Recent(c, now))
           /\ Cardinality(Recent(c, now)) \in Nat
           /\ Cardinality(Recent(c, now)) <= Limit
<1>1. Recent(c, now) \subseteq failures[c] /\ failures[c] \subseteq counted[c]
  BY DEF Recent, AuthInv, KeptIsCounted
<1>2. IsFiniteSet(failures[c])
  BY <1>1, FS_Subset DEF AuthInv, KeptIsCounted
<1>3. IsFiniteSet(Recent(c, now)) /\ Cardinality(Recent(c, now)) <= Cardinality(failures[c])
  BY <1>1, <1>2, FS_Subset
<1>4. Cardinality(Recent(c, now)) \in Nat /\ Cardinality(failures[c]) \in Nat
  BY <1>2, <1>3, FS_CardinalityType
<1>5. Cardinality(failures[c]) <= Limit /\ Limit \in Nat
  BY LockoutAssumption DEF AuthInv, FailuresBounded
<1> QED
  BY <1>1, <1>3, <1>4, <1>5

LEMMA AuthInitially == AuthInit => AuthInv
<1>1. IsFiniteSet({}) /\ Cardinality({}) = 0 /\ 0 <= Limit
  BY FS_EmptySet, LockoutAssumption
<1> QED
  BY <1>1 DEF AuthInit, AuthInv, LockoutTypeOK, ReadBefore, KeptIsCounted, FailuresBounded, Guesses

LEMMA AuthInductive == AuthInv /\ [AuthNext]_authVars => AuthInv'
<1> SUFFICES ASSUME AuthInv, [AuthNext]_authVars PROVE AuthInv'
  OBVIOUS
<1>1. CASE UNCHANGED authVars
  BY <1>1 DEF authVars, AuthInv, LockoutTypeOK, ReadBefore, KeptIsCounted, FailuresBounded
<1>2. CASE AuthTick
  BY <1>2 DEF AuthTick, AuthInv, LockoutTypeOK, ReadBefore, KeptIsCounted, FailuresBounded, Guesses
<1>3. ASSUME NEW c \in Clients, NEW cred \in Credentials, Arrive(c, cred) PROVE AuthInv'
  BY <1>3 DEF Arrive, AuthInv, LockoutTypeOK, ReadBefore, KeptIsCounted, FailuresBounded
<1>4. ASSUME NEW q \in waiting, Judge(q) PROVE AuthInv'
  <2> DEFINE c == q.client
             recent == Recent(c, q.now)
             guess == [stamp |-> q.now, digest |-> q.cred]
  <2>1. c \in Clients /\ q.now \in Nat /\ q.now <= clock /\ guess \in Guesses
    BY DEF AuthInv, LockoutTypeOK, ReadBefore, Guesses
  <2>2. /\ recent \subseteq failures[c] /\ recent \subseteq counted[c] /\ IsFiniteSet(recent)
        /\ Cardinality(recent) \in Nat /\ Cardinality(recent) <= Limit
    BY <2>1, RecentIsKept
  <2>3. /\ waiting' = waiting \ {q} /\ clock' = clock
        /\ clock \in Nat /\ Limit \in Nat
    BY <1>4, LockoutAssumption DEF Judge, AuthInv, LockoutTypeOK
  <2>4. \E F \in SUBSET Guesses : \E G \in SUBSET Guesses :
          /\ failures' = [failures EXCEPT ![c] = F] /\ counted' = [counted EXCEPT ![c] = G]
          /\ F \subseteq G /\ IsFiniteSet(G) /\ Cardinality(F) <= Limit
          /\ \A f \in F : f.stamp <= clock
          /\ \A f, g \in F : f.digest = g.digest => f = g
    <3>0. /\ failures[c] \in SUBSET Guesses /\ counted[c] \in SUBSET Guesses
          /\ IsFiniteSet(counted[c])
          /\ \A f \in recent : f.stamp <= clock
          /\ \A f, g \in recent : f.digest = g.digest => f = g
          /\ failures \in [Clients -> SUBSET Guesses] /\ counted \in [Clients -> SUBSET Guesses]
      BY <2>1, <2>2 DEF AuthInv, LockoutTypeOK, KeptIsCounted, FailuresBounded
    <3>1. CASE /\ failures' = [failures EXCEPT ![c] = recent]
               /\ counted' = counted
      <4>1. counted' = [counted EXCEPT ![c] = counted[c]]
        BY <3>1, <3>0
      <4> recent \in SUBSET Guesses /\ counted[c] \in SUBSET Guesses
        BY <3>0, <2>2
      <4> WITNESS recent \in SUBSET Guesses
      <4> WITNESS counted[c] \in SUBSET Guesses
      <4> QED
        BY <3>0, <3>1, <4>1, <2>2
    <3>2. CASE failures' = [failures EXCEPT ![c] = {}] /\ counted' = [counted EXCEPT ![c] = {}]
      <4>1. IsFiniteSet({}) /\ Cardinality({}) <= Limit
        BY FS_EmptySet, <2>3
      <4> WITNESS {} \in SUBSET Guesses
      <4> WITNESS {} \in SUBSET Guesses
      <4> QED
        BY <3>2, <4>1
    <3>3. CASE /\ failures' = [failures EXCEPT ![c] = recent \cup {guess}]
               /\ counted' = [counted EXCEPT ![c] = @ \cup {guess}]
               /\ ~LockedOut(recent) /\ IsNew(recent, q.cred)
      <4>1. IsFiniteSet(counted[c] \cup {guess})
        BY <3>0, FS_AddElement
      <4>2. Cardinality(recent \cup {guess}) <= Limit
        <5>1. Cardinality(recent \cup {guess}) =
                IF guess \in recent THEN Cardinality(recent) ELSE Cardinality(recent) + 1
          <6> HIDE DEF recent, guess
          <6> QED
            BY <2>2, FS_AddElement
        <5>2. /\ Cardinality(recent) \in Nat /\ ~(Cardinality(recent) >= Limit)
              /\ Cardinality(recent \cup {guess}) \in Nat
          BY <3>3, <2>2, FS_AddElement, FS_CardinalityType DEF LockedOut
        <5> QED
          BY <5>1, <5>2, <2>3
      <4>3. \A f, g \in recent \cup {guess} : f.digest = g.digest => f = g
        BY <3>0, <3>3 DEF IsNew
      <4> recent \cup {guess} \in SUBSET Guesses /\ counted[c] \cup {guess} \in SUBSET Guesses
        BY <3>0, <2>1, <2>2
      <4> WITNESS recent \cup {guess} \in SUBSET Guesses
      <4> WITNESS counted[c] \cup {guess} \in SUBSET Guesses
      <4> QED
        BY <3>0, <3>3, <4>1, <4>2, <4>3, <2>1, <2>2
    <3> QED
      BY <1>4, <3>1, <3>2, <3>3 DEF Judge, Kept
  <2>5. PICK F \in SUBSET Guesses, G \in SUBSET Guesses :
          /\ failures' = [failures EXCEPT ![c] = F] /\ counted' = [counted EXCEPT ![c] = G]
          /\ F \subseteq G /\ IsFiniteSet(G) /\ Cardinality(F) <= Limit
          /\ \A f \in F : f.stamp <= clock
          /\ \A f, g \in F : f.digest = g.digest => f = g
    BY <2>4
  <2>6. LockoutTypeOK' /\ ReadBefore'
    BY <2>3, <2>5 DEF AuthInv, LockoutTypeOK, ReadBefore
  <2>7. KeptIsCounted'
    BY <2>1, <2>5 DEF AuthInv, LockoutTypeOK, KeptIsCounted
  <2>8. FailuresBounded'
    BY <2>1, <2>3, <2>5 DEF AuthInv, LockoutTypeOK, FailuresBounded
  <2> QED
    BY <2>6, <2>7, <2>8 DEF AuthInv
<1> QED
  BY <1>1, <1>2, <1>3, <1>4 DEF AuthNext

-----------------------------------------------------------------------------
(* _auth_ok: whatever the order in which threads take the lock, a client   *)
(* never has more than LOCKOUT_FAILURES failures kept, one per credential. *)
THEOREM Bounded == AuthSpec => []FailuresBounded
<1>1. AuthInv => FailuresBounded
  BY DEF AuthInv
<1> QED
  BY AuthInitially, AuthInductive, <1>1, PTL DEF AuthSpec

LEMMA RefusalIsOwed ==
    ASSUME AuthInv, [AuthNext]_authVars, NEW q \in waiting \ waiting',
           q.cred = Right, LockedOut(failures'[q.client])
    PROVE  Cardinality({x \in counted[q.client] : q.now < x.stamp + Window}) >= Limit
<1> DEFINE c == q.client
           recent == Recent(c, q.now)
           owed == {x \in counted[c] : q.now < x.stamp + Window}
<1>1. Judge(q)
  BY DEF AuthNext, Arrive, Judge, AuthTick, authVars
<1>2. c \in Clients /\ q.now \in Nat /\ Limit \in Nat \ {0}
  BY LockoutAssumption DEF AuthInv, LockoutTypeOK
<1>3. /\ recent \subseteq counted[c] /\ IsFiniteSet(counted[c])
  BY <1>2, RecentIsKept DEF AuthInv, KeptIsCounted
<1>4. failures'[c] = recent
  <2>1. CASE failures' = [failures EXCEPT ![c] = {}]
    BY <2>1, <1>2, FS_EmptySet DEF LockedOut, AuthInv, LockoutTypeOK
  <2>2. CASE failures' = [failures EXCEPT ![c] = recent]
    BY <2>2, <1>2 DEF AuthInv, LockoutTypeOK
  <2> QED
    BY <1>1, <2>1, <2>2 DEF Judge, Kept
<1>5. recent \subseteq owed
  BY <1>3 DEF Recent
<1>6. IsFiniteSet(owed) /\ Cardinality(recent) <= Cardinality(owed)
  BY <1>3, <1>5, FS_Subset
<1>7. Cardinality(owed) \in Nat /\ Cardinality(recent) \in Nat
  BY <1>5, <1>6, FS_Subset, FS_CardinalityType
<1> QED
  BY <1>2, <1>4, <1>6, <1>7 DEF LockedOut

(* Requests during a lockout do not extend it: a right credential is       *)
(* refused only while enough counted guesses lie within the window.        *)
THEOREM Restoration == AuthSpec => Restored
<1>1. AuthInv /\ [AuthNext]_authVars =>
        [\A q \in waiting \ waiting' :
           (q.cred = Right /\ LockedOut(failures'[q.client])) =>
              Cardinality({x \in counted[q.client] : q.now < x.stamp + Window}) >= Limit]_authVars
  BY RefusalIsOwed
<1> QED
  BY AuthInitially, AuthInductive, <1>1, PTL DEF AuthSpec, Restored

-----------------------------------------------------------------------------
(* A guess is only dropped once it is a window old, and no waiting thread  *)
(* read its clock more than MaxDelay ago: so whoever adds a guess still    *)
(* sees those that count against it.                                       *)
Dropped == \A c \in Clients : \A x \in counted[c] \ failures[c] : x.stamp + Window <= clock
Delayed == \A q \in waiting : clock <= q.now + MaxDelay

WindowInv == Dropped /\ Delayed /\ GuessesBounded

\* The guesses of a client that share a window from t on.
Together(guesses, t) == {x \in guesses : t <= x.stamp /\ x.stamp + MaxDelay < t + Window}

\* None of the guesses that share a window with a new one was dropped.
LEMMA TogetherIsRecent ==
    ASSUME AuthInv, WindowInv, NEW q \in waiting, NEW t \in Nat,
           t <= q.now, q.now + MaxDelay < t + Window
    PROVE  Together(counted[q.client], t) \subseteq Recent(q.client, q.now)
<1> SUFFICES ASSUME NEW x \in Together(counted[q.client], t) PROVE x \in Recent(q.client, q.now)
  OBVIOUS
<1>1. /\ clock \in Nat /\ q.now \in Nat /\ Window \in Nat /\ MaxDelay \in Nat
      /\ q.client \in Clients /\ x \in counted[q.client] /\ x.stamp \in Nat /\ t <= x.stamp
  BY LockoutAssumption DEF AuthInv, LockoutTypeOK, Guesses, Together
<1>2. clock <= q.now + MaxDelay
  BY DEF WindowInv, Delayed
<1>3. x \in failures[q.client]
  BY <1>1, <1>2 DEF WindowInv, Dropped
<1>4. q.now < x.stamp + Window
  BY <1>1
<1> QED BY <1>3, <1>4 DEF Recent

\* A new guess finds less than Limit guesses in each of its windows.
LEMMA JudgeBounded ==
    ASSUME AuthInv, WindowInv, NEW q \in waiting, NEW t \in Nat,
           ~LockedOut(Recent(q.client, q.now))
    PROVE  LET guess == [stamp |-> q.now, digest |-> q.cred]
           IN Cardinality(Together(counted[q.client], t)) <= Limit =>
                Cardinality(Together(counted[q.client] \cup {guess}, t)) <= Limit
<1> DEFINE c == q.client
           recent == Recent(c, q.now)
           guess == [stamp |-> q.now, digest |-> q.cred]
           old == Together(counted[c], t)
           new == Together(counted[c] \cup {guess}, t)
<1>1. /\ c \in Clients /\ q.now \in Nat /\ Limit \in Nat
      /\ IsFiniteSet(recent) /\ Cardinality(recent) \in Nat
      /\ IsFiniteSet(counted[c])
  BY RecentIsKept, LockoutAssumption DEF AuthInv, LockoutTypeOK, KeptIsCounted
<1>2. CASE ~(t <= q.now /\ q.now + MaxDelay < t + Window)
  <2>1. new = old
    BY <1>2 DEF Together
  <2> QED BY <2>1
<1>3. CASE t <= q.now /\ q.now + MaxDelay < t + Window
  <2>1. old \subseteq recent
    BY <1>3, TogetherIsRecent
  <2>2. new \subseteq recent \cup {guess}
    BY <2>1 DEF Together
  <2>3. Cardinality(recent) < Limit
    BY <1>1 DEF LockedOut
  <2> HIDE DEF recent, guess, new, old
  <2>4. /\ IsFiniteSet(recent \cup {guess})
        /\ Cardinality(recent \cup {guess}) \in {Cardinality(recent), Cardinality(recent) + 1}
    BY <1>1, FS_AddElement
  <2>5. IsFiniteSet(new) /\ Cardinality(new) <= Cardinality(recent \cup {guess})
    BY <2>2, <2>4, FS_Subset
  <2>6. Cardinality(new) \in Nat
    BY <2>5, FS_CardinalityType
  <2>7. Cardinality(new) <= Limit
    BY <1>1, <2>3, <2>4, <2>5, <2>6
  <2> QED BY <2>7 DEF new, guess
<1> QED BY <1>2, <1>3

\* Guesses with one digest that are dropped before they are counted again.
Apart(guesses) == \A x, y \in guesses :
    x.digest = y.digest /\ x.stamp < y.stamp => CountedAgain(x, y)

\* A guess that is no repetition leaves those with its digest a window apart.
LEMMA JudgeApart ==
    ASSUME NEW old \in SUBSET Guesses, NEW guess \in Guesses, NEW now \in Nat, Apart(old),
           now <= guess.stamp + MaxDelay,
           \A x \in old : x.digest = guess.digest => x.stamp + Window <= now
    PROVE  Apart(old \cup {guess})
<1> SUFFICES ASSUME NEW x \in old \cup {guess}, NEW y \in old \cup {guess},
                    x.digest = y.digest, x.stamp < y.stamp
             PROVE  CountedAgain(x, y)
  BY DEF Apart
<1>1. x.stamp \in Nat /\ y.stamp \in Nat /\ guess.stamp \in Nat /\ Window \in Nat /\ MaxDelay \in Nat
  BY LockoutAssumption DEF Guesses
<1>2. CASE x \in old /\ y \in old
  BY <1>2 DEF Apart
<1>3. CASE x \in old /\ y = guess
  <2>1. x.stamp + Window <= now
    BY <1>3
  <2> QED BY <1>1, <1>3, <2>1 DEF CountedAgain
<1>4. CASE x = guess /\ y \in old
  <2>1. y.stamp + Window <= now
    BY <1>4
  <2> QED BY <1>1, <1>4, <2>1 DEF CountedAgain
<1>5. CASE x = guess /\ y = guess
  BY <1>1, <1>5
<1> QED BY <1>2, <1>3, <1>4, <1>5

\* Initially nothing was dropped.
LEMMA WindowInitially == AuthInit => WindowInv
<1> SUFFICES ASSUME AuthInit PROVE WindowInv
  OBVIOUS
<1>1. ASSUME NEW c \in Clients, NEW t \in Nat PROVE Cardinality(Together(counted[c], t)) <= Limit
  <2>1. Together(counted[c], t) = {}
    BY DEF AuthInit, Together
  <2> QED BY <2>1, FS_EmptySet, LockoutAssumption
<1>2. GuessesBounded
  BY <1>1, LockoutAssumption DEF GuessesBounded, Together, AuthInit
<1> QED BY <1>2 DEF AuthInit, WindowInv, Dropped, Delayed

\* Every step keeps the windows bounded.
LEMMA WindowInductive == AuthInv /\ WindowInv /\ [AuthNext]_authVars => WindowInv'
<1> SUFFICES ASSUME AuthInv, WindowInv, [AuthNext]_authVars PROVE WindowInv'
  OBVIOUS
<1>0. /\ clock \in Nat /\ Window \in Nat /\ MaxDelay \in Nat /\ Limit \in Nat
      /\ waiting \subseteq [client : Clients, cred : Credentials, now : Nat]
      /\ failures \in [Clients -> SUBSET Guesses] /\ counted \in [Clients -> SUBSET Guesses]
      /\ \A q \in waiting : q.now <= clock
  BY LockoutAssumption DEF AuthInv, LockoutTypeOK, ReadBefore
<1>1. CASE UNCHANGED authVars
  BY <1>1 DEF authVars, WindowInv, Dropped, Delayed, GuessesBounded
<1>2. CASE AuthTick
  <2>1. /\ clock' = clock + 1 /\ UNCHANGED <<waiting, failures, counted>>
        /\ \A q \in waiting : clock < q.now + MaxDelay
    BY <1>2 DEF AuthTick
  <2>2. Dropped'
    BY <1>0, <2>1 DEF WindowInv, Dropped, Guesses
  <2>3. Delayed'
    BY <1>0, <2>1 DEF Delayed
  <2> QED BY <2>1, <2>2, <2>3 DEF WindowInv, GuessesBounded
<1>3. ASSUME NEW c \in Clients, NEW cred \in Credentials, Arrive(c, cred) PROVE WindowInv'
  <2>1. /\ waiting' = waiting \cup {[client |-> c, cred |-> cred, now |-> clock]}
        /\ UNCHANGED <<clock, failures, counted>>
    BY <1>3 DEF Arrive
  <2>2. Delayed'
    BY <1>0, <2>1 DEF WindowInv, Delayed
  <2> QED BY <2>1, <2>2 DEF WindowInv, Dropped, GuessesBounded
<1>4. ASSUME NEW q \in waiting, Judge(q) PROVE WindowInv'
  <2> DEFINE c == q.client
             recent == Recent(c, q.now)
             guess == [stamp |-> q.now, digest |-> q.cred]
  <2>1. c \in Clients /\ q.now \in Nat /\ q.now <= clock /\ waiting' = waiting \ {q} /\ clock' = clock
    BY <1>0, <1>4 DEF Judge
  <2>2. Delayed'
    BY <2>1 DEF WindowInv, Delayed
  <2>3. \A x \in counted[c] \ recent : x.stamp + Window <= clock
    <3> SUFFICES ASSUME NEW x \in counted[c] \ recent PROVE x.stamp + Window <= clock
      OBVIOUS
    <3>1. x.stamp \in Nat
      BY <1>0, <2>1 DEF Guesses
    <3>2. CASE x \in failures[c]
      BY <1>0, <2>1, <3>1, <3>2 DEF Recent
    <3>3. CASE x \notin failures[c]
      BY <2>1, <3>3 DEF WindowInv, Dropped
    <3> QED BY <3>2, <3>3
  <2>4. \/ failures'[c] = recent /\ counted'[c] = counted[c]
        \/ failures'[c] = {} /\ counted'[c] = {}
        \/ /\ failures'[c] = recent \cup {guess} /\ counted'[c] = counted[c] \cup {guess}
           /\ ~LockedOut(recent) /\ IsNew(recent, q.cred)
    BY <1>0, <1>4, <2>1 DEF Judge, Kept
  <2>5. \A d \in Clients \ {c} : failures'[d] = failures[d] /\ counted'[d] = counted[d]
    BY <1>0, <1>4, <2>1 DEF Judge
  <2>6. Dropped'
    BY <2>1, <2>3, <2>4, <2>5 DEF WindowInv, Dropped
  <2>7. ASSUME NEW t \in 0 .. MaxClock PROVE Cardinality(Together(counted'[c], t)) <= Limit
    <3>1. t \in Nat /\ Cardinality(Together(counted[c], t)) <= Limit
      BY <2>1, LockoutAssumption DEF WindowInv, GuessesBounded, Together
    <3>2. CASE counted'[c] = counted[c]
      BY <3>1, <3>2
    <3>3. CASE counted'[c] = {}
      <4>1. Together(counted'[c], t) = {}
        BY <3>3 DEF Together
      <4> QED BY <1>0, <4>1, FS_EmptySet
    <3>4. CASE counted'[c] = counted[c] \cup {guess} /\ ~LockedOut(recent)
      BY <3>1, <3>4, JudgeBounded
    <3> QED BY <2>4, <3>2, <3>3, <3>4
  <2>8. Apart(counted'[c])
    <3>1. Apart(counted[c]) /\ counted[c] \in SUBSET Guesses
      BY <1>0, <2>1 DEF WindowInv, GuessesBounded, Apart
    <3>2. CASE counted'[c] = counted[c] \cup {guess} /\ IsNew(recent, q.cred)
      <4>1. guess \in Guesses /\ guess.stamp = q.now /\ guess.digest = q.cred
        BY <1>0, <2>1 DEF Guesses
      <4>2. clock <= guess.stamp + MaxDelay
        BY <4>1 DEF WindowInv, Delayed
      <4>3. \A x \in counted[c] : x.digest = guess.digest => x.stamp + Window <= clock
        BY <2>3, <3>2, <4>1 DEF IsNew
      <4> HIDE DEF guess, recent
      <4> QED BY <1>0, <3>1, <3>2, <4>1, <4>2, <4>3, JudgeApart
    <3>3. CASE counted'[c] = {}
      BY <3>3 DEF Apart
    <3>4. CASE counted'[c] = counted[c]
      BY <3>1, <3>4
    <3> QED BY <2>4, <3>2, <3>3, <3>4
  <2>9. GuessesBounded'
    <3> SUFFICES ASSUME NEW d \in Clients
                 PROVE  /\ \A t \in 0 .. MaxClock : Cardinality(Together(counted'[d], t)) <= Limit
                        /\ Apart(counted'[d])
      BY DEF GuessesBounded, Together, Apart
    <3>1. CASE d = c
      BY <2>7, <2>8, <3>1
    <3>2. CASE d # c
      BY <2>5, <3>2 DEF WindowInv, GuessesBounded, Together, Apart
    <3> QED BY <3>1, <3>2
  <2> QED BY <2>2, <2>6, <2>9 DEF WindowInv
<1> QED BY <1>1, <1>2, <1>3, <1>4 DEF AuthNext

(* However the threads of a client overlap, the guesses counted in any     *)
(* window, less the time a thread may wait, are at most LOCKOUT_FAILURES,  *)
(* and no credential counts twice in it.                                   *)
THEOREM GuessWindow == AuthSpec => []GuessesBounded
<1>1. WindowInv => GuessesBounded
  BY DEF WindowInv
<1> QED
  BY AuthInitially, AuthInductive, WindowInitially, WindowInductive, <1>1, PTL DEF AuthSpec

-----------------------------------------------------------------------------
(* For any number of threads and messages the lines of log are Every       *)
(* apart.  The argument: every line is at most as late as the stamp in     *)
(* _log_last, and a new one comes at least Every after that stamp.         *)

LogTypeOK ==
    /\ monotonic \in Nat
    /\ caller \in [Threads -> [at : {"quiet", "locking", "printing"}, now : Nat, suppressed : Nat]]
    /\ last \subseteq Nat
    /\ suppressed \in Nat
    /\ lines \in Seq(Nat)

\* The stamp in _log_last, of which there is at most one, is the latest.
LastIsLatest ==
    /\ \A l, k \in last : l = k
    /\ \A i \in DOMAIN lines : \E l \in last : lines[i] <= l

LogInv == LogTypeOK /\ LastIsLatest /\ LinesSpaced

LEMMA LogInitially == LogInit => LogInv
  BY DEF LogInit, LogInv, LogTypeOK, LastIsLatest, LinesSpaced, Quiet

LEMMA LogInductive == LogInv /\ [LogNext]_logVars => LogInv'
<1> USE LogAssumption
<1> SUFFICES ASSUME LogInv, [LogNext]_logVars PROVE LogInv'
  OBVIOUS
<1>1. CASE UNCHANGED logVars
  BY <1>1 DEF logVars, LogInv, LogTypeOK, LastIsLatest, LinesSpaced
<1>2. CASE LogTick
  BY <1>2 DEF LogTick, LogInv, LogTypeOK, LastIsLatest, LinesSpaced
<1>3. ASSUME NEW t \in Threads, CallLog(t) PROVE LogInv'
  BY <1>3 DEF CallLog, Quiet, LogInv, LogTypeOK, LastIsLatest, LinesSpaced
<1>4. ASSUME NEW t \in Threads, PrintLine(t) PROVE LogInv'
  BY <1>4 DEF PrintLine, Quiet, LogInv, LogTypeOK, LastIsLatest, LinesSpaced
<1>5. ASSUME NEW t \in Threads, Decide(t) PROVE LogInv'
  <2>1. CASE TooSoon(caller[t].now)
    <3>1. /\ suppressed' = suppressed + 1 /\ caller' = [caller EXCEPT ![t] = Quiet]
          /\ last' = last /\ lines' = lines /\ monotonic' = monotonic
      BY <1>5, <2>1 DEF Decide
    <3> QED
      BY <3>1 DEF Quiet, LogInv, LogTypeOK, LastIsLatest, LinesSpaced
  <2>2. CASE ~TooSoon(caller[t].now)
    <3> DEFINE now == caller[t].now
    <3>1. now \in Nat /\ lines \in Seq(Nat)
      BY DEF LogInv, LogTypeOK
    <3>2. /\ last' = {now} /\ lines' = Append(lines, now) /\ suppressed' = 0
          /\ caller' = [caller EXCEPT ![t] = [at |-> "printing", now |-> now, suppressed |-> suppressed]]
          /\ monotonic' = monotonic
      BY <1>5, <2>2 DEF Decide
    <3>3. \A i \in DOMAIN lines : lines[i] \in Nat /\ lines[i] + Every <= now
      BY <2>2, <3>1 DEF TooSoon, LogInv, LogTypeOK, LastIsLatest
    <3>4. /\ lines' \in Seq(Nat)
          /\ \A i \in DOMAIN lines' : lines'[i] = now \/ (i \in DOMAIN lines /\ lines'[i] = lines[i])
          /\ \A i, j \in DOMAIN lines' : i < j => i \in DOMAIN lines /\ lines'[i] = lines[i]
      BY <3>1, <3>2
    <3>5. LinesSpaced'
      BY <3>1, <3>3, <3>4 DEF LinesSpaced, LogInv
    <3>6. LastIsLatest'
      BY <3>1, <3>2, <3>3, <3>4 DEF LastIsLatest
    <3>7. LogTypeOK'
      BY <3>1, <3>2, <3>4 DEF LogTypeOK, LogInv
    <3> QED
      BY <3>5, <3>6, <3>7 DEF LogInv
  <2> QED
    BY <2>1, <2>2
<1> QED
  BY <1>1, <1>2, <1>3, <1>4, <1>5 DEF LogNext

(* log of the monitor, for every number of threads, whatever order they    *)
(* take _log_lock in: two lines of a category are Every seconds apart.     *)
THEOREM Spacing == LogSpec => []LinesSpaced
<1>1. LogInv => LinesSpaced
  BY DEF LogInv
<1> QED
  BY LogInitially, LogInductive, <1>1, PTL DEF LogSpec

-----------------------------------------------------------------------------
(* With one process at a time, which is what launchd runs, all addresses   *)
(* are hashed with one salt, for any number of identifiers, salts, edits   *)
(* and deaths.  The argument: only a process that found no salt draws one, *)
(* and before it is in the file no address is hashed.                      *)

StartPlaces == {"off", "config", "salt", "create", "write", "rename", "read", "db", "bind", "serving"}

StartTypeOK ==
    /\ salt \in Contents
    /\ tmp \in [Pids -> Contents]
    /\ drawn \in 0 .. MaxSalts
    /\ monitor \in [Monitors -> [at : StartPlaces, pid : Pids \cup {0}, salt : Contents]]
    /\ hashed \subseteq Secrets

\* A process that runs has an identifier.
HasPid == \A m \in Monitors : monitor[m].at # "off" => monitor[m].pid \in Pids

\* Nothing is hashed before the salt is in the file.
HashedWithSalt == \A s \in hashed : s = salt

\* Where a process stands tells what is in the file.
KnowsSalt ==
    \A m \in Monitors :
        /\ monitor[m].at \in {"create", "write", "rename"} => hashed = {}
        /\ monitor[m].at = "rename" => tmp[monitor[m].pid] \in Secrets
        /\ monitor[m].at \in {"db", "bind", "serving"} =>
             salt \in Secrets /\ monitor[m].salt = salt

SaltInv == StartTypeOK /\ HasPid /\ HashedWithSalt /\ KnowsSalt

\* launchd runs one process; nobody starts a second by hand.
OneProcess == \A m, n \in Monitors : m = n

LEMMA StartInitially == StartInit => SaltInv
  BY StartAssumption DEF StartInit, SaltInv, StartTypeOK, HasPid, HashedWithSalt, KnowsSalt, Off, StartPlaces,
         Contents, Absent, Empty, Secrets

LEMMA StartInductive ==
    ASSUME OneProcess, SaltInv, [StartNext]_startVars PROVE SaltInv'
<1> USE StartAssumption DEF OneProcess, SaltInv, StartTypeOK, HasPid, HashedWithSalt, KnowsSalt,
            Contents, Absent, Empty, Secrets
<1>1. CASE UNCHANGED startVars
  BY <1>1 DEF startVars
<1>2. CASE Edit
  BY <1>2 DEF Edit
<1>3. ASSUME NEW m \in Monitors, StartStep(m) PROVE SaltInv'
  <2>1. CASE StartMonitor(m)
    BY <2>1 DEF StartMonitor, At, StartPlaces
  <2>2. CASE LoadSettings(m)
    BY <2>2 DEF LoadSettings, At, Off, StartPlaces
  <2>3. CASE LookAtSalt(m)
    <3>1. Uninitialised => hashed = {}
      BY DEF Uninitialised
    <3> QED
      BY <2>3, <3>1 DEF LookAtSalt, At, Goes, StartPlaces
  <2>4. CASE CreateTmp(m)
    BY <2>4 DEF CreateTmp, At, Goes, StartPlaces
  <2>5. CASE WriteTmp(m)
    BY <2>5 DEF WriteTmp, At, Goes, StartPlaces
  <2>6. CASE RenameTmp(m)
    BY <2>6 DEF RenameTmp, At, Goes, StartPlaces
  <2>7. CASE ReadSalt(m)
    <3> USE DEF ReadSalt, At, Off, StartPlaces
    <3>1. CASE salt \in Secrets
      <4>1. /\ monitor' = [monitor EXCEPT ![m] = [@ EXCEPT !.salt = salt, !.at = "db"]]
            /\ UNCHANGED <<config, salt, tmp, drawn, tables, hashed, startFaults>>
            /\ monitor[m].at = "read"
        BY <2>7, <3>1
      <4>2. monitor'[m] = [monitor[m] EXCEPT !.salt = salt, !.at = "db"]
        BY <4>1
      <4>3. StartTypeOK'
        <5> DEFINE Monitor == [at : StartPlaces, pid : Pids \cup {0}, salt : Contents]
        <5>0. ASSUME NEW r \in Monitor PROVE [r EXCEPT !.salt = salt, !.at = "db"] \in Monitor
          BY <3>1
        <5>1. monitor'[m] \in Monitor
          <6>1. monitor[m] \in Monitor
            OBVIOUS
          <6> HIDE DEF Monitor
          <6> QED BY <4>2, <5>0, <6>1
        <5>2. monitor' = [monitor EXCEPT ![m] = monitor'[m]]
          BY <4>1, <4>2
        <5>3. monitor' \in [Monitors -> Monitor]
          <6>1. monitor \in [Monitors -> Monitor]
            OBVIOUS
          <6> HIDE DEF Monitor
          <6> QED BY <5>1, <5>2, <6>1
        <5> QED BY <4>1, <5>3
      <4>4. HasPid' /\ HashedWithSalt' /\ KnowsSalt'
        BY <3>1, <4>1
      <4> QED BY <4>3, <4>4
    <3>2. CASE salt \notin Secrets
      BY <2>7, <3>2
    <3> QED BY <3>1, <3>2
  <2>8. CASE InitDb(m)
    BY <2>8 DEF InitDb, At, Goes, StartPlaces
  <2>9. CASE Bind(m)
    BY <2>9 DEF Bind, At, Off, StartPlaces
  <2> QED
    BY <1>3, <2>1, <2>2, <2>3, <2>4, <2>5, <2>6, <2>7, <2>8, <2>9 DEF StartStep
<1>4. ASSUME NEW m \in Monitors, WriteFails(m) PROVE SaltInv'
  BY <1>4 DEF WriteFails, At, Off, StartPlaces
<1>5. ASSUME NEW m \in Monitors, Ingest(m) PROVE SaltInv'
  BY <1>5 DEF Ingest, At
<1>6. ASSUME NEW m \in Monitors, DieAnywhere(m) PROVE SaltInv'
  BY <1>6 DEF DieAnywhere, Off, StartPlaces
<1> QED
  BY <1>1, <1>2, <1>3, <1>4, <1>5, <1>6 DEF StartNext

(* _load_salt, under launchd: wherever a start is interrupted and          *)
(* whichever start follows, every address in the database is hashed with   *)
(* the secret that ip.salt holds.  With two processes this is false.       *)
THEOREM OneSalt ==
    ASSUME OneProcess PROVE StartSpec => []SaltKept
<1>1. StartInit => SaltInv
  BY StartInitially
<1>2. SaltInv /\ [StartNext]_startVars => SaltInv'
  BY StartInductive
<1>3. SaltInv => SaltKept
  BY DEF SaltInv, StartTypeOK, HashedWithSalt, SaltKept
<1> QED
  BY <1>1, <1>2, <1>3, PTL DEF StartSpec

-----------------------------------------------------------------------------
(* For any number of threads, requests and exceptions: every request whose *)
(* client stays is answered once, and an answer of 200 hides no failure.   *)

HandSteps == {"lock", "query", "unlock", "immich", "cli"}

Codes == {0, 200, 400, 401, 403, 404, 413, 500, 502}

HandPlaces == {"idle", "access", "work", "send", "over"}

States == [at : HandPlaces, req : Asked \cup {NoRequest},
           todo : Seq(HandSteps), failed : BOOLEAN, raised : BOOLEAN, code : Codes, gone : BOOLEAN]

Sent == {<<>>} \cup {<<c>> : c \in Codes}

\* An answer is sent at the very end, with the code that was decided on.
OneAnswer(s, a) ==
    IF s.at = "over" THEN a = <<s.code>> \/ (s.gone /\ a = <<>>) ELSE a = <<>>

\* What has raised is remembered until the code is decided on.
Remembered(s) ==
    s.raised =>
        /\ s.at \in {"work", "send", "over"}
        /\ s.at = "work" => s.failed
        /\ s.at # "work" /\ s.code = 200 => s.req.path = "/devhub" /\ s.failed

AnswerInv ==
    /\ hand \in [Hands -> States]
    /\ answered \in [Hands -> Sent]
    /\ \A h \in Hands : OneAnswer(hand[h], answered[h]) /\ Remembered(hand[h])

\* Assignments to the fields of a thread's state, and what they leave alone.
SetAt(s, v) == [s EXCEPT !.at = v]
SetCode(s, v) == [s EXCEPT !.code = v]
SetTodo(s, v) == [s EXCEPT !.todo = v]
SetReq(s, v) == [s EXCEPT !.req = v]
SetGone(s) == [s EXCEPT !.gone = TRUE]
SetFailed(s) == [s EXCEPT !.failed = TRUE]
SetRaised(s) == [s EXCEPT !.raised = TRUE]

SameBut(field, s, t) ==
    /\ field # "at" => t.at = s.at
    /\ field # "code" => t.code = s.code
    /\ field # "todo" => t.todo = s.todo
    /\ field # "failed" => t.failed = s.failed
    /\ field # "raised" => t.raised = s.raised
    /\ field # "req" => t.req = s.req
    /\ field # "gone" => t.gone = s.gone

-----------------------------------------------------------------------------
LEMMA RefusalIsCode == \A req : RefusedWith(req) \in Codes
  BY DEF RefusedWith, FieldError, BodyError, Codes

LEMMA NeedsAreSteps == \A path : Needs(path) \in Seq(HandSteps)
<1>1. Snapshot \in Seq(HandSteps) /\ Conn(<<"query">>) \in Seq(HandSteps)
      /\ <<"immich">> \in Seq(HandSteps) /\ <<"cli">> \in Seq(HandSteps) /\ <<>> \in Seq(HandSteps)
  BY DEF Snapshot, Conn, HandSteps
<1> QED
  BY <1>1 DEF Needs

LEMMA AtSet ==
    ASSUME NEW s \in States, NEW v \in HandPlaces
    PROVE  SetAt(s, v) \in States /\ SetAt(s, v).at = v /\ SameBut("at", s, SetAt(s, v))
  BY DEF States, SetAt, SameBut

LEMMA CodeSet ==
    ASSUME NEW s \in States, NEW v \in Codes
    PROVE  SetCode(s, v) \in States /\ SetCode(s, v).code = v
           /\ SameBut("code", s, SetCode(s, v))
  BY DEF States, SetCode, SameBut

LEMMA TodoSet ==
    ASSUME NEW s \in States, NEW v \in Seq(HandSteps)
    PROVE  SetTodo(s, v) \in States /\ SameBut("todo", s, SetTodo(s, v))
  BY DEF States, SetTodo, SameBut

LEMMA ReqSet ==
    ASSUME NEW s \in States, NEW v \in Asked
    PROVE  SetReq(s, v) \in States /\ SameBut("req", s, SetReq(s, v))
  BY DEF States, SetReq, SameBut

LEMMA GoneSet ==
    ASSUME NEW s \in States
    PROVE  SetGone(s) \in States /\ SetGone(s).gone /\ SameBut("gone", s, SetGone(s))
  BY DEF States, SetGone, SameBut

LEMMA FailedSet ==
    ASSUME NEW s \in States
    PROVE  SetFailed(s) \in States /\ SetFailed(s).failed
           /\ SameBut("failed", s, SetFailed(s))
  BY DEF States, SetFailed, SameBut

LEMMA RaisedSet ==
    ASSUME NEW s \in States
    PROVE  SetRaised(s) \in States /\ SetRaised(s).raised
           /\ SameBut("raised", s, SetRaised(s))
  BY DEF States, SetRaised, SameBut

(* A step of one thread keeps the invariant if it keeps it for that one.   *)
LEMMA OneMoves ==
    ASSUME AnswerInv, NEW h \in Hands, NEW s \in States, NEW a \in Sent,
           hand' = [hand EXCEPT ![h] = s], answered' = [answered EXCEPT ![h] = a],
           OneAnswer(s, a), Remembered(s)
    PROVE  AnswerInv'
<1>1. /\ hand' \in [Hands -> States] /\ answered' \in [Hands -> Sent]
      /\ \A g \in Hands : /\ hand'[g] = IF g = h THEN s ELSE hand[g]
                          /\ answered'[g] = IF g = h THEN a ELSE answered[g]
  BY DEF AnswerInv
<1>2. ASSUME NEW g \in Hands PROVE OneAnswer(hand'[g], answered'[g]) /\ Remembered(hand'[g])
  <2>1. CASE g = h
    BY <2>1, <1>1
  <2>2. CASE g # h
    BY <2>2, <1>1 DEF AnswerInv
  <2> QED
    BY <2>1, <2>2
<1> QED
  BY <1>1, <1>2 DEF AnswerInv

(* The same for a step that sends nothing before the end.                  *)
LEMMA OneThinks ==
    ASSUME AnswerInv, NEW h \in Hands, NEW s \in States, hand[h].at # "over", s.at # "over",
           hand' = [hand EXCEPT ![h] = s], UNCHANGED answered, Remembered(s)
    PROVE  AnswerInv'
<1>1. answered[h] \in Sent /\ answered[h] = <<>> /\ answered' = [answered EXCEPT ![h] = answered[h]]
  BY DEF AnswerInv, OneAnswer
<1>2. OneAnswer(s, answered[h])
  BY <1>1 DEF OneAnswer
<1> HIDE DEF OneAnswer, Remembered, AnswerInv
<1> QED
  BY <1>1, <1>2, OneMoves

LEMMA IdleIsFine ==
    /\ Idle \in States /\ Idle.at = "idle" /\ ~Idle.raised
    /\ OneAnswer(Idle, <<>>) /\ Remembered(Idle)
<1>1. <<>> \in Seq(HandSteps) /\ 0 \in Codes /\ "idle" \in HandPlaces
  BY DEF Codes, HandPlaces
<1>2. Idle \in States
  BY <1>1 DEF Idle, States
<1>3. Idle.at = "idle" /\ ~Idle.raised
  BY DEF Idle
<1> QED
  BY <1>2, <1>3 DEF OneAnswer, Remembered

LEMMA AnswerInitially == HandInit => AnswerInv
<1> QED
  BY IdleIsFine DEF HandInit, AnswerInv, Sent

LEMMA AnswerInductive == AnswerInv /\ [HandNext]_handVars => AnswerInv'
<1> SUFFICES ASSUME AnswerInv, [HandNext]_handVars PROVE AnswerInv'
  OBVIOUS
<1>1. CASE UNCHANGED handVars
  BY <1>1 DEF handVars, AnswerInv
<1>2. CASE IngestLock
  BY <1>2 DEF IngestLock, AnswerInv
<1>3. ASSUME NEW h \in Hands, AcceptRequest(h) \/ TakesLock(h) \/ HandWork(h) PROVE AnswerInv'
  <2> DEFINE s == hand[h]
  <2>0. s \in States /\ OneAnswer(s, answered[h]) /\ Remembered(s)
    BY DEF AnswerInv
  <2>1. CASE AcceptRequest(h)
    <3>1. PICK req \in Asked : hand' = [hand EXCEPT ![h] = [Idle EXCEPT !.at = "access", !.req = req]]
      BY <2>1 DEF AcceptRequest
    <3> DEFINE t == [Idle EXCEPT !.at = "access", !.req = req]
    <3>2. t = SetReq(SetAt(Idle, "access"), req)
      BY DEF SetReq, SetAt
    <3>3. "access" \in HandPlaces
      BY DEF HandPlaces
    <3>4. t \in States /\ t.at = "access" /\ ~t.raised
      <4> HIDE DEF t
      <4> QED
        BY <3>2, <3>3, IdleIsFine, AtSet, ReqSet DEF SameBut
    <3> HIDE DEF t
    <3>5. Remembered(t)
      BY <3>4 DEF Remembered
    <3> QED
      BY <2>1, <3>1, <3>4, <3>5, OneThinks DEF AcceptRequest, t
  <2>2. CASE CheckAccess(h)
    <3> DEFINE t == [s EXCEPT !.at = "send", !.code = RefusedWith(s.req)]
               u == [s EXCEPT !.at = "work", !.todo = Needs(s.req.path)]
    <3>1. s.at = "access" /\ ~s.raised
      BY <2>0, <2>2 DEF CheckAccess, Remembered
    <3>2. t \in States /\ Remembered(t) /\ t.at # "over"
      <4>1. t = SetCode(SetAt(s, "send"), RefusedWith(s.req)) /\ "send" \in HandPlaces
        BY DEF SetAt, SetCode, HandPlaces
      <4> HIDE DEF t
      <4>2. t \in States /\ t.at = "send" /\ ~t.raised
        BY <2>0, <3>1, <4>1, RefusalIsCode, AtSet, CodeSet DEF SameBut
      <4> QED
        BY <4>2 DEF Remembered
    <3>3. u \in States /\ Remembered(u) /\ u.at # "over"
      <4>1. u = SetTodo(SetAt(s, "work"), Needs(s.req.path)) /\ "work" \in HandPlaces
        BY DEF SetAt, SetTodo, HandPlaces
      <4> HIDE DEF u
      <4>2. u \in States /\ u.at = "work" /\ ~u.raised
        BY <2>0, <3>1, <4>1, NeedsAreSteps, AtSet, TodoSet DEF SameBut
      <4> QED
        BY <4>2 DEF Remembered
    <3>4. UNCHANGED answered /\ (hand' = [hand EXCEPT ![h] = t] \/ hand' = [hand EXCEPT ![h] = u])
      BY <2>2 DEF CheckAccess
    <3> HIDE DEF t, u
    <3> QED
      BY <3>1, <3>2, <3>3, <3>4, OneThinks
  <2>3. CASE TakesLock(h) \/ FreesLock(h) \/ CallReturns(h)
    <3> DEFINE t == [s EXCEPT !.todo = Tail(@)]
    <3>1. s.at = "work" /\ s.todo # <<>>
      BY <2>3 DEF TakesLock, FreesLock, CallReturns, AboutTo
    <3>2. Tail(s.todo) \in Seq(HandSteps)
      BY <2>0, <3>1 DEF States
    <3>3. t \in States /\ Remembered(t) /\ t.at # "over"
      BY <2>0, <3>1, <3>2 DEF States, Remembered
    <3>4. UNCHANGED answered /\ hand' = [hand EXCEPT ![h] = t]
      BY <2>3 DEF TakesLock, FreesLock, CallReturns
    <3> HIDE DEF t
    <3> QED
      BY <3>1, <3>3, <3>4, OneThinks
  <2>4. CASE CallRaises(h)
    <3>1. PICK call \in {"query", "immich", "cli"}, exc \in {"SystemExit", "Exception"} :
            /\ AboutTo(h, call)
            /\ hand' = [hand EXCEPT ![h] = [Handled(@, call, exc) EXCEPT !.raised = TRUE]]
            /\ UNCHANGED answered
      BY <2>4 DEF CallRaises, Exceptions
    <3> DEFINE t == [Handled(s, call, exc) EXCEPT !.raised = TRUE]
    <3>2. s.at = "work" /\ s.todo # <<>>
      BY <3>1 DEF AboutTo
    <3>3. Tail(s.todo) \in Seq(HandSteps)
      BY <2>0, <3>2 DEF States
    <3>4. t \in States /\ Remembered(t) /\ t.at # "over"
      <4>1. CASE s.req.path = "/devhub"
        <5> DEFINE v == SetFailed(SetCode(SetAt(s, "send"), 200))
        <5>1. t = SetRaised(v)
          BY <4>1 DEF Handled, SetAt, SetCode, SetFailed, SetRaised
        <5>2. "send" \in HandPlaces /\ 200 \in Codes
          BY DEF HandPlaces, Codes
        <5>3. v \in States /\ v.at = "send" /\ v.failed /\ v.req = s.req
          BY <5>2, <2>0, AtSet, CodeSet, FailedSet DEF SameBut
        <5> HIDE DEF t, v
        <5> QED
          BY <4>1, <5>1, <5>3, RaisedSet DEF SameBut, Remembered
      <4>2. CASE s.req.path = "/shares" /\ call = "immich"
        <5> DEFINE u == SetTodo(s, Tail(s.todo))
                   v == SetFailed(u)
        <5>1. t = SetRaised(v)
          <6>1. Handled(s, call, exc) = v
            BY <4>2 DEF Handled, SetTodo, SetFailed
          <6> HIDE DEF v
          <6> QED
            BY <6>1 DEF SetRaised
        <5>2. v \in States /\ v.at = "work" /\ v.failed
          <6>1. u \in States /\ u.at = "work"
            BY <2>0, <3>2, <3>3, TodoSet DEF SameBut
          <6> HIDE DEF u
          <6> QED BY <6>1, FailedSet DEF SameBut
        <5> HIDE DEF t, v
        <5> QED
          BY <5>1, <5>2, RaisedSet DEF SameBut, Remembered
      <4>3. CASE s.req.path # "/devhub" /\ ~(s.req.path = "/shares" /\ call = "immich")
        <5> DEFINE code == IF exc = "SystemExit" THEN 502 ELSE 500
                   v == SetCode(SetAt(s, "send"), code)
        <5>1. t = SetRaised(v)
          BY <4>3 DEF Handled, SetAt, SetCode, SetRaised
        <5>2. "send" \in HandPlaces /\ code \in Codes /\ code # 200
          BY DEF HandPlaces, Codes
        <5>3. v \in States /\ v.at = "send" /\ v.code # 200
          <6> HIDE DEF code
          <6> QED
            BY <5>2, <2>0, AtSet, CodeSet DEF SameBut
        <5> HIDE DEF t, v
        <5> QED
          BY <5>1, <5>3, RaisedSet DEF SameBut, Remembered
      <4> QED
        BY <4>1, <4>2, <4>3
    <3>5. hand' = [hand EXCEPT ![h] = t]
      BY <3>1
    <3> HIDE DEF t
    <3> QED
      BY <3>1, <3>2, <3>4, <3>5, OneThinks
  <2>5. CASE CliReturns(h)
    <3> DEFINE t == [s EXCEPT !.todo = <<>>]
               u == [s EXCEPT !.at = "send", !.code = 502, !.raised = TRUE]
    <3>1. s.at = "work" /\ UNCHANGED answered
      BY <2>5 DEF CliReturns, AboutTo
    <3>2. t \in States /\ Remembered(t) /\ t.at # "over"
      <4>1. <<>> \in Seq(HandSteps)
        OBVIOUS
      <4>2. t \in States
        BY <2>0, <4>1 DEF States
      <4>3. t.at = "work" /\ t.raised = s.raised /\ t.failed = s.failed
        BY <2>0, <3>1 DEF States
      <4> QED
        BY <2>0, <3>1, <4>2, <4>3 DEF Remembered
    <3>3. u \in States /\ Remembered(u) /\ u.at # "over"
      <4>1. u = SetRaised(SetCode(SetAt(s, "send"), 502))
        BY DEF SetAt, SetCode, SetRaised
      <4>2. "send" \in HandPlaces /\ 502 \in Codes
        BY DEF HandPlaces, Codes
      <4>3. u \in States /\ u.at = "send" /\ u.code = 502
        BY <2>0, <4>1, <4>2, AtSet, CodeSet, RaisedSet DEF SameBut
      <4> HIDE DEF u
      <4> QED
        BY <4>3 DEF Remembered
    <3>4. hand' = [hand EXCEPT ![h] = t] \/ hand' = [hand EXCEPT ![h] = u]
      BY <2>5 DEF CliReturns
    <3> HIDE DEF t, u
    <3> QED
      BY <3>1, <3>2, <3>3, <3>4, OneThinks
  <2>6. CASE Answers(h)
    <3> DEFINE t == [s EXCEPT !.at = "send", !.code = Verdict(s)]
    <3>1. s.at = "work" /\ UNCHANGED answered /\ hand' = [hand EXCEPT ![h] = t]
      BY <2>6 DEF Answers
    <3>2. t \in States /\ Remembered(t) /\ t.at # "over"
      <4>1. Verdict(s) \in Codes /\ (s.failed => Verdict(s) = 502)
        BY DEF Verdict, Codes
      <4>2. t = SetCode(SetAt(s, "send"), Verdict(s)) /\ "send" \in HandPlaces
        BY DEF SetAt, SetCode, HandPlaces
      <4> HIDE DEF t
      <4>3. t \in States /\ t.at = "send" /\ t.code = Verdict(s) /\ t.raised = s.raised
        BY <2>0, <4>1, <4>2, AtSet, CodeSet DEF SameBut
      <4>4. s.raised => s.failed
        BY <2>0, <3>1 DEF Remembered
      <4> QED
        BY <4>1, <4>3, <4>4 DEF Remembered
    <3> HIDE DEF t
    <3> QED
      BY <3>1, <3>2, OneThinks
  <2>7. CASE Sends(h) \/ ClientGone(h)
    <3> DEFINE t == [s EXCEPT !.at = "over"]
               u == [s EXCEPT !.at = "over", !.gone = TRUE]
               w == [s EXCEPT !.failed = TRUE, !.gone = TRUE]
    <3>1. s.at = "send" /\ answered[h] = <<>> /\ s.code \in Codes
      BY <2>0, <2>7 DEF Sends, ClientGone, OneAnswer, States
    <3>2. /\ t \in States /\ Remembered(t) /\ OneAnswer(t, <<s.code>>)
          /\ u \in States /\ Remembered(u) /\ OneAnswer(u, <<>>)
          /\ w \in States /\ Remembered(w) /\ OneAnswer(w, <<>>)
      <4>1. /\ t = SetAt(s, "over") /\ u = SetGone(SetAt(s, "over"))
            /\ w = SetGone(SetFailed(s)) /\ "over" \in HandPlaces
        BY DEF SetAt, SetGone, SetFailed, HandPlaces
      <4> HIDE DEF t, u, w
      <4>2. /\ t \in States /\ t.at = "over" /\ SameBut("at", s, t)
            /\ u \in States /\ u.at = "over" /\ u.gone /\ SameBut("gone", t, u)
        BY <2>0, <4>1, AtSet, GoneSet DEF SameBut
      <4>3. OneAnswer(t, <<s.code>>) /\ OneAnswer(u, <<>>)
        BY <4>2 DEF OneAnswer, SameBut
      <4>4. Remembered(t) /\ Remembered(u)
        BY <2>0, <3>1, <4>2 DEF Remembered, SameBut
      <4>5. w \in States /\ w.at = "send" /\ w.failed /\ w.raised = s.raised
            /\ w.code = s.code /\ w.req = s.req
        BY <2>0, <3>1, <4>1, FailedSet, GoneSet DEF SameBut
      <4>6. Remembered(w) /\ OneAnswer(w, <<>>)
        BY <2>0, <3>1, <4>5 DEF Remembered, OneAnswer
      <4> QED
        BY <4>2, <4>3, <4>4, <4>5, <4>6
    <3>3. <<s.code>> \in Sent /\ <<>> \in Sent /\ Append(<<>>, s.code) = <<s.code>>
      BY <3>1 DEF Sent
    <3>4. \/ hand' = [hand EXCEPT ![h] = t] /\ answered' = [answered EXCEPT ![h] = <<s.code>>]
          \/ hand' = [hand EXCEPT ![h] = u] /\ answered' = [answered EXCEPT ![h] = <<>>]
          \/ hand' = [hand EXCEPT ![h] = w] /\ answered' = [answered EXCEPT ![h] = <<>>]
      <4>1. CASE Sends(h)
        BY <4>1, <3>1, <3>3 DEF Sends, AnswerInv
      <4>2. CASE ClientGone(h)
        <5>1. answered' = [answered EXCEPT ![h] = <<>>]
          BY <4>2, <3>1 DEF ClientGone, AnswerInv
        <5>2. hand' = [hand EXCEPT ![h] = u] \/ hand' = [hand EXCEPT ![h] = w]
          BY <4>2 DEF ClientGone
        <5> QED BY <5>1, <5>2
      <4> QED BY <2>7, <4>1, <4>2
    <3> HIDE DEF t, u, w
    <3> QED
      BY <3>2, <3>3, <3>4, OneMoves
  <2>8. CASE ThreadEnds(h)
    <3>1. <<>> \in Sent
      BY DEF Sent
    <3> HIDE DEF Idle
    <3> QED
      BY <2>8, <3>1, IdleIsFine, OneMoves DEF ThreadEnds
  <2> QED
    BY <1>3, <2>1, <2>2, <2>3, <2>4, <2>5, <2>6, <2>7, <2>8 DEF HandWork
<1> QED
  BY <1>1, <1>2, <1>3 DEF HandNext

(* _dispatch: whatever raises in a handler, a request whose client stays   *)
(* is answered, and no request is answered twice.                          *)
THEOREM AnswersOnce == HandSpec => []AnsweredOnce
<1>1. AnswerInv => AnsweredOnce
  <2>1. Len(<<>>) = 0 /\ \A c : Len(<<c>>) = 1
    OBVIOUS
  <2> SUFFICES ASSUME AnswerInv, NEW h \in Hands
               PROVE  /\ Len(answered[h]) <= 1
                      /\ hand[h].at = "over" /\ ~hand[h].gone => Len(answered[h]) = 1
    BY DEF AnsweredOnce
  <2>2. OneAnswer(hand[h], answered[h])
    BY DEF AnswerInv
  <2>3. CASE answered[h] = <<>>
    BY <2>1, <2>2, <2>3 DEF OneAnswer
  <2>4. CASE hand[h].at = "over" /\ answered[h] = <<hand[h].code>>
    BY <2>1, <2>4
  <2> QED
    BY <2>2, <2>3, <2>4 DEF OneAnswer
<1> QED
  BY AnswerInitially, AnswerInductive, <1>1, PTL DEF HandSpec

(* _get and _post: an answer of 200 hides no call that raised.             *)
THEOREM TellsFailures == HandSpec => []FailuresTold
<1>1. AnswerInv => FailuresTold
  <2>1. AnswerInv => \A h \in Hands : answered[h] = <<200>> => hand[h].at = "over" /\ hand[h].code = 200
    BY DEF AnswerInv, OneAnswer
  <2>2. AnswerInv => \A h \in Hands : Remembered(hand[h])
    BY DEF AnswerInv
  <2> QED
    BY <2>1, <2>2 DEF Remembered, FailuresTold
<1> QED
  BY AnswerInitially, AnswerInductive, <1>1, PTL DEF HandSpec
-----------------------------------------------------------------------------
(* The lock of the database.  What a thread has left to do is bracketed:   *)
(* between a lock and its unlock there are only queries, which give the    *)
(* lock back when they raise.                                              *)
Queried(todo, i, j) == todo[j] = "unlock" /\ \A k \in i .. j - 1 : todo[k] = "query"
Inside(todo) == \E j \in DOMAIN todo : Queried(todo, 1, j)
Brackets(todo) ==
    \A i \in DOMAIN todo : todo[i] = "lock" =>
        \E j \in DOMAIN todo : i < j /\ Queried(todo, i + 1, j)

BracketInv ==
    \A h \in Hands :
        /\ Brackets(hand[h].todo)
        /\ dblock = h => hand[h].at = "work" /\ Inside(hand[h].todo)

\* A connection is bracketed, and so is what consists of bracketed parts.
LEMMA BracketsJoin ==
    ASSUME NEW s \in Seq(HandSteps), NEW t \in Seq(HandSteps), Brackets(s), Brackets(t)
    PROVE  Brackets(s \o t)
<1> SUFFICES ASSUME NEW i \in DOMAIN (s \o t), (s \o t)[i] = "lock"
             PROVE  \E j \in DOMAIN (s \o t) : i < j /\ Queried(s \o t, i + 1, j)
  BY DEF Brackets
<1>1. /\ Len(s) \in Nat /\ Len(t) \in Nat /\ i \in 1 .. Len(s) + Len(t)
      /\ DOMAIN s = 1 .. Len(s) /\ DOMAIN t = 1 .. Len(t)
      /\ DOMAIN (s \o t) = 1 .. Len(s) + Len(t)
      /\ \A k \in 1 .. Len(s) : (s \o t)[k] = s[k]
      /\ \A k \in 1 .. Len(t) : (s \o t)[Len(s) + k] = t[k]
  OBVIOUS
<1>2. CASE i \in 1 .. Len(s)
  <2>1. PICK j \in DOMAIN s : i < j /\ Queried(s, i + 1, j)
    BY <1>1, <1>2 DEF Brackets
  <2>2. Queried(s \o t, i + 1, j)
    BY <1>1, <1>2, <2>1 DEF Queried
  <2> QED BY <1>1, <2>1, <2>2
<1>3. CASE i \notin 1 .. Len(s)
  <2> DEFINE n == i - Len(s)
  <2>1. n \in 1 .. Len(t) /\ i = Len(s) + n /\ t[n] = "lock"
    BY <1>1, <1>3
  <2>2. PICK j \in DOMAIN t : n < j /\ Queried(t, n + 1, j)
    BY <1>1, <2>1 DEF Brackets
  <2>3. \A k \in i + 1 .. (Len(s) + j) - 1 : (s \o t)[k] = "query"
    <3> SUFFICES ASSUME NEW k \in i + 1 .. (Len(s) + j) - 1 PROVE (s \o t)[k] = "query"
      OBVIOUS
    <3>0. n \in Nat /\ j \in Nat /\ j <= Len(t) /\ 1 <= n
      BY <1>1, <2>1, <2>2
    <3>1. k - Len(s) \in n + 1 .. j - 1 /\ k - Len(s) \in 1 .. Len(t) /\ k = Len(s) + (k - Len(s))
      <4> HIDE DEF n
      <4> QED BY <1>1, <2>1, <3>0
    <3> QED BY <1>1, <2>2, <3>1 DEF Queried
  <2>4. Queried(s \o t, i + 1, Len(s) + j)
    BY <1>1, <2>2, <2>3 DEF Queried
  <2> QED BY <1>1, <2>1, <2>2, <2>4
<1> QED BY <1>2, <1>3

\* What _conn does is bracketed.
LEMMA ConnBrackets ==
    ASSUME NEW q \in Seq({"query"})
    PROVE  Conn(q) \in Seq(HandSteps) /\ Brackets(Conn(q))
<1> DEFINE a == <<"lock">> \o q
           c == a \o <<"unlock">>
           n == Len(q) + 2
<1>1. /\ Len(q) \in Nat /\ a \in Seq(HandSteps) /\ Len(a) = 1 + Len(q) /\ a[1] = "lock"
      /\ \A k \in 2 .. Len(q) + 1 : a[k] = "query"
  <2>1. q \in Seq(HandSteps) /\ <<"lock">> \in Seq(HandSteps) /\ Len(<<"lock">>) = 1
    BY DEF HandSteps
  <2>2. \A k \in 1 .. Len(q) : q[k] = "query" /\ a[1 + k] = q[k]
    OBVIOUS
  <2>3. \A k \in 2 .. Len(q) + 1 : k - 1 \in 1 .. Len(q) /\ k = 1 + (k - 1)
    OBVIOUS
  <2> QED BY <2>1, <2>2, <2>3
<1> HIDE DEF a
<1>2. /\ c \in Seq(HandSteps) /\ DOMAIN c = 1 .. n /\ c[n] = "unlock"
      /\ \A k \in 1 .. Len(q) + 1 : c[k] = a[k]
  <2>1. <<"unlock">> \in Seq(HandSteps)
    BY DEF HandSteps
  <2> QED BY <1>1, <2>1
<1> HIDE DEF c
<1>3. \A k \in 2 .. n - 1 : c[k] = "query"
  BY <1>1, <1>2
<1>4. Queried(c, 2, n) /\ 1 < n /\ n \in DOMAIN c
  BY <1>1, <1>2, <1>3 DEF Queried
<1>5. \A i \in DOMAIN c : c[i] = "lock" => i = 1
  BY <1>1, <1>2, <1>3
<1>6. Brackets(c)
  BY <1>4, <1>5 DEF Brackets
<1>7. Conn(q) = c
  BY <1>1 DEF Conn, c, a
<1> QED BY <1>2, <1>6, <1>7

\* All that a request leads to is bracketed.
LEMMA NeedsBrackets == \A path : Brackets(Needs(path))
<1>1. Brackets(<<>>) /\ Brackets(<<"immich">>) /\ Brackets(<<"cli">>)
  BY DEF Brackets
<1>2. <<"query">> \in Seq({"query"}) /\ <<"query", "query", "query">> \in Seq({"query"})
  OBVIOUS
<1>3. Snapshot \in Seq(HandSteps) /\ Brackets(Snapshot)
  BY <1>2, ConnBrackets DEF Snapshot
<1>4. Conn(<<"query">>) \in Seq(HandSteps) /\ Brackets(Conn(<<"query">>))
  BY <1>2, ConnBrackets
<1>5. <<"immich">> \in Seq(HandSteps)
  BY DEF HandSteps
<1> HIDE DEF Snapshot, Conn
<1>6. Snapshot \o Conn(<<"query">>) \in Seq(HandSteps)
  BY <1>3, <1>4
<1>7. Brackets(Snapshot \o Conn(<<"query">>))
  BY <1>3, <1>4, BracketsJoin
<1>8. Brackets((Snapshot \o Conn(<<"query">>)) \o <<"immich">>)
  BY <1>1, <1>5, <1>6, <1>7, BracketsJoin
<1>9. Brackets(<<"immich">> \o Snapshot)
  BY <1>1, <1>3, <1>5, BracketsJoin
<1> QED BY <1>1, <1>4, <1>8, <1>9 DEF Needs

\* After the next call the rest is bracketed; a lock opens a bracket, and only
\* queries leave it open.
LEMMA RestBrackets ==
    ASSUME NEW s \in Seq(HandSteps), s # <<>>, Brackets(s)
    PROVE  /\ Brackets(Tail(s))
           /\ Head(s) = "lock" => Inside(Tail(s))
           /\ Inside(s) => Head(s) \in {"query", "unlock"}
           /\ Inside(s) /\ Head(s) = "query" => Inside(Tail(s))
<1> DEFINE t == Tail(s)
<1>1. /\ Len(s) \in Nat \ {0} /\ DOMAIN s = 1 .. Len(s) /\ DOMAIN t = 1 .. Len(s) - 1
      /\ \A k \in 1 .. Len(s) - 1 : t[k] = s[k + 1]
      /\ Head(s) = s[1]
  OBVIOUS
<1> HIDE DEF t
<1>2. ASSUME NEW i \in 0 .. Len(s), NEW j \in DOMAIN s, i < j, 1 < j, Queried(s, i + 1, j)
      PROVE  j - 1 \in DOMAIN t /\ Queried(t, IF i = 0 THEN 1 ELSE i, j - 1)
  BY <1>1, <1>2 DEF Queried
<1>3. Brackets(t)
  <2> SUFFICES ASSUME NEW i \in DOMAIN t, t[i] = "lock"
               PROVE  \E j \in DOMAIN t : i < j /\ Queried(t, i + 1, j)
    BY DEF Brackets
  <2>1. i + 1 \in DOMAIN s /\ s[i + 1] = "lock" /\ i + 1 \in 0 .. Len(s) /\ i + 1 # 0
    BY <1>1
  <2>2. PICK j \in DOMAIN s : i + 1 < j /\ Queried(s, (i + 1) + 1, j)
    BY <2>1 DEF Brackets
  <2>3. j - 1 \in DOMAIN t /\ Queried(t, i + 1, j - 1) /\ i < j - 1
    BY <1>1, <1>2, <2>1, <2>2
  <2> QED BY <2>3
<1>4. ASSUME Head(s) = "lock" PROVE Inside(t)
  <2>1. PICK j \in DOMAIN s : 1 < j /\ Queried(s, 1 + 1, j)
    BY <1>1, <1>4 DEF Brackets
  <2>2. j - 1 \in DOMAIN t /\ Queried(t, 1, j - 1)
    BY <1>1, <1>2, <2>1
  <2> QED BY <2>2 DEF Inside
<1>5. ASSUME Inside(s) PROVE Head(s) \in {"query", "unlock"} /\ (Head(s) = "query" => Inside(t))
  <2>1. PICK j \in DOMAIN s : Queried(s, 1, j)
    BY <1>5 DEF Inside
  <2>2. CASE j = 1
    BY <1>1, <2>1, <2>2 DEF Queried
  <2>3. CASE j > 1
    <3>1. Head(s) = "query"
      BY <1>1, <2>1, <2>3 DEF Queried
    <3>2. j - 1 \in DOMAIN t /\ Queried(t, 1, j - 1)
      BY <1>1, <1>2, <2>1, <2>3
    <3> QED BY <3>1, <3>2 DEF Inside
  <2> QED BY <1>1, <2>1, <2>2, <2>3
<1> QED BY <1>3, <1>4, <1>5 DEF t

\* A step of one thread keeps the brackets if it keeps its own.
LEMMA OneBrackets ==
    ASSUME AnswerInv, BracketInv, NEW h \in Hands, NEW s,
           hand' = [hand EXCEPT ![h] = s], Brackets(s.todo),
           dblock' \in {dblock, h, NoHand},
           dblock' = h => s.at = "work" /\ Inside(s.todo)
    PROVE  BracketInv'
<1>1. ASSUME NEW g \in Hands
      PROVE  /\ Brackets(hand'[g].todo)
             /\ dblock' = g => hand'[g].at = "work" /\ Inside(hand'[g].todo)
  <2>1. hand'[g] = IF g = h THEN s ELSE hand[g]
    BY DEF AnswerInv
  <2>2. g # NoHand
    BY HandAssumption
  <2>3. CASE g = h
    BY <2>1, <2>3
  <2>4. CASE g # h
    BY <2>1, <2>2, <2>4 DEF BracketInv
  <2> QED BY <2>3, <2>4
<1> QED BY <1>1 DEF BracketInv

\* Initially nobody has anything to do.
LEMMA BracketInitially == HandInit => BracketInv
<1> SUFFICES ASSUME HandInit, NEW h \in Hands PROVE Brackets(hand[h].todo) /\ dblock # h
  BY DEF BracketInv
<1>1. hand[h] = Idle /\ dblock = NoHand
  BY DEF HandInit
<1>2. Idle.todo = <<>>
  BY DEF Idle
<1> QED BY <1>1, <1>2, HandAssumption DEF Brackets

\* Every step keeps the brackets.
LEMMA BracketInductive == AnswerInv /\ BracketInv /\ [HandNext]_handVars => BracketInv'
<1> SUFFICES ASSUME AnswerInv, BracketInv, [HandNext]_handVars PROVE BracketInv'
  OBVIOUS
<1>1. CASE UNCHANGED handVars
  BY <1>1 DEF handVars, BracketInv
<1>2. CASE IngestLock
  BY <1>2, HandAssumption DEF IngestLock, BracketInv
<1>3. ASSUME NEW h \in Hands, AcceptRequest(h) \/ TakesLock(h) \/ HandWork(h) PROVE BracketInv'
  <2> DEFINE s == hand[h]
  <2>0. /\ s \in States /\ s.todo \in Seq(HandSteps) /\ Brackets(s.todo)
        /\ dblock = h => s.at = "work" /\ Inside(s.todo)
        /\ h # NoHand
    BY HandAssumption DEF AnswerInv, BracketInv, States
  <2>1. CASE AcceptRequest(h)
    <3>1. PICK req \in Asked : hand' = [hand EXCEPT ![h] = [Idle EXCEPT !.at = "access", !.req = req]]
      BY <2>1 DEF AcceptRequest
    <3> DEFINE t == [Idle EXCEPT !.at = "access", !.req = req]
    <3>2. Brackets(t.todo)
      BY DEF Idle, Brackets
    <3>3. dblock' = dblock /\ dblock # h
      BY <2>0, <2>1 DEF AcceptRequest
    <3> HIDE DEF t
    <3> QED BY <3>1, <3>2, <3>3, OneBrackets DEF t
  <2>2. CASE CheckAccess(h)
    <3> DEFINE t == [s EXCEPT !.at = "send", !.code = RefusedWith(s.req)]
               u == [s EXCEPT !.at = "work", !.todo = Needs(s.req.path)]
    <3>1. dblock' = dblock /\ dblock # h
      BY <2>0, <2>2 DEF CheckAccess
    <3>2. t.todo = s.todo /\ u.todo = Needs(s.req.path)
      BY <2>0 DEF States
    <3>3. Brackets(t.todo) /\ Brackets(u.todo)
      BY <2>0, <3>2, NeedsBrackets
    <3>4. hand' = [hand EXCEPT ![h] = t] \/ hand' = [hand EXCEPT ![h] = u]
      BY <2>2 DEF CheckAccess
    <3> HIDE DEF t, u
    <3> QED BY <3>1, <3>3, <3>4, OneBrackets
  <2>3. CASE TakesLock(h) \/ FreesLock(h) \/ CallReturns(h)
    <3> DEFINE t == [s EXCEPT !.todo = Tail(@)]
    <3>1. s.at = "work" /\ s.todo # <<>> /\ hand' = [hand EXCEPT ![h] = t]
      BY <2>3 DEF TakesLock, FreesLock, CallReturns, AboutTo
    <3>2. t.at = "work" /\ t.todo = Tail(s.todo)
      BY <2>0, <3>1 DEF States
    <3>3. Brackets(t.todo)
      BY <2>0, <3>1, <3>2, RestBrackets
    <3>4. dblock' \in {dblock, h, NoHand} /\ (dblock' = h => Inside(t.todo))
      <4>1. CASE TakesLock(h)
        BY <2>0, <3>1, <3>2, <4>1, RestBrackets DEF TakesLock, AboutTo
      <4>2. CASE FreesLock(h)
        BY <2>0, <4>2 DEF FreesLock
      <4>3. CASE CallReturns(h)
        <5>1. dblock' = dblock /\ Head(s.todo) \in {"query", "immich"}
          BY <4>3 DEF CallReturns, AboutTo
        <5>2. Inside(s.todo) => Inside(Tail(s.todo))
          BY <2>0, <3>1, <5>1, RestBrackets
        <5> QED BY <2>0, <3>2, <5>1, <5>2
      <4> QED BY <2>3, <4>1, <4>2, <4>3
    <3> HIDE DEF t
    <3> QED BY <3>1, <3>2, <3>3, <3>4, OneBrackets
  <2>4. CASE CallRaises(h)
    <3>1. PICK call \in {"query", "immich", "cli"}, exc \in {"SystemExit", "Exception"} :
            /\ AboutTo(h, call)
            /\ hand' = [hand EXCEPT ![h] = [Handled(@, call, exc) EXCEPT !.raised = TRUE]]
            /\ dblock' = IF call = "query" THEN NoHand ELSE dblock
      BY <2>4 DEF CallRaises, Exceptions
    <3> DEFINE t == [Handled(s, call, exc) EXCEPT !.raised = TRUE]
    <3>2. s.at = "work" /\ s.todo # <<>> /\ Head(s.todo) = call
      BY <3>1 DEF AboutTo
    <3>3. dblock' \in {dblock, NoHand} /\ dblock' # h
      BY <2>0, <3>1, <3>2, RestBrackets
    <3>4. t.todo \in {s.todo, Tail(s.todo)}
      BY <2>0 DEF Handled, States
    <3>5. Brackets(t.todo)
      BY <2>0, <3>2, <3>4, RestBrackets
    <3>6. hand' = [hand EXCEPT ![h] = t]
      BY <3>1
    <3> HIDE DEF t
    <3> QED BY <3>3, <3>5, <3>6, OneBrackets
  <2>5. CASE CliReturns(h)
    <3> DEFINE t == [s EXCEPT !.todo = <<>>]
               u == [s EXCEPT !.at = "send", !.code = 502, !.raised = TRUE]
    <3>1. s.todo # <<>> /\ Head(s.todo) = "cli" /\ dblock' = dblock
      BY <2>5 DEF CliReturns, AboutTo
    <3>2. dblock # h
      BY <2>0, <3>1, RestBrackets
    <3>3. t.todo = <<>> /\ u.todo = s.todo
      BY <2>0 DEF States
    <3>4. Brackets(t.todo) /\ Brackets(u.todo)
      BY <2>0, <3>3 DEF Brackets
    <3>5. hand' = [hand EXCEPT ![h] = t] \/ hand' = [hand EXCEPT ![h] = u]
      BY <2>5 DEF CliReturns
    <3> HIDE DEF t, u
    <3> QED BY <3>1, <3>2, <3>4, <3>5, OneBrackets
  <2>6. CASE Answers(h) \/ Sends(h) \/ ClientGone(h)
    <3>1. dblock' = dblock /\ dblock # h
      <4>1. CASE Answers(h)
        BY <2>0, <4>1 DEF Answers, Inside
      <4>2. CASE Sends(h) \/ ClientGone(h)
        BY <2>0, <4>2 DEF Sends, ClientGone
      <4> QED BY <2>6, <4>1, <4>2
    <3> DEFINE t == [s EXCEPT !.at = "send", !.code = Verdict(s)]
               u == [s EXCEPT !.at = "over"]
               v == [s EXCEPT !.at = "over", !.gone = TRUE]
               w == [s EXCEPT !.failed = TRUE, !.gone = TRUE]
    <3>2. t.todo = s.todo /\ u.todo = s.todo /\ v.todo = s.todo /\ w.todo = s.todo
      BY <2>0 DEF States
    <3>3. \/ hand' = [hand EXCEPT ![h] = t]
          \/ hand' = [hand EXCEPT ![h] = u]
          \/ hand' = [hand EXCEPT ![h] = v]
          \/ hand' = [hand EXCEPT ![h] = w]
      BY <2>6 DEF Answers, Sends, ClientGone
    <3> HIDE DEF t, u, v, w
    <3> QED BY <2>0, <3>1, <3>2, <3>3, OneBrackets
  <2>7. CASE ThreadEnds(h)
    <3>1. dblock' = dblock /\ dblock # h /\ hand' = [hand EXCEPT ![h] = Idle]
      BY <2>0, <2>7 DEF ThreadEnds
    <3>2. Brackets(Idle.todo)
      BY DEF Idle, Brackets
    <3> QED BY <3>1, <3>2, OneBrackets
  <2> QED
    BY <1>3, <2>1, <2>2, <2>3, <2>4, <2>5, <2>6, <2>7 DEF HandWork
<1> QED
  BY <1>1, <1>2, <1>3 DEF HandNext

(* _conn: the thread that holds the lock of the database is about to give  *)
(* it back, whatever raises, and asks for it no second time before.        *)
THEOREM LockReturns == HandSpec => []LockComesBack
<1>1. AnswerInv /\ BracketInv => LockComesBack
  <2> SUFFICES ASSUME AnswerInv, BracketInv, NEW h \in Hands, dblock = h
               PROVE  /\ hand[h].at = "work"
                      /\ \E i \in DOMAIN hand[h].todo :
                           hand[h].todo[i] = "unlock" /\ \A j \in 1 .. i : hand[h].todo[j] # "lock"
    BY DEF LockComesBack
  <2>1. hand[h].at = "work" /\ Inside(hand[h].todo) /\ hand[h].todo \in Seq(HandSteps)
    BY DEF AnswerInv, BracketInv, States
  <2>2. PICK i \in DOMAIN hand[h].todo : Queried(hand[h].todo, 1, i)
    BY <2>1 DEF Inside
  <2>3. i \in Nat /\ \A j \in 1 .. i : j = i \/ j \in 1 .. i - 1
    BY <2>1
  <2> QED BY <2>1, <2>2, <2>3 DEF Queried
<1> QED
  BY AnswerInitially, AnswerInductive, BracketInitially, BracketInductive, <1>1, PTL DEF HandSpec
=============================================================================
