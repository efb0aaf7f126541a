------------------------------- MODULE Lockout -------------------------------
(***************************************************************************)
(* _auth_ok of macmini/photo-share-monitor.py: the failed logins of each   *)
(* client in a sliding window.  Every request has a thread of its own; it  *)
(* reads the clock first and takes _auth_lock later.                       *)
(***************************************************************************)
EXTENDS Naturals, FiniteSets

CONSTANTS
    Clients,   \* client addresses
    Wrong,     \* wrong credentials, told apart by their digest
    Right,     \* the right one
    Limit,     \* LOCKOUT_FAILURES
    Window,    \* LOCKOUT_WINDOW
    MaxDelay,  \* bound: how long a thread waits between clock and lock
    MaxWaiting,\* bound: threads between clock and lock
    MaxClock   \* bound: time

ASSUME LockoutAssumption ==
    /\ Right \notin Wrong
    /\ Limit \in Nat \ {0}
    /\ {Window, MaxDelay, MaxWaiting, MaxClock} \subseteq Nat

VARIABLES
    clock,
    waiting,   \* requests whose thread has read the clock: [client, cred, now]
    failures,  \* _auth_failures of each client: [stamp, digest]
    counted    \* history: guesses counted since the last success: [stamp, digest]

authVars == <<clock, waiting, failures, counted>>

Credentials == Wrong \cup {Right}

Arrive(c, cred) ==
    /\ Cardinality(waiting) < MaxWaiting
    /\ waiting' = waiting \cup {[client |-> c, cred |-> cred, now |-> clock]}
    /\ UNCHANGED <<clock, failures, counted>>

\* Mutant: a window one short.
RecentlyShort(c, now) == {f \in failures[c] : now + 1 < f.stamp + Window}
\* now - stamp < LOCKOUT_WINDOW
Recent(c, now) == {f \in failures[c] : now < f.stamp + Window}

\* Mutant: a credential that is sent again counts again.
AlwaysNew(recent, cred) == TRUE
IsNew(recent, cred) == \A f \in recent : f.digest # cred

LockedOut(recent) == Cardinality(recent) >= Limit

\* Mutant: a request during a lockout renews it.
KeptRenewed(recent, q) == {[f EXCEPT !.stamp = q.now] : f \in recent}
Kept(recent, q) == recent

\* What happens under the lock.
Judge(q) ==
    LET recent == Recent(q.client, q.now)
        c == q.client
    IN /\ waiting' = waiting \ {q}
       /\ \/ /\ LockedOut(recent)
             /\ failures' = [failures EXCEPT ![c] = Kept(recent, q)]
             /\ UNCHANGED counted
          \/ /\ ~LockedOut(recent)
             /\ q.cred = Right
             /\ failures' = [failures EXCEPT ![c] = {}]
             /\ counted' = [counted EXCEPT ![c] = {}]
          \/ /\ ~LockedOut(recent)
             /\ q.cred # Right
             /\ IF IsNew(recent, q.cred)
                  THEN /\ failures' = [failures EXCEPT ![c] =
                            recent \cup {[stamp |-> q.now, digest |-> q.cred]}]
                       /\ counted' = [counted EXCEPT ![c] =
                            @ \cup {[stamp |-> q.now, digest |-> q.cred]}]
                  ELSE /\ failures' = [failures EXCEPT ![c] = recent]
                       /\ UNCHANGED counted
       /\ UNCHANGED clock

AuthTick ==
    /\ clock < MaxClock
    /\ \A q \in waiting : clock < q.now + MaxDelay
    /\ clock' = clock + 1
    /\ UNCHANGED <<waiting, failures, counted>>

AuthInit ==
    /\ clock = 0
    /\ waiting = {}
    /\ failures = [c \in Clients |-> {}]
    /\ counted = [c \in Clients |-> {}]

AuthNext ==
    \/ \E c \in Clients : \E cred \in Credentials : Arrive(c, cred)
    \/ \E q \in waiting : Judge(q)
    \/ AuthTick

AuthSpec == AuthInit /\ [][AuthNext]_authVars

-----------------------------------------------------------------------------
(* No more than LOCKOUT_FAILURES failures are ever kept for a client, each *)
(* of another credential ("counts as one failed guess") and none from the  *)
(* future: whatever order the threads take the lock in.                    *)
FailuresBounded ==
    \A c \in Clients :
        /\ Cardinality(failures[c]) <= Limit
        /\ \A f, g \in failures[c] : f.digest = g.digest => f = g
        /\ \A f \in failures[c] : f.stamp <= clock

\* One guess counted twice, a window apart, less the wait of a thread.
CountedAgain(x, y) == x.stamp + Window <= y.stamp + MaxDelay

(* Between two successes a client has at most LOCKOUT_FAILURES guesses     *)
(* counted in any LOCKOUT_WINDOW of the clocks that the threads read, less *)
(* the time a thread may wait for the lock; and a credential sent again    *)
(* counts once in it: "a stale browser tab replaying one old Basic         *)
(* credential counts as one failed guess", and so locks nobody out.        *)
GuessesBounded ==
    \A c \in Clients :
        /\ \A t \in 0 .. MaxClock :
             Cardinality({x \in counted[c] : t <= x.stamp /\ x.stamp + MaxDelay < t + Window}) <= Limit
        /\ \A x, y \in counted[c] :
             x.digest = y.digest /\ x.stamp < y.stamp => CountedAgain(x, y)

(* "Further requests do not extend it, so access is restored after the     *)
(* last counted distinct guess expires": a right credential is accepted    *)
(* unless a full set of counted guesses lies within the window before it.  *)
Restored ==
    [][\A q \in waiting \ waiting' :
         (q.cred = Right /\ LockedOut(failures'[q.client])) =>
            Cardinality({x \in counted[q.client] : q.now < x.stamp + Window}) >= Limit]_authVars
=============================================================================
