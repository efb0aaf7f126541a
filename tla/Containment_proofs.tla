------------------------- MODULE Containment_proofs -------------------------
(***************************************************************************)
(* For any addresses, configurations, first chains, faults and meddling,   *)
(* with one run at a time: what was contained stays so, an apply that      *)
(* reports success lets exactly its configuration through, and a run       *)
(* deletes its own rules only.  The argument: as long as nobody else       *)
(* touches the firewall, the top of the chain is what the run has put      *)
(* there (the guards, and above them the new rules so far), and the top    *)
(* decides all the traffic of the two bridges.                             *)
(***************************************************************************)
EXTENDS Containment, SequenceTheorems, WellFoundedInduction, TLAPS

\* The unit is a oneshot: systemd starts no second run beside the first.
OneRun == \A q, r \in Runs : q = r

\* The phases of a run: the guards are on top; the new rules are on top.
Held == {"probe", "find", "delete"}
Closing == {"findStage", "deleteStage", "done"}
Places == {"idle", "load", "new", "jump", "guard", "insert"} \cup Held \cup Closing

Locals == [act : {"none", "apply", "remove"}, new : Seq(Rules), todo : Seq(Rules), index : Nat,
           position : Nat \ {0}, removed : Nat, seen : Nat]

\* What holds of the variables of a run, disturbed or not.
RunTyped(r) ==
    /\ loc[r].seen <= meddles
    /\ pc[r] # "idle" => loc[r].act \in {"apply", "remove"}
    /\ pc[r] \in {"new", "jump", "guard", "insert"} => loc[r].todo # <<>>
    /\ pc[r] \notin {"idle", "load"} /\ loc[r].act = "apply" => loc[r].new # <<>>
    /\ pc[r] \in {"delete", "deleteStage"} => loc[r].index # 0

TypeOK ==
    /\ exists \in BOOLEAN /\ jump \in BOOLEAN
    /\ chain \in Seq(Rules)
    /\ config \in Configs
    /\ granted \in [Bridges -> SUBSET Addresses]
    /\ pc \in [Runs -> Places]
    /\ loc \in [Runs -> Locals]
    /\ meddles \in Nat
    /\ \A r \in Runs : RunTyped(r)

ReadGuard == Drop("stage", "read", "any")
UploadGuard == Drop("stage", "upload", "any")

\* What an apply installs: n rules that let addresses granted by g through, and
\* three that drop the rest.
Shape(new, g, n) ==
    /\ Len(new) = n + 3
    /\ \A i \in 1 .. n : \E b \in Bridges : \E a \in g[b] : new[i] = Allow(b, a)
    /\ new[n + 1] = Drop("tag", "any", "wg0")
    /\ new[n + 2] = Drop("tag", "read", "any")
    /\ new[n + 3] = Drop("tag", "upload", "any")
Ruled(new, g) == \E n \in Nat : Shape(new, g, n)

\* The first k rules are those of new, and the guards come next.
GuardsAt(k) ==
    /\ k + 2 <= Len(chain)
    /\ chain[k + 1] = UploadGuard
    /\ chain[k + 2] = ReadGuard
TopIs(new, k) == k <= Len(chain) /\ \A i \in 1 .. k : chain[i] = new[i]

Inserting(new, todo, k) ==
    /\ k \in Nat /\ todo # <<>>
    /\ Len(new) = k + Len(todo)
    /\ \A i \in 1 .. Len(todo) : todo[i] = new[k + i]
    /\ TopIs(new, k)
    /\ GuardsAt(k)

\* The top of the chain during an apply that nobody disturbs.
RunOK(r) ==
    loc[r].act = "apply" /\ loc[r].seen = meddles =>
        /\ pc[r] \in Places \ {"idle", "load"} => Ruled(loc[r].new, granted)
        /\ pc[r] \in {"guard", "insert"} \cup Held \cup Closing => jump
        /\ pc[r] \in {"new", "jump"} => loc[r].todo = Guards
        /\ pc[r] = "guard" =>
             \/ loc[r].todo = Guards
             \/ loc[r].todo = <<UploadGuard>> /\ 1 <= Len(chain) /\ chain[1] = ReadGuard
        /\ pc[r] \in Held => GuardsAt(0)
        /\ pc[r] = "insert" => Inserting(loc[r].new, loc[r].todo, loc[r].position - 1)
        /\ pc[r] \in Closing => TopIs(loc[r].new, Len(loc[r].new))

\* The index that a run has found is still that of such a rule.
IndexOK(r) ==
    loc[r].seen = meddles =>
        /\ pc[r] = "delete" => loc[r].index \in DOMAIN chain /\ Owned(chain[loc[r].index])
        /\ pc[r] = "deleteStage" => loc[r].index \in DOMAIN chain /\ Staged(chain[loc[r].index])

ChainInv == TypeOK /\ \A r \in Runs : RunOK(r) /\ IndexOK(r)

-----------------------------------------------------------------------------
(* Lemmas about the operators of the model.                                *)

\* A set of numbers has a least one.
LEMMA LeastNumber ==
    ASSUME NEW T \in SUBSET Nat, T # {}
    PROVE  \E m \in T : \A n \in T : m <= n
<1>1. PICK m \in T : \A n \in T : ~(<<n, m>> \in OpToRel(<, Nat))
  BY NatLessThanWellFounded, WFMin
<1>2. \A n \in T : ~(n < m)
  BY <1>1 DEF OpToRel
<1> QED BY <1>2

\* SelectInSeq finds what it looks for.
LEMMA FoundOwned ==
    ASSUME chain \in Seq(Rules), OwnedIndex # 0
    PROVE  OwnedIndex \in DOMAIN chain /\ Owned(chain[OwnedIndex])
<1> DEFINE I == {i \in 1 .. Len(chain) : Owned(chain[i])}
<1>1. I # {} /\ OwnedIndex = Min(I)
  BY DEF OwnedIndex, SelectInSeq
<1>2. \E m \in I : \A n \in I : m <= n
  <2>1. I \in SUBSET Nat
    OBVIOUS
  <2> HIDE DEF I
  <2> QED BY <1>1, <2>1, LeastNumber
<1>3. Min(I) \in I
  BY <1>2 DEF Min
<1> QED BY <1>1, <1>3

\* The same of a guard.
LEMMA FoundStaged ==
    ASSUME chain \in Seq(Rules), SelectInSeq(chain, Staged) # 0
    PROVE  SelectInSeq(chain, Staged) \in DOMAIN chain /\ Staged(chain[SelectInSeq(chain, Staged)])
<1> DEFINE I == {i \in 1 .. Len(chain) : Staged(chain[i])}
<1>1. I # {} /\ SelectInSeq(chain, Staged) = Min(I)
  BY DEF SelectInSeq
<1>2. \E m \in I : \A n \in I : m <= n
  <2>1. I \in SUBSET Nat
    OBVIOUS
  <2> HIDE DEF I
  <2> QED BY <1>1, <2>1, LeastNumber
<1>3. Min(I) \in I
  BY <1>2 DEF Min
<1> QED BY <1>1, <1>3

\* What is where after an insertion, and after a deletion.
LEMMA InsertedAt ==
    ASSUME NEW S, NEW s \in Seq(S), NEW e \in S, NEW i \in 1 .. Len(s) + 1
    PROVE  /\ InsertAt(s, i, e) \in Seq(S)
           /\ Len(InsertAt(s, i, e)) = Len(s) + 1
           /\ \A j \in 1 .. i - 1 : InsertAt(s, i, e)[j] = s[j]
           /\ InsertAt(s, i, e)[i] = e
           /\ \A j \in i .. Len(s) : InsertAt(s, i, e)[j + 1] = s[j]
<1> DEFINE u == SubSeq(s, 1, i - 1)
           v == SubSeq(s, i, Len(s))
<1>1. /\ Len(s) \in Nat /\ i \in Nat
      /\ u \in Seq(S) /\ Len(u) = i - 1 /\ \A j \in 1 .. i - 1 : u[j] = s[j]
      /\ v \in Seq(S) /\ Len(v) = Len(s) - i + 1 /\ \A j \in 1 .. Len(v) : v[j] = s[i + j - 1]
  OBVIOUS
<1> HIDE DEF u, v
<1>2. /\ u \o <<e>> \in Seq(S) /\ Len(u \o <<e>>) = i
      /\ \A j \in 1 .. i - 1 : (u \o <<e>>)[j] = s[j]
      /\ (u \o <<e>>)[i] = e
  <2>1. <<e>> \in Seq(S) /\ Len(<<e>>) = 1 /\ <<e>>[1] = e
    OBVIOUS
  <2> DEFINE x == <<e>>
  <2> HIDE DEF x
  <2>2. /\ u \o x \in Seq(S) /\ Len(u \o x) = Len(u) + Len(x)
        /\ \A j \in 1 .. Len(u) + Len(x) : (u \o x)[j] = IF j <= Len(u) THEN u[j] ELSE x[j - Len(u)]
    BY <1>1, <2>1, ConcatProperties DEF x
  <2>3. Len(x) = 1 /\ x[1] = e
    BY <2>1 DEF x
  <2>4. Len(u \o x) = i /\ \A j \in 1 .. i - 1 : (u \o x)[j] = s[j]
    BY <1>1, <2>2, <2>3
  <2>5. (u \o x)[i] = x[1]
    <3>1. i \in 1 .. Len(u) + Len(x) /\ ~(i <= Len(u)) /\ i - Len(u) = 1
      BY <1>1, <2>3
    <3> QED BY <2>2, <3>1
  <2> QED BY <2>2, <2>3, <2>4, <2>5 DEF x
<1>3. /\ (u \o <<e>>) \o v \in Seq(S) /\ Len((u \o <<e>>) \o v) = Len(s) + 1
      /\ \A j \in 1 .. i : ((u \o <<e>>) \o v)[j] = (u \o <<e>>)[j]
      /\ \A j \in 1 .. Len(v) : ((u \o <<e>>) \o v)[i + j] = v[j]
  <2> DEFINE w == u \o <<e>>
  <2>1. w \in Seq(S) /\ Len(w) = i
    BY <1>2
  <2> HIDE DEF w
  <2>2. /\ w \o v \in Seq(S) /\ Len(w \o v) = i + (Len(s) - i + 1)
        /\ \A j \in 1 .. i + Len(v) : (w \o v)[j] = IF j <= i THEN w[j] ELSE v[j - i]
    <3>1. v \in Seq(S) /\ Len(v) = Len(s) - i + 1 /\ i + Len(v) = i + (Len(s) - i + 1)
      BY <1>1
    <3>2. /\ w \o v \in Seq(S) /\ Len(w \o v) = Len(w) + Len(v)
          /\ \A j \in 1 .. Len(w) + Len(v) : (w \o v)[j] = IF j <= Len(w) THEN w[j] ELSE v[j - Len(w)]
      BY <2>1, <3>1, ConcatProperties
    <3> QED BY <2>1, <3>1, <3>2
  <2>3. /\ w \o v \in Seq(S) /\ Len(w \o v) = Len(s) + 1
        /\ \A j \in 1 .. i : (w \o v)[j] = w[j]
    BY <1>1, <2>2
  <2>4. ASSUME NEW j \in 1 .. Len(v) PROVE (w \o v)[i + j] = v[j]
    <3>1. i + j \in 1 .. i + Len(v) /\ ~(i + j <= i) /\ (i + j) - i = j
      BY <1>1
    <3> QED BY <2>2, <3>1
  <2> QED BY <2>3, <2>4 DEF w
<1>4. \A j \in i .. Len(s) : ((u \o <<e>>) \o v)[j + 1] = s[j]
  <2> SUFFICES ASSUME NEW j \in i .. Len(s) PROVE ((u \o <<e>>) \o v)[j + 1] = s[j]
    OBVIOUS
  <2>1. j - i + 1 \in 1 .. Len(v) /\ i + (j - i + 1) = j + 1 /\ i + (j - i + 1) - 1 = j
    BY <1>1
  <2>2. ((u \o <<e>>) \o v)[i + (j - i + 1)] = v[j - i + 1]
    BY <1>3, <2>1
  <2>3. v[j - i + 1] = s[i + (j - i + 1) - 1]
    BY <1>1, <2>1
  <2> QED BY <2>1, <2>2, <2>3
<1>5. InsertAt(s, i, e) = (u \o <<e>>) \o v
  BY DEF InsertAt, u, v
<1> QED BY <1>1, <1>2, <1>3, <1>4, <1>5

\* What a deletion leaves before its place.
LEMMA RemovedAt ==
    ASSUME NEW S, NEW s \in Seq(S), NEW i \in 1 .. Len(s)
    PROVE  /\ RemoveAt(s, i) \in Seq(S)
           /\ Len(RemoveAt(s, i)) = Len(s) - 1
           /\ \A j \in 1 .. i - 1 : RemoveAt(s, i)[j] = s[j]
<1> DEFINE u == SubSeq(s, 1, i - 1)
           v == SubSeq(s, i + 1, Len(s))
<1>1. /\ Len(s) \in Nat /\ i \in Nat
      /\ u \in Seq(S) /\ Len(u) = i - 1 /\ \A j \in 1 .. i - 1 : u[j] = s[j]
      /\ v \in Seq(S) /\ Len(v) = Len(s) - i
  OBVIOUS
<1> HIDE DEF u, v
<1>2. /\ u \o v \in Seq(S) /\ Len(u \o v) = Len(s) - 1
      /\ \A j \in 1 .. i - 1 : (u \o v)[j] = s[j]
  <2>1. /\ u \o v \in Seq(S) /\ Len(u \o v) = Len(u) + Len(v)
        /\ \A j \in 1 .. Len(u) + Len(v) : (u \o v)[j] = IF j <= Len(u) THEN u[j] ELSE v[j - Len(u)]
    BY <1>1, ConcatProperties
  <2>2. Len(u) + Len(v) = Len(s) - 1
    BY <1>1
  <2>3. ASSUME NEW j \in 1 .. i - 1 PROVE (u \o v)[j] = s[j]
    <3>1. j \in 1 .. Len(u) + Len(v) /\ j <= Len(u)
      BY <1>1
    <3> QED BY <1>1, <2>1, <3>1
  <2> QED BY <2>1, <2>2, <2>3
<1> QED BY <1>2 DEF RemoveAt, u, v

\* The rules are rules.
LEMMA RulesAreRules ==
    /\ \A b \in Bridges, a \in Addresses : Allow(b, a) \in Rules
    /\ \A o \in {"tag", "stage", "other"}, b \in Bridges \cup {"any", "nobody"}, t \in {"wg0", "any"} :
         Drop(o, b, t) \in Rules
    /\ Alien \in Rules /\ ReadGuard \in Rules /\ UploadGuard \in Rules
    /\ Guards = <<ReadGuard, UploadGuard>> /\ Guards \in Seq(Rules)
BY DEF Allow, Drop, Alien, ReadGuard, UploadGuard, Guards, Rules, Bridges

\* Granting more leaves what was installed granted.
LEMMA ShapeKept ==
    ASSUME NEW new, Ruled(new, granted), granted \in [Bridges -> SUBSET Addresses],
           \A b \in Bridges : granted[b] \subseteq granted'[b]
    PROVE  Ruled(new, granted')
BY DEF Ruled, Shape

\* What load_config and the allowlist make of a usable configuration.
LEMMA RulesOfConfig ==
    ASSUME TypeOK, Usable(config),
           granted' = [b \in Bridges |-> granted[b] \cup
                        {x.dst : x \in {y \in ToSet(Allowlist(config)) : y.from = b}}]
    PROVE  /\ NewRules(config) \in Seq(Rules)
           /\ granted' \in [Bridges -> SUBSET Addresses]
           /\ Ruled(NewRules(config), granted')
<1> DEFINE A == Allowlist(config)
           D == <<Drop("tag", "any", "wg0"), Drop("tag", "read", "any"), Drop("tag", "upload", "any")>>
<1>1. config.nas \in Addresses /\ (Uploads(config) => config.upload \in Addresses)
  <2>1. config \in [nas : Addresses \cup {NoAddress}, upload : Addresses \cup {NoAddress},
                    mode : {"on", "off", "auto"}]
    BY ContainmentAssumption DEF TypeOK
  <2> QED BY <2>1 DEF Usable, Uploads
<1>2. PICK n \in {1, 2} :
        /\ A \in Seq(Rules) /\ Len(A) = n
        /\ \A i \in 1 .. n : \E b \in Bridges : \E a \in Addresses : A[i] = Allow(b, a)
  <2>0. "read" \in Bridges /\ "upload" \in Bridges
    BY DEF Bridges
  <2>1. CASE Uploads(config)
    <3> DEFINE x == Allow("read", config.nas)
               y == Allow("upload", config.upload)
    <3>1. x \in Rules /\ y \in Rules
      BY <1>1, <2>0, <2>1, RulesAreRules
    <3>2. A = <<x>> \o <<y>>
      BY <2>1 DEF Allowlist
    <3>3. A \in Seq(Rules) /\ Len(A) = 2 /\ A[1] = x /\ A[2] = y
      <4> HIDE DEF x, y, A
      <4> QED BY <3>1, <3>2
    <3> HIDE DEF A
    <3> QED BY <1>1, <2>0, <2>1, <3>3
  <2>2. CASE ~Uploads(config)
    <3> DEFINE x == Allow("read", config.nas)
    <3>1. x \in Rules
      BY <1>1, <2>0, RulesAreRules
    <3>2. A = <<x>> \o <<>>
      BY <2>2 DEF Allowlist
    <3>3. A \in Seq(Rules) /\ Len(A) = 1 /\ A[1] = x
      <4> HIDE DEF x, A
      <4> QED BY <3>1, <3>2
    <3> HIDE DEF A
    <3> QED BY <1>1, <2>0, <3>3
  <2> QED BY <2>1, <2>2
<1>3. D \in Seq(Rules) /\ Len(D) = 3 /\ NewRules(config) = A \o D
  BY RulesAreRules DEF NewRules, Bridges
<1>4. /\ D[1] = Drop("tag", "any", "wg0")
      /\ D[2] = Drop("tag", "read", "any") /\ D[3] = Drop("tag", "upload", "any")
  OBVIOUS
<1>5. /\ A \o D \in Seq(Rules) /\ Len(A \o D) = n + 3
      /\ \A i \in 1 .. n : (A \o D)[i] = A[i]
      /\ (A \o D)[n + 1] = D[1] /\ (A \o D)[n + 2] = D[2] /\ (A \o D)[n + 3] = D[3]
  <2> HIDE DEF A, D
  <2>1. /\ A \o D \in Seq(Rules) /\ Len(A \o D) = n + 3
        /\ \A i \in 1 .. n + 3 : (A \o D)[i] = IF i <= n THEN A[i] ELSE D[i - n]
    <3>1. A \in Seq(Rules) /\ D \in Seq(Rules) /\ Len(A) = n /\ Len(D) = 3
      BY <1>2, <1>3
    <3>2. /\ A \o D \in Seq(Rules) /\ Len(A \o D) = Len(A) + Len(D)
          /\ \A i \in 1 .. Len(A) + Len(D) : (A \o D)[i] = IF i <= Len(A) THEN A[i] ELSE D[i - Len(A)]
      BY <3>1, ConcatProperties
    <3> QED BY <3>1, <3>2
  <2> QED BY <1>2, <2>1
<1>6. \A i \in 1 .. n : \E b \in Bridges : \E a \in granted'[b] : A[i] = Allow(b, a)
  <2> SUFFICES ASSUME NEW i \in 1 .. n, NEW b \in Bridges, NEW a \in Addresses, A[i] = Allow(b, a)
               PROVE  a \in granted'[b]
    BY <1>2
  <2>1. A[i] \in ToSet(A)
    <3> HIDE DEF A
    <3> QED BY <1>2 DEF ToSet
  <2>2. A[i].from = b /\ A[i].dst = a
    BY DEF Allow
  <2> HIDE DEF A
  <2>3. a \in {x.dst : x \in {y \in ToSet(A) : y.from = b}}
    BY <2>1, <2>2
  <2> QED BY <2>3 DEF A
<1>7. granted' \in [Bridges -> SUBSET Addresses]
  <2> SUFFICES ASSUME NEW b \in Bridges, NEW x \in ToSet(A) PROVE x.dst \in Addresses
    BY DEF TypeOK
  <2>1. PICK i \in 1 .. n : x = A[i]
    <3> HIDE DEF A
    <3> QED BY <1>2 DEF ToSet
  <2> QED BY <1>2, <2>1 DEF Allow
<1>8. Shape(NewRules(config), granted', n)
  <2> HIDE DEF A, D
  <2>1. n \in Nat
    BY <1>2
  <2> DEFINE t == A \o D
  <2>2. /\ Len(t) = n + 3 /\ \A i \in 1 .. n : t[i] = A[i]
        /\ t[n + 1] = Drop("tag", "any", "wg0") /\ t[n + 2] = Drop("tag", "read", "any")
        /\ t[n + 3] = Drop("tag", "upload", "any")
    BY <1>4, <1>5
  <2>3. NewRules(config) = t
    BY <1>3
  <2> HIDE DEF t
  <2>4. ASSUME NEW i \in 1 .. n PROVE \E b \in Bridges : \E a \in granted'[b] : t[i] = Allow(b, a)
    <3>1. t[i] = A[i]
      BY <2>2
    <3> QED BY <1>6, <3>1
  <2>5. Shape(t, granted', n)
    BY <2>2, <2>4 DEF Shape
  <2> QED BY <2>3, <2>5
<1> QED BY <1>2, <1>3, <1>5, <1>7, <1>8 DEF Ruled
-----------------------------------------------------------------------------
(* The top of the chain decides.                                           *)

Dropped(s, p) ==
    \E i \in DOMAIN s : /\ s[i].verdict = "DROP"
                        /\ Matches(s[i], p)
                        /\ \A j \in 1 .. (i - 1) : ~Matches(s[j], p)

\* A packet that a rule drops, and that no rule before it accepts, is dropped.
LEMMA DroppedBy ==
    ASSUME NEW s \in Seq(Rules), NEW p, NEW m \in 1 .. Len(s), Matches(s[m], p),
           \A i \in 1 .. m : Matches(s[i], p) => s[i].verdict = "DROP"
    PROVE  Dropped(s, p)
<1> DEFINE T == {i \in 1 .. m : Matches(s[i], p)}
<1>1. T \in SUBSET Nat /\ T # {}
  BY DEF T
<1>2. PICK i \in T : \A j \in T : i <= j
  <2> HIDE DEF T
  <2> QED BY <1>1, LeastNumber
<1>3. i \in DOMAIN s /\ i \in 1 .. m /\ Matches(s[i], p)
  BY <1>2
<1>4. ASSUME NEW j \in 1 .. (i - 1) PROVE ~Matches(s[j], p)
  <2>1. j \in 1 .. m /\ ~(i <= j)
    BY <1>3
  <2> QED BY <1>2, <2>1
<1> QED BY <1>3, <1>4 DEF Dropped

\* Who a rule of the allowlist lets through.
LEMMA AllowMatches ==
    ASSUME NEW b \in Bridges, NEW a \in Addresses, NEW c, NEW p \in Packets(c)
    PROVE  /\ Matches(Allow(b, a), p) <=> b = c /\ p.to = "wg0" /\ p.dst = a
           /\ Allow(b, a).verdict = "ACCEPT"
BY ContainmentAssumption DEF Allow, Matches, Packets, Bridges

\* Whom a rule of the three others stops.
LEMMA DropMatches ==
    ASSUME NEW c, NEW p \in Packets(c)
    PROVE  /\ \A o, b : Matches(Drop(o, b, "any"), p) <=> b \in {"any", c}
           /\ \A o : Matches(Drop(o, "any", "wg0"), p) <=> p.to = "wg0"
           /\ \A o, b, t : Drop(o, b, t).verdict = "DROP" /\ Drop(o, b, t).owner = o
BY DEF Drop, Matches, Packets

\* What a packet of a bridge may be.
Granted(g, b, p) == p.to = "wg0" /\ p.dst \in g[b]
Grants == [Bridges -> SUBSET Addresses]

\* Behind some of the new rules, a rule that stops the bridge stops all that
\* was not granted.
LEMMA StoppedBehind ==
    ASSUME NEW g \in Grants, NEW new, NEW k \in Nat, Ruled(new, g), k <= Len(new),
           NEW s \in Seq(Rules), NEW m \in 1 .. Len(s),
           \A i \in 1 .. k : i < m => s[i] = new[i],
           \A i \in k + 1 .. m : s[i].verdict = "DROP",
           NEW b \in Bridges, NEW p \in Packets(b), ~Granted(g, b, p), Matches(s[m], p), s[m].verdict = "DROP"
    PROVE  Dropped(s, p)
<1>1. PICK n \in Nat : Shape(new, g, n)
  BY DEF Ruled
<1>2. ASSUME NEW i \in 1 .. m, Matches(s[i], p) PROVE s[i].verdict = "DROP"
  <2>1. CASE i \in k + 1 .. m \/ i = m
    BY <2>1
  <2>2. CASE i \notin k + 1 .. m /\ i # m
    <3>1. s[i] = new[i] /\ i \in 1 .. n + 3
      BY <1>1, <2>2 DEF Shape
    <3>2. CASE i \in 1 .. n
      <4>0. PICK c \in Bridges : \E a \in g[c] : new[i] = Allow(c, a)
        BY <1>1, <3>2 DEF Shape
      <4>1. PICK a \in g[c] : new[i] = Allow(c, a)
        BY <4>0
      <4>2. a \in Addresses
        BY DEF Grants
      <4> QED BY <1>2, <3>1, <4>1, <4>2, AllowMatches DEF Granted
    <3>3. CASE i \notin 1 .. n
      <4>1. i \in {n + 1, n + 2, n + 3}
        BY <3>1, <3>3
      <4> QED BY <1>1, <3>1, <4>1, DropMatches DEF Shape
    <3> QED BY <3>2, <3>3
  <2> QED BY <2>1, <2>2
<1> QED BY <1>2, DroppedBy

\* So the guards behind some of the new rules contain the bridges, and so do
\* all of the new rules.
LEMMA GuardsContain ==
    ASSUME NEW s \in Seq(Rules), NEW g \in Grants, NEW new, Ruled(new, g),
           NEW k \in Nat, k <= Len(new), k + 2 <= Len(s), \A i \in 1 .. k : s[i] = new[i],
           s[k + 1] = UploadGuard, s[k + 2] = ReadGuard,
           NEW b \in Bridges, NEW p \in Packets(b), ~Granted(g, b, p)
    PROVE  Dropped(s, p)
<1>1. s \in Seq(Rules) /\ Len(s) \in Nat
  OBVIOUS
<1>2. CASE b = "upload"
  <2>1. Matches(s[k + 1], p) /\ s[k + 1].verdict = "DROP" /\ k + 1 \in 1 .. Len(s)
    BY <1>1, <1>2, DropMatches DEF UploadGuard
  <2>2. /\ \A i \in 1 .. k : s[i] = new[i]
        /\ \A i \in k + 1 .. k + 1 : s[i].verdict = "DROP"
    BY <2>1
  <2> QED BY <1>1, <2>1, <2>2, StoppedBehind
<1>3. CASE b = "read"
  <2>1. Matches(s[k + 2], p) /\ s[k + 2].verdict = "DROP" /\ k + 2 \in 1 .. Len(s)
    BY <1>1, <1>3, DropMatches DEF ReadGuard
  <2>2. s[k + 1].verdict = "DROP"
    BY DropMatches DEF UploadGuard
  <2>3. /\ \A i \in 1 .. k : s[i] = new[i]
        /\ \A i \in k + 1 .. k + 2 : s[i].verdict = "DROP"
    BY <2>1, <2>2
  <2> QED BY <1>1, <2>1, <2>3, StoppedBehind
<1> QED BY <1>2, <1>3 DEF Bridges

\* All the new rules contain the bridges without the guards.
LEMMA RulesContain ==
    ASSUME NEW s \in Seq(Rules), NEW g \in Grants, NEW new, Ruled(new, g),
           Len(new) <= Len(s), \A i \in 1 .. Len(new) : s[i] = new[i],
           NEW b \in Bridges, NEW p \in Packets(b), ~Granted(g, b, p)
    PROVE  Dropped(s, p)
<1>1. PICK n \in Nat : Shape(new, g, n)
  BY DEF Ruled
<1>2. s \in Seq(Rules) /\ Len(s) \in Nat /\ Len(new) = n + 3 /\ n + 3 <= Len(s)
  BY <1>1 DEF Shape
<1>3. PICK m \in {n + 2, n + 3} : Matches(new[m], p) /\ new[m].verdict = "DROP"
  BY <1>1, DropMatches DEF Shape, Bridges
<1>4. /\ m \in 1 .. Len(s) /\ m \in 1 .. Len(new) /\ s[m] = new[m]
      /\ \A i \in 1 .. Len(new) : s[i] = new[i]
  BY <1>2
<1>5. \A i \in Len(new) + 1 .. m : s[i].verdict = "DROP"
  BY <1>2, <1>4
<1> QED BY <1>2, <1>3, <1>4, <1>5, StoppedBehind

\* A rule that drops, inserted on top, lets nothing more through.
LEMMA DropOnTop ==
    ASSUME NEW s \in Seq(Rules), NEW x \in Rules, x.verdict = "DROP", NEW p, Dropped(s, p)
    PROVE  Dropped(InsertAt(s, 1, x), p)
<1> DEFINE t == InsertAt(s, 1, x)
<1>1. PICK i \in DOMAIN s : /\ s[i].verdict = "DROP" /\ Matches(s[i], p)
                            /\ \A j \in 1 .. (i - 1) : ~Matches(s[j], p)
  BY DEF Dropped
<1>2. /\ t \in Seq(Rules) /\ Len(t) = Len(s) + 1 /\ t[1] = x /\ Len(s) \in Nat
      /\ \A j \in 1 .. Len(s) : t[j + 1] = s[j]
  BY InsertedAt
<1> HIDE DEF t
<1>3. CASE Matches(x, p)
  <2>1. 1 \in DOMAIN t /\ t[1].verdict = "DROP" /\ Matches(t[1], p) /\ \A j \in 1 .. (1 - 1) : FALSE
    BY <1>2, <1>3
  <2> QED BY <2>1 DEF Dropped, t
<1>4. CASE ~Matches(x, p)
  <2>1. i + 1 \in DOMAIN t /\ t[i + 1] = s[i]
    BY <1>2
  <2>2. ASSUME NEW j \in 1 .. i PROVE ~Matches(t[j], p)
    <3>1. CASE j = 1
      BY <1>2, <1>4, <3>1
    <3>2. CASE j # 1
      <4>1. j - 1 \in 1 .. (i - 1) /\ j - 1 \in 1 .. Len(s) /\ (j - 1) + 1 = j
        BY <1>2, <3>2
      <4> QED BY <1>1, <1>2, <4>1
    <3> QED BY <3>1, <3>2
  <2>3. (i + 1) - 1 = i
    BY <1>2
  <2>4. /\ t[i + 1].verdict = "DROP" /\ Matches(t[i + 1], p)
        /\ \A j \in 1 .. ((i + 1) - 1) : ~Matches(t[j], p)
    BY <1>1, <2>1, <2>2, <2>3
  <2> QED BY <2>1, <2>4 DEF Dropped, t
<1> QED BY <1>3, <1>4 DEF t

\* Contained, in these terms.
LEMMA ContainedIs ==
    /\ Contained <=> \A b \in Bridges : \A p \in Packets(b) : Granted(granted, b, p) \/ (jump /\ Dropped(chain, p))
    /\ Contained' <=> \A b \in Bridges : \A p \in Packets(b) : Granted(granted', b, p) \/ (jump' /\ Dropped(chain', p))
<1>1. \A p : Passes(p) <=> ~(jump /\ Dropped(chain, p))
  BY DEF Passes, Dropped
<1>2. \A p : Passes(p)' <=> ~(jump' /\ Dropped(chain', p))
  BY DEF Passes, Dropped
<1> QED BY <1>1, <1>2 DEF Contained, Granted

-----------------------------------------------------------------------------
(* The invariant, step by step.                                            *)

\* What is left to show of a step of the only run.
LEMMA OneMoves ==
    ASSUME OneRun, TypeOK, NEW r \in Runs, NEW l \in Places, NEW x \in Locals, Goto(r, l, x),
           exists' \in BOOLEAN, jump' \in BOOLEAN, chain' \in Seq(Rules), config' \in Configs,
           granted' \in [Bridges -> SUBSET Addresses], meddles' = meddles,
           RunTyped(r)', RunOK(r)', IndexOK(r)'
    PROVE  ChainInv'
<1>1. pc' \in [Runs -> Places] /\ loc' \in [Runs -> Locals]
  BY DEF TypeOK, Goto
<1>2. \A q \in Runs : q = r
  BY DEF OneRun
<1>3. TypeOK'
  BY <1>1, <1>2 DEF TypeOK
<1> QED BY <1>2, <1>3 DEF ChainInv

\* A run that ends leaves whatever there is.
LEMMA ExitKeeps ==
    ASSUME OneRun, ChainInv, NEW r \in Runs, Exit(r),
           exists' \in BOOLEAN, jump' \in BOOLEAN, chain' \in Seq(Rules), UNCHANGED <<config, granted, meddles>>
    PROVE  ChainInv'
<1>1. Blank \in Locals /\ "idle" \in Places /\ Goto(r, "idle", Blank) /\ TypeOK
  BY DEF Blank, Locals, Places, Exit, ChainInv
<1>2. pc'[r] = "idle" /\ loc'[r] = Blank
  BY <1>1 DEF Goto, TypeOK
<1>3. RunTyped(r)' /\ RunOK(r)' /\ IndexOK(r)'
  BY <1>2 DEF Blank, RunTyped, RunOK, IndexOK, TypeOK, ChainInv
<1>4. config' \in Configs /\ granted' \in [Bridges -> SUBSET Addresses] /\ meddles' = meddles
  BY <1>1 DEF TypeOK
<1> QED BY <1>1, <1>3, <1>4, OneMoves

\* The only run moves on, and touches nothing.
LEMMA QuietKeeps ==
    ASSUME OneRun, ChainInv, NEW r \in Runs, NEW l \in Places, NEW x \in Locals, Goto(r, l, x),
           UNCHANGED <<fwVars, config, granted, meddles>>,
           RunTyped(r)', RunOK(r)', IndexOK(r)'
    PROVE  ChainInv'
BY OneMoves DEF ChainInv, TypeOK, fwVars

\* What the invariant says of the only run.
LEMMA OfRun ==
    ASSUME ChainInv, NEW r \in Runs
    PROVE  /\ TypeOK /\ RunTyped(r) /\ RunOK(r) /\ IndexOK(r)
           /\ pc[r] \in Places /\ loc[r] \in Locals /\ meddles \in Nat
           /\ \A l, x : Goto(r, l, x) => pc'[r] = l /\ loc'[r] = x
BY DEF ChainInv, TypeOK, Goto

\* A run starts: it has read or written nothing.
LEMMA StartKeeps ==
    ASSUME OneRun, ChainInv, NEW r \in Runs, NEW act \in {"apply", "remove"}, Start(r, act)
    PROVE  ChainInv'
<1> DEFINE l == IF act = "apply" THEN "load" ELSE "probe"
           x == [Blank EXCEPT !.act = act, !.seen = meddles]
<1>1. /\ Goto(r, l, x) /\ UNCHANGED <<fwVars, config, granted, meddles>>
  BY DEF Start
<1>a. l \in Places
  BY DEF Places, Held
<1>b. x \in Locals /\ x.act = act /\ x.seen = meddles
  <2>1. meddles \in Nat
    BY OfRun
  <2>2. Blank \in Locals
    <3>1. <<>> \in Seq(Rules)
      OBVIOUS
    <3> QED BY <3>1 DEF Blank, Locals
  <2> HIDE DEF Blank
  <2> QED BY <2>1, <2>2 DEF Locals
<1> HIDE DEF x
<1>2. pc'[r] = l /\ loc'[r] = x
  BY <1>1, OfRun
<1>3. RunTyped(r)' /\ RunOK(r)' /\ IndexOK(r)'
  BY <1>1, <1>b, <1>2, OfRun DEF RunTyped, RunOK, IndexOK, Places, Held, Closing
<1> QED BY <1>1, <1>a, <1>b, <1>3, QuietKeeps

\* load_config: what it will install has the shape that it needs.
LEMMA LoadKeeps ==
    ASSUME OneRun, ChainInv, NEW r \in Runs, Load(r)
    PROVE  ChainInv'
<1>1. UNCHANGED <<fwVars, config, meddles>> /\ pc[r] = "load"
  BY DEF Load
<1>2. CASE Usable(config)
  <2> DEFINE x == [loc[r] EXCEPT !.new = NewRules(config), !.todo = Guards]
  <2>1. /\ Goto(r, "new", x)
        /\ granted' = [b \in Bridges |-> granted[b] \cup
                        {y.dst : y \in {z \in ToSet(Allowlist(config)) : z.from = b}}]
    BY <1>2 DEF Load
  <2>2. /\ NewRules(config) \in Seq(Rules) /\ granted' \in [Bridges -> SUBSET Addresses]
        /\ Ruled(NewRules(config), granted')
    BY <1>2, <2>1, OfRun, RulesOfConfig
  <2>3. /\ x \in Locals /\ x.new = NewRules(config) /\ x.todo = Guards
        /\ x.seen = loc[r].seen /\ x.act = loc[r].act
    BY <2>2, OfRun, RulesAreRules DEF Locals
  <2>4. pc'[r] = "new" /\ loc'[r] = x /\ "new" \in Places
    BY <2>1, OfRun DEF Places
  <2>5. NewRules(config) # <<>> /\ Guards # <<>>
    BY <2>2, RulesAreRules DEF Ruled, Shape
  <2> HIDE DEF x
  <2>6. RunTyped(r)'
    BY <1>1, <2>3, <2>4, <2>5, OfRun DEF RunTyped
  <2>7. RunOK(r)' /\ IndexOK(r)'
    BY <1>1, <2>2, <2>3, <2>4 DEF RunOK, IndexOK, Held, Closing
  <2> QED BY <1>1, <2>1, <2>2, <2>3, <2>4, <2>6, <2>7, OfRun, OneMoves DEF TypeOK, fwVars
<1>3. CASE ~Usable(config)
  BY <1>1, <1>3, OfRun, ExitKeeps DEF Load, TypeOK, fwVars
<1> QED BY <1>2, <1>3

\* The chain is there, or its creation fails unseen.
LEMMA NewChainKeeps ==
    ASSUME OneRun, ChainInv, NEW r \in Runs, NewChain(r)
    PROVE  ChainInv'
<1>1. /\ Goto(r, "jump", loc[r]) /\ UNCHANGED <<jump, chain, config, granted, meddles>> /\ pc[r] = "new"
      /\ exists' \in BOOLEAN
  BY OfRun DEF NewChain, Go, TypeOK
<1>2. pc'[r] = "jump" /\ loc'[r] = loc[r] /\ "jump" \in Places /\ loc[r] \in Locals
  BY <1>1, OfRun DEF Places
<1>3. RunTyped(r)' /\ RunOK(r)' /\ IndexOK(r)'
  BY <1>1, <1>2, OfRun DEF RunTyped, RunOK, IndexOK, Places, Held, Closing
<1> QED BY <1>1, <1>2, <1>3, OfRun, OneMoves DEF TypeOK

\* From here on the chain counts.
LEMMA JumpKeeps ==
    ASSUME OneRun, ChainInv, NEW r \in Runs, Jump(r)
    PROVE  ChainInv'
<1>1. UNCHANGED <<exists, chain, config, granted, meddles>> /\ pc[r] = "jump" /\ jump' \in BOOLEAN
  BY OfRun DEF Jump, Dies, fwVars, TypeOK
<1>2. CASE Go(r, "guard") /\ jump' = TRUE
  <2>1. Goto(r, "guard", loc[r]) /\ pc'[r] = "guard" /\ loc'[r] = loc[r] /\ "guard" \in Places /\ loc[r] \in Locals
    BY <1>2, OfRun DEF Places, Go
  <2>2. RunTyped(r)' /\ RunOK(r)' /\ IndexOK(r)'
    BY <1>1, <1>2, <2>1, OfRun DEF RunTyped, RunOK, IndexOK, Places, Held, Closing
  <2> QED BY <1>1, <2>1, <2>2, OfRun, OneMoves DEF TypeOK
<1>3. CASE Exit(r)
  BY <1>1, <1>3, OfRun, ExitKeeps DEF TypeOK
<1> QED BY <1>2, <1>3 DEF Jump, Dies

\* Inserting a rule: it is done, or the run ends.
LEMMA GuardKeeps ==
    ASSUME OneRun, ChainInv, NEW r \in Runs, Guard(r)
    PROVE  ChainInv'
<1> DEFINE rest == Tail(loc[r].todo)
           x == Head(loc[r].todo)
           l == IF rest = <<>> THEN "probe" ELSE "guard"
           new == [loc[r] EXCEPT !.todo = rest]
<1>1. /\ UNCHANGED <<jump, config, granted, meddles>> /\ exists' \in BOOLEAN /\ pc[r] = "guard"
      /\ \/ Goto(r, l, new) /\ 1 <= Len(chain) + 1 /\ chain' = InsertAt(chain, 1, x)
         \/ Exit(r) /\ chain' = chain
  <2>1. exists \in BOOLEAN
    BY OfRun DEF TypeOK
  <2> QED BY <2>1 DEF Guard, InsertRule, Dies, fwVars
<1>2. /\ loc[r].todo \in Seq(Rules) /\ loc[r].todo # <<>> /\ chain \in Seq(Rules) /\ Len(chain) \in Nat
      /\ jump \in BOOLEAN
  BY <1>1, OfRun DEF Locals, RunTyped, TypeOK
<1>3. x \in Rules /\ rest \in Seq(Rules)
  BY <1>2
<1>4. CASE Exit(r) /\ chain' = chain
  BY <1>1, <1>2, <1>4, OfRun, ExitKeeps
<1>5. CASE Goto(r, l, new) /\ chain' = InsertAt(chain, 1, x)
  <2>1. /\ chain' \in Seq(Rules) /\ Len(chain') = Len(chain) + 1 /\ chain'[1] = x
        /\ \A j \in 1 .. Len(chain) : chain'[j + 1] = chain[j]
    <3>1. 1 \in 1 .. Len(chain) + 1 /\ chain \in Seq(Rules) /\ x \in Rules /\ chain' = InsertAt(chain, 1, x)
      BY <1>2, <1>3, <1>5
    <3> HIDE DEF x, new, l, rest
    <3>2. /\ InsertAt(chain, 1, x) \in Seq(Rules) /\ Len(InsertAt(chain, 1, x)) = Len(chain) + 1
          /\ InsertAt(chain, 1, x)[1] = x
          /\ \A j \in 1 .. Len(chain) : InsertAt(chain, 1, x)[j + 1] = chain[j]
      BY <3>1, InsertedAt
    <3> QED BY <3>1, <3>2
  <2>2. /\ new \in Locals /\ new.todo = rest /\ new.seen = loc[r].seen /\ new.act = loc[r].act
        /\ new.new = loc[r].new
    BY <1>3, OfRun DEF Locals
  <2>3. pc'[r] = l /\ loc'[r] = new /\ l \in Places
    BY <1>5, OfRun DEF Places, Held
  <2> HIDE DEF new
  <2>4. RunTyped(r)'
    BY <1>1, <2>2, <2>3, OfRun DEF RunTyped
  <2>5. IndexOK(r)'
    BY <2>3 DEF IndexOK
  <2>6. RunOK(r)'
    <3> SUFFICES ASSUME loc[r].act = "apply", loc[r].seen = meddles PROVE RunOK(r)'
      BY <1>1, <2>2, <2>3 DEF RunOK
    <3>1. /\ Ruled(loc[r].new, granted) /\ jump
          /\ \/ loc[r].todo = Guards
             \/ loc[r].todo = <<UploadGuard>> /\ 1 <= Len(chain) /\ chain[1] = ReadGuard
      BY <1>1, OfRun DEF RunOK, Places
    <3>2. Ruled(loc'[r].new, granted') /\ jump'
      BY <1>1, <2>2, <2>3, <3>1
    <3>3. CASE loc[r].todo = Guards
      <4>1. x = ReadGuard /\ rest = <<UploadGuard>> /\ rest # <<>>
        BY <3>3, RulesAreRules
      <4>2. 1 <= Len(chain') /\ chain'[1] = ReadGuard /\ pc'[r] = "guard" /\ loc'[r].todo = <<UploadGuard>>
        <5>1. l = "guard"
          BY <4>1
        <5>2. pc'[r] = "guard" /\ loc'[r].todo = <<UploadGuard>>
          BY <2>2, <2>3, <4>1, <5>1
        <5>3. 1 <= Len(chain') /\ chain'[1] = ReadGuard
          <6> HIDE DEF x
          <6> QED BY <1>2, <2>1, <4>1
        <5> QED BY <5>2, <5>3
      <4> QED BY <3>2, <4>2 DEF RunOK, Held, Closing
    <3>4. CASE loc[r].todo = <<UploadGuard>> /\ 1 <= Len(chain) /\ chain[1] = ReadGuard
      <4>1. x = UploadGuard /\ rest = <<>>
        BY <3>4
      <4>2. 0 + 2 <= Len(chain') /\ chain'[0 + 1] = UploadGuard /\ chain'[0 + 2] = ReadGuard
        <5>1. 1 \in 1 .. Len(chain) /\ chain'[1 + 1] = chain[1]
          BY <1>2, <2>1, <3>4
        <5> QED BY <1>2, <2>1, <3>4, <4>1, <5>1
      <4>3. GuardsAt(0)' /\ pc'[r] = "probe"
        BY <2>3, <4>1, <4>2 DEF GuardsAt
      <4> QED BY <3>2, <4>3 DEF RunOK, Held, Closing
    <3> QED BY <3>1, <3>3, <3>4
  <2> QED BY <1>1, <1>2, <1>5, <2>1, <2>2, <2>3, <2>4, <2>5, <2>6, OfRun, OneMoves DEF TypeOK
<1> QED BY <1>1, <1>4, <1>5

\* The removal is over: an apply starts to insert, a remove looks for guards.
LEMMA StrippedKeeps ==
    ASSUME OneRun, ChainInv, NEW r \in Runs, pc[r] \in Held, Stripped(r),
           UNCHANGED <<fwVars, config, granted, meddles>>
    PROVE  ChainInv'
<1>1. /\ pc[r] # "idle" /\ pc[r] # "load" /\ loc[r].act \in {"apply", "remove"} /\ loc[r].seen \in Nat
      /\ chain \in Seq(Rules)
  BY OfRun DEF RunTyped, Held, Locals, TypeOK
<1>2. CASE loc[r].act = "apply"
  <2> DEFINE new == [loc[r] EXCEPT !.todo = loc[r].new, !.position = 1]
  <2>1. Goto(r, "insert", new)
    BY <1>2 DEF Stripped
  <2>2. /\ new \in Locals /\ new.todo = loc[r].new /\ new.new = loc[r].new /\ new.position = 1
        /\ new.seen = loc[r].seen /\ new.act = "apply"
    <3>1. loc[r] \in Locals
      BY OfRun
    <3>2. 1 \in Nat \ {0}
      OBVIOUS
    <3>3. loc[r].new \in Seq(Rules)
      BY <3>1 DEF Locals
    <3>4. new \in Locals
      BY <3>1, <3>2, <3>3 DEF Locals
    <3> QED BY <1>2, <3>1, <3>4 DEF Locals
  <2>3. pc'[r] = "insert" /\ loc'[r] = new /\ "insert" \in Places
    BY <2>1, OfRun DEF Places
  <2> HIDE DEF new
  <2>4. loc[r].new # <<>>
    BY <1>1, <1>2, OfRun DEF RunTyped
  <2>5. RunTyped(r)' /\ IndexOK(r)'
    BY <1>2, <2>2, <2>3, <2>4, OfRun DEF RunTyped, IndexOK
  <2>6. RunOK(r)'
    <3> SUFFICES ASSUME loc[r].seen = meddles PROVE RunOK(r)'
      BY <2>2, <2>3 DEF RunOK
    <3>1. Ruled(loc[r].new, granted) /\ jump /\ GuardsAt(0)
      BY <1>1, <1>2, OfRun DEF RunOK, Held
    <3>2. Len(loc[r].new) \in Nat
      BY OfRun DEF Locals
    <3>3. Inserting(loc[r].new, loc[r].new, 0)
      BY <1>1, <2>4, <3>1, <3>2 DEF Inserting, TopIs
    <3>4. /\ Inserting(loc[r].new, loc[r].new, 0)' /\ Ruled(loc'[r].new, granted') /\ jump'
      BY <2>2, <2>3, <3>1, <3>3 DEF Inserting, TopIs, GuardsAt, fwVars
    <3>5. Inserting(loc[r].new, loc[r].todo, loc[r].position - 1)'
      BY <2>2, <2>3, <3>4
    <3> QED BY <2>3, <3>4, <3>5 DEF RunOK, Held, Closing
  <2> QED BY <2>1, <2>2, <2>3, <2>5, <2>6, QuietKeeps
<1>3. CASE loc[r].act = "remove"
  <2>1. /\ Goto(r, "findStage", loc[r]) /\ pc'[r] = "findStage" /\ loc'[r] = loc[r]
        /\ "findStage" \in Places /\ loc[r] \in Locals
    BY <1>3, OfRun DEF Stripped, Go, Places, Closing
  <2>2. RunTyped(r)' /\ RunOK(r)' /\ IndexOK(r)'
    BY <1>3, <2>1, OfRun DEF RunTyped, RunOK, IndexOK
  <2> QED BY <2>1, <2>2, QuietKeeps
<1> QED BY <1>1, <1>2, <1>3

\* The removal goes on, or is over.
LEMMA ProbeKeeps ==
    ASSUME OneRun, ChainInv, NEW r \in Runs, Probe(r)
    PROVE  ChainInv'
<1>1. UNCHANGED <<fwVars, config, granted, meddles>> /\ pc[r] = "probe"
  BY DEF Probe
<1>2. CASE Go(r, "find")
  <2>1. /\ Goto(r, "find", loc[r]) /\ pc'[r] = "find" /\ loc'[r] = loc[r] /\ "find" \in Places
        /\ loc[r] \in Locals
    BY <1>2, OfRun DEF Go, Places, Held
  <2>2. RunTyped(r)' /\ IndexOK(r)'
    BY <1>1, <2>1, OfRun DEF RunTyped, IndexOK
  <2>3. RunOK(r)'
    BY <1>1, <2>1, OfRun DEF RunOK, Held, Closing, Places, GuardsAt, fwVars
  <2> QED BY <1>1, <2>1, <2>2, <2>3, QuietKeeps
<1>3. CASE Stripped(r)
  BY <1>1, <1>3, StrippedKeeps DEF Held
<1> QED BY <1>2, <1>3 DEF Probe

\* owned_rule_index: the listing finds a rule of its own, or none.
LEMMA FindKeeps ==
    ASSUME OneRun, ChainInv, NEW r \in Runs, Find(r)
    PROVE  ChainInv'
<1>1. UNCHANGED <<fwVars, config, granted, meddles>> /\ pc[r] = "find"
  BY DEF Find
<1> DEFINE i == OwnedIndex
           new == [loc[r] EXCEPT !.index = i]
<1>2. CASE i # 0 /\ Goto(r, "delete", new)
  <2>1. chain \in Seq(Rules)
    BY OfRun DEF TypeOK
  <2>2. i \in DOMAIN chain /\ Owned(chain[i]) /\ i \in Nat
    BY <1>2, <2>1, FoundOwned
  <2>3. /\ new \in Locals /\ new.index = i /\ new.new = loc[r].new /\ new.act = loc[r].act
        /\ new.seen = loc[r].seen
    <3> HIDE DEF i
    <3> QED BY <2>2, OfRun DEF Locals
  <2>4. pc'[r] = "delete" /\ loc'[r] = new /\ "delete" \in Places
    BY <1>2, OfRun DEF Places, Held
  <2> HIDE DEF new, i
  <2>5. RunTyped(r)'
    BY <1>1, <1>2, <2>3, <2>4, OfRun DEF RunTyped
  <2>6. IndexOK(r)'
    BY <1>1, <2>2, <2>3, <2>4 DEF IndexOK, fwVars
  <2>7. RunOK(r)'
    BY <1>1, <2>3, <2>4, OfRun DEF RunOK, Held, Closing, Places, GuardsAt, fwVars
  <2> QED BY <1>1, <1>2, <2>3, <2>4, <2>5, <2>6, <2>7, QuietKeeps
<1>3. CASE Stripped(r)
  BY <1>1, <1>3, StrippedKeeps DEF Held
<1> QED BY <1>2, <1>3 DEF Find
\* The new rules carry the tag.
LEMMA NewTagged ==
    ASSUME NEW new, Ruled(new, granted)
    PROVE  Len(new) \in Nat /\ \A i \in 1 .. Len(new) : new[i].owner = "tag"
<1>1. PICK n \in Nat : Shape(new, granted, n)
  BY DEF Ruled
<1>2. ASSUME NEW i \in 1 .. n PROVE new[i].owner = "tag"
  <2>1. PICK b \in Bridges : \E a \in granted[b] : new[i] = Allow(b, a)
    BY <1>1 DEF Shape
  <2>2. PICK a \in granted[b] : new[i] = Allow(b, a)
    BY <2>1
  <2> QED BY <2>2 DEF Allow
<1>3. new[n + 1].owner = "tag" /\ new[n + 2].owner = "tag" /\ new[n + 3].owner = "tag"
  BY <1>1 DEF Shape, Drop
<1>4. ASSUME NEW i \in 1 .. n + 3 PROVE new[i].owner = "tag"
  <2>1. i \in 1 .. n \/ i = n + 1 \/ i = n + 2 \/ i = n + 3
    OBVIOUS
  <2> QED BY <1>2, <1>3, <2>1
<1> QED BY <1>1, <1>4 DEF Shape

\* An apply that deletes an owned rule leaves the guards on top.
LEMMA GuardsStay ==
    ASSUME TypeOK, GuardsAt(0), NEW i \in DOMAIN chain, Owned(chain[i]), chain' = RemoveAt(chain, i)
    PROVE  GuardsAt(0)'
<1>1. chain \in Seq(Rules) /\ Len(chain) \in Nat /\ i \in 1 .. Len(chain)
  BY DEF TypeOK
<1>2. 2 <= Len(chain) /\ chain[1] = UploadGuard /\ chain[2] = ReadGuard
  BY DEF GuardsAt
<1>3. i # 1 /\ i # 2
  <2>1. UploadGuard.owner = "stage" /\ ReadGuard.owner = "stage"
    BY DEF UploadGuard, ReadGuard, Drop
  <2> QED BY <1>2, <2>1 DEF Owned
<1>4. Len(chain') = Len(chain) - 1 /\ \A j \in 1 .. i - 1 : chain'[j] = chain[j]
  BY <1>1, RemovedAt
<1>5. 1 \in 1 .. i - 1 /\ 2 \in 1 .. i - 1 /\ 2 <= Len(chain) - 1
  BY <1>1, <1>3
<1>6. 2 <= Len(chain') /\ chain'[1] = UploadGuard /\ chain'[2] = ReadGuard
  BY <1>2, <1>4, <1>5
<1>7. 0 + 2 = 2 /\ 0 + 1 = 1
  OBVIOUS
<1> QED BY <1>6, <1>7 DEF GuardsAt

\* remove_owned_rules: the rule at the index goes, the guards stay on top.
LEMMA DeleteKeeps ==
    ASSUME OneRun, ChainInv, NEW r \in Runs, Delete(r)
    PROVE  ChainInv'
<1> DEFINE count == loc[r].removed + 1
           new == [loc[r] EXCEPT !.removed = count, !.index = 0]
           i == loc[r].index
<1>1. /\ UNCHANGED <<jump, config, granted, meddles>> /\ exists' \in BOOLEAN /\ pc[r] = "delete"
      /\ \/ Goto(r, "find", new) /\ i <= Len(chain) /\ chain' = RemoveAt(chain, i)
         \/ Exit(r) /\ i <= Len(chain) /\ chain' = RemoveAt(chain, i)
         \/ Exit(r) /\ chain' = chain
  <2>1. exists \in BOOLEAN
    BY OfRun DEF TypeOK
  <2> QED BY <2>1 DEF Delete, DeleteRule, Dies, fwVars
<1>2. chain \in Seq(Rules) /\ Len(chain) \in Nat /\ i \in Nat \ {0} /\ jump \in BOOLEAN /\ loc[r] \in Locals
  <2>1. loc[r] \in Locals /\ chain \in Seq(Rules) /\ jump \in BOOLEAN /\ RunTyped(r)
    BY OfRun DEF TypeOK
  <2> QED BY <1>1, <2>1 DEF Locals, RunTyped
<1>3. i <= Len(chain) => RemoveAt(chain, i) \in Seq(Rules)
  <2>1. i <= Len(chain) => i \in 1 .. Len(chain)
    BY <1>2
  <2> HIDE DEF i
  <2> QED BY <1>2, <2>1, RemovedAt
<1>4. chain' \in Seq(Rules)
  BY <1>1, <1>2, <1>3
<1>5. CASE Exit(r)
  BY <1>1, <1>2, <1>4, <1>5, OfRun, ExitKeeps
<1>6. CASE Goto(r, "find", new) /\ chain' = RemoveAt(chain, i)
  <2>1. /\ new \in Locals /\ new.new = loc[r].new /\ new.act = loc[r].act /\ new.seen = loc[r].seen
    <3>1. count \in Nat /\ 0 \in Nat
      BY <1>2 DEF Locals
    <3> HIDE DEF count
    <3> QED BY <1>2, <3>1 DEF Locals
  <2>2. pc'[r] = "find" /\ loc'[r] = new /\ "find" \in Places
    BY <1>6, OfRun DEF Places, Held
  <2> HIDE DEF new
  <2>3. RunTyped(r)' /\ IndexOK(r)'
    BY <1>1, <2>1, <2>2, OfRun DEF RunTyped, IndexOK
  <2>4. RunOK(r)'
    <3> SUFFICES ASSUME loc[r].act = "apply", loc[r].seen = meddles PROVE RunOK(r)'
      BY <1>1, <2>1, <2>2 DEF RunOK
    <3>1. Ruled(loc[r].new, granted) /\ jump /\ GuardsAt(0)
      BY <1>1, OfRun DEF RunOK, Held, Places
    <3>2. i \in DOMAIN chain /\ Owned(chain[i])
      BY <1>1, OfRun DEF IndexOK
    <3>3. GuardsAt(0)'
      <4> HIDE DEF i
      <4> QED BY <1>6, <3>1, <3>2, OfRun, GuardsStay
    <3>4. Ruled(loc'[r].new, granted') /\ jump'
      BY <1>1, <2>1, <2>2, <3>1
    <3> QED BY <2>2, <3>3, <3>4 DEF RunOK, Held, Closing
  <2>5. config' \in Configs /\ granted' \in [Bridges -> SUBSET Addresses] /\ jump' \in BOOLEAN
    BY <1>1, <1>2, OfRun DEF TypeOK
  <2> QED BY <1>1, <1>4, <1>6, <2>1, <2>2, <2>3, <2>4, <2>5, OfRun, OneMoves
<1> QED BY <1>1, <1>5, <1>6

\* What an insertion makes of the chain.
LEMMA ChainInserted ==
    ASSUME chain \in Seq(Rules), NEW x \in Rules, NEW p \in 1 .. Len(chain) + 1, chain' = InsertAt(chain, p, x)
    PROVE  /\ chain' \in Seq(Rules) /\ Len(chain') = Len(chain) + 1
           /\ \A j \in 1 .. p - 1 : chain'[j] = chain[j]
           /\ chain'[p] = x
           /\ \A j \in p .. Len(chain) : chain'[j + 1] = chain[j]
<1> DEFINE s == chain
           t == InsertAt(s, p, x)
<1>1. s \in Seq(Rules) /\ p \in 1 .. Len(s) + 1
  OBVIOUS
<1> HIDE DEF s
<1>2. /\ t \in Seq(Rules) /\ Len(t) = Len(s) + 1
      /\ \A j \in 1 .. p - 1 : t[j] = s[j]
      /\ t[p] = x
      /\ \A j \in p .. Len(s) : t[j + 1] = s[j]
  <2>1. x \in Rules /\ s \in Seq(Rules) /\ p \in 1 .. Len(s) + 1
    BY <1>1
  <2> QED BY <2>1, InsertedAt
<1> QED BY <1>2 DEF s

\* One more of the new rules is on top of the guards.
LEMMA OneMore ==
    ASSUME TypeOK, NEW new, NEW todo \in Seq(Rules), NEW k \in Nat, Inserting(new, todo, k),
           chain' = InsertAt(chain, k + 1, Head(todo))
    PROVE  /\ chain' \in Seq(Rules)
           /\ TopIs(new, k + 1)' /\ GuardsAt(k + 1)'
           /\ Tail(todo) = <<>> => Len(new) = k + 1
           /\ Tail(todo) # <<>> => Inserting(new, Tail(todo), k + 1)'
<1> DEFINE x == Head(todo)
<1>1. /\ chain \in Seq(Rules) /\ Len(chain) \in Nat /\ k + 2 <= Len(chain)
      /\ chain[k + 1] = UploadGuard /\ chain[k + 2] = ReadGuard
      /\ \A i \in 1 .. k : chain[i] = new[i]
      /\ todo # <<>> /\ Len(new) = k + Len(todo)
      /\ \A i \in 1 .. Len(todo) : todo[i] = new[k + i]
  BY DEF TypeOK, Inserting, TopIs, GuardsAt
<1>2. /\ x \in Rules /\ x = todo[1] /\ Len(todo) \in Nat /\ 1 <= Len(todo)
      /\ Tail(todo) \in Seq(Rules) /\ Len(Tail(todo)) = Len(todo) - 1
      /\ \A i \in 1 .. Len(todo) - 1 : Tail(todo)[i] = todo[i + 1]
      /\ Tail(todo) = <<>> <=> Len(todo) = 1
  <2>1. todo \in Seq(Rules) /\ todo # <<>>
    BY <1>1
  <2>2. Len(todo) \in Nat /\ 1 <= Len(todo) /\ x \in Rules /\ x = todo[1]
    BY <2>1
  <2>3. /\ Tail(todo) \in Seq(Rules) /\ Len(Tail(todo)) = Len(todo) - 1
        /\ \A i \in 1 .. Len(todo) - 1 : Tail(todo)[i] = todo[i + 1]
    BY <2>1
  <2>4. Tail(todo) = <<>> <=> Len(Tail(todo)) = 0
    <3> DEFINE rest == Tail(todo)
    <3>1. rest \in Seq(Rules)
      BY <2>3
    <3> HIDE DEF rest
    <3>2. rest = <<>> <=> Len(rest) = 0
      BY <3>1, EmptySeq
    <3> QED BY <3>2 DEF rest
  <2> QED BY <2>2, <2>3, <2>4
<1>3. k + 1 \in 1 .. Len(chain) + 1
  BY <1>1
<1> DEFINE p == k + 1
<1>4. /\ chain' \in Seq(Rules) /\ Len(chain') = Len(chain) + 1
      /\ \A j \in 1 .. p - 1 : chain'[j] = chain[j]
      /\ chain'[p] = x
      /\ \A j \in p .. Len(chain) : chain'[j + 1] = chain[j]
  <2>1. chain' = InsertAt(chain, p, x) /\ p \in 1 .. Len(chain) + 1 /\ x \in Rules /\ chain \in Seq(Rules)
    BY <1>1, <1>2, <1>3
  <2> HIDE DEF x, p
  <2> QED BY <2>1, ChainInserted
<1> HIDE DEF x
<1>5. x = new[k + 1]
  <2>1. 1 \in 1 .. Len(todo)
    BY <1>2
  <2> QED BY <1>1, <1>2, <2>1
<1>6. p <= Len(chain') /\ \A i \in 1 .. p : chain'[i] = new[i]
  BY <1>1, <1>4, <1>5
<1>7. TopIs(new, k + 1)'
  BY <1>6 DEF TopIs
<1>8. p + 2 <= Len(chain') /\ chain'[p + 1] = UploadGuard /\ chain'[p + 2] = ReadGuard
  <2>1. k + 1 \in p .. Len(chain) /\ k + 2 \in p .. Len(chain)
    BY <1>1
  <2>2. chain'[(k + 1) + 1] = chain[k + 1] /\ chain'[(k + 2) + 1] = chain[k + 2]
    BY <1>4, <2>1
  <2> QED BY <1>1, <1>4, <2>2
<1>9. GuardsAt(k + 1)'
  BY <1>8 DEF GuardsAt
<1>10. Len(new) = (k + 1) + Len(Tail(todo)) /\ (Tail(todo) = <<>> => Len(new) = k + 1)
  BY <1>1, <1>2
<1>11. ASSUME NEW i \in 1 .. Len(Tail(todo)) PROVE Tail(todo)[i] = new[(k + 1) + i]
  <2>1. i \in 1 .. Len(todo) - 1 /\ i + 1 \in 1 .. Len(todo) /\ k + (i + 1) = (k + 1) + i
    BY <1>2
  <2> QED BY <1>1, <1>2, <2>1
<1>12. Tail(todo) # <<>> => Inserting(new, Tail(todo), k + 1)'
  BY <1>7, <1>9, <1>10, <1>11 DEF Inserting
<1> QED BY <1>4, <1>7, <1>9, <1>10, <1>12

\* insert_rule: one more of the new rules is on top, or the run ends.
LEMMA InsertKeeps ==
    ASSUME OneRun, ChainInv, NEW r \in Runs, Insert(r)
    PROVE  ChainInv'
<1> DEFINE rest == Tail(loc[r].todo)
           x == Head(loc[r].todo)
           p == loc[r].position
           l == IF rest = <<>> THEN "findStage" ELSE "insert"
           new == [loc[r] EXCEPT !.todo = rest, !.position = p + 1]
<1>1. /\ UNCHANGED <<jump, config, granted, meddles>> /\ exists' \in BOOLEAN /\ pc[r] = "insert"
      /\ \/ Goto(r, l, new) /\ p <= Len(chain) + 1 /\ chain' = InsertAt(chain, p, x)
         \/ Exit(r) /\ chain' = chain
  <2>1. exists \in BOOLEAN
    BY OfRun DEF TypeOK
  <2> QED BY <2>1 DEF Insert, InsertRule, Dies, fwVars
<1>2. /\ loc[r].todo \in Seq(Rules) /\ loc[r].todo # <<>> /\ chain \in Seq(Rules) /\ Len(chain) \in Nat
      /\ p \in Nat \ {0} /\ jump \in BOOLEAN /\ loc[r] \in Locals
  <2>1. loc[r] \in Locals /\ chain \in Seq(Rules) /\ jump \in BOOLEAN /\ RunTyped(r)
    BY OfRun DEF TypeOK
  <2> QED BY <1>1, <2>1 DEF Locals, RunTyped
<1>3. x \in Rules /\ rest \in Seq(Rules)
  BY <1>2
<1>4. CASE Exit(r) /\ chain' = chain
  BY <1>1, <1>2, <1>4, OfRun, ExitKeeps
<1>5. CASE Goto(r, l, new) /\ p <= Len(chain) + 1 /\ chain' = InsertAt(chain, p, x)
  <2>1. chain' \in Seq(Rules)
    <3>1. p \in 1 .. Len(chain) + 1
      BY <1>2, <1>5
    <3> HIDE DEF x, p, new, l
    <3> QED BY <1>2, <1>3, <1>5, <3>1, ChainInserted
  <2>2. /\ new \in Locals /\ new.todo = rest /\ new.seen = loc[r].seen /\ new.act = loc[r].act
        /\ new.new = loc[r].new /\ new.position = p + 1
    <3>1. p + 1 \in Nat \ {0}
      BY <1>2
    <3> HIDE DEF rest
    <3> QED BY <1>2, <1>3, <3>1 DEF Locals
  <2>3. pc'[r] = l /\ loc'[r] = new /\ l \in Places
    BY <1>5, OfRun DEF Places, Closing
  <2> HIDE DEF new
  <2>4. RunTyped(r)'
    BY <1>1, <2>2, <2>3, OfRun DEF RunTyped
  <2>5. IndexOK(r)'
    BY <2>3 DEF IndexOK
  <2>6. RunOK(r)'
    <3> SUFFICES ASSUME loc[r].act = "apply", loc[r].seen = meddles PROVE RunOK(r)'
      BY <1>1, <2>2, <2>3 DEF RunOK
    <3>1. Ruled(loc[r].new, granted) /\ jump /\ Inserting(loc[r].new, loc[r].todo, p - 1)
      BY <1>1, OfRun DEF RunOK, Places
    <3>2. Ruled(loc'[r].new, granted') /\ jump'
      BY <1>1, <2>2, <2>3, <3>1
    <3>3. PICK n : n = loc[r].new
      OBVIOUS
    <3>4. PICK u : u = loc[r].todo
      OBVIOUS
    <3>5. PICK k : k = p - 1
      OBVIOUS
    <3>6. k \in Nat /\ k + 1 = p /\ u \in Seq(Rules) /\ Inserting(n, u, k) /\ rest = Tail(u) /\ x = Head(u)
      BY <1>2, <3>1, <3>3, <3>4, <3>5
    <3>7. /\ TopIs(n, k + 1)'
          /\ Tail(u) = <<>> => Len(n) = k + 1
          /\ Tail(u) # <<>> => Inserting(n, Tail(u), k + 1)'
      <4>1. TypeOK /\ chain' = InsertAt(chain, k + 1, Head(u))
        BY <1>5, <3>6, OfRun
      <4>2. k \in Nat /\ u \in Seq(Rules) /\ Inserting(n, u, k)
        BY <3>6
      <4> HIDE DEF x, p, rest, l
      <4> QED BY <4>1, <4>2, OneMore
    <3>8. loc'[r].new = n /\ loc'[r].todo = Tail(u) /\ loc'[r].position = p + 1
      BY <2>2, <2>3, <3>3, <3>6
    <3>9. CASE Tail(u) = <<>>
      <4>1. pc'[r] = "findStage" /\ TopIs(n, Len(n))'
        BY <2>3, <3>6, <3>7, <3>9
      <4>2. TopIs(loc[r].new, Len(loc[r].new))'
        BY <3>8, <4>1
      <4> QED BY <3>2, <4>1, <4>2 DEF RunOK, Closing, Held
    <3>10. CASE Tail(u) # <<>>
      <4>1. pc'[r] = "insert" /\ Inserting(n, Tail(u), k + 1)'
        BY <2>3, <3>6, <3>7, <3>10
      <4>2. loc'[r].position - 1 = k + 1
        BY <3>6, <3>8
      <4>3. Inserting(loc[r].new, loc[r].todo, loc[r].position - 1)'
        BY <3>8, <4>1, <4>2
      <4> QED BY <3>2, <4>1, <4>3 DEF RunOK, Closing, Held
    <3> QED BY <3>9, <3>10
  <2>7. config' \in Configs /\ granted' \in [Bridges -> SUBSET Addresses] /\ jump' \in BOOLEAN
    BY <1>1, <1>2, OfRun DEF TypeOK
  <2> QED BY <1>1, <1>5, <2>1, <2>2, <2>3, <2>4, <2>5, <2>6, <2>7, OfRun, OneMoves
<1> QED BY <1>1, <1>4, <1>5

\* stage_rule_index: the listing finds a guard, or none.
LEMMA FindStageKeeps ==
    ASSUME OneRun, ChainInv, NEW r \in Runs, FindStage(r)
    PROVE  ChainInv'
<1>1. UNCHANGED <<fwVars, config, granted, meddles>> /\ pc[r] = "findStage"
  BY DEF FindStage
<1> DEFINE i == SelectInSeq(chain, Staged)
           new == [loc[r] EXCEPT !.index = i]
<1>2. CASE i # 0 /\ Goto(r, "deleteStage", new)
  <2>1. chain \in Seq(Rules)
    BY OfRun DEF TypeOK
  <2>2. i \in DOMAIN chain /\ Staged(chain[i]) /\ i \in Nat
    BY <1>2, <2>1, FoundStaged
  <2>3. /\ new \in Locals /\ new.index = i /\ new.new = loc[r].new /\ new.act = loc[r].act
        /\ new.seen = loc[r].seen
    <3> HIDE DEF i
    <3> QED BY <2>2, OfRun DEF Locals
  <2>4. pc'[r] = "deleteStage" /\ loc'[r] = new /\ "deleteStage" \in Places
    BY <1>2, OfRun DEF Places, Closing
  <2> HIDE DEF new, i
  <2>5. RunTyped(r)'
    BY <1>1, <1>2, <2>3, <2>4, OfRun DEF RunTyped
  <2>6. IndexOK(r)'
    BY <1>1, <2>2, <2>3, <2>4 DEF IndexOK, fwVars
  <2>7. RunOK(r)'
    BY <1>1, <2>3, <2>4, OfRun DEF RunOK, Held, Closing, Places, TopIs, fwVars
  <2> QED BY <1>1, <1>2, <2>3, <2>4, <2>5, <2>6, <2>7, QuietKeeps
<1>3. CASE Go(r, "done")
  <2>1. /\ Goto(r, "done", loc[r]) /\ pc'[r] = "done" /\ loc'[r] = loc[r] /\ "done" \in Places
        /\ loc[r] \in Locals
    BY <1>3, OfRun DEF Go, Places, Closing
  <2>2. RunTyped(r)' /\ IndexOK(r)'
    BY <1>1, <2>1, OfRun DEF RunTyped, IndexOK
  <2>3. RunOK(r)'
    BY <1>1, <2>1, OfRun DEF RunOK, Held, Closing, Places, TopIs, fwVars
  <2> QED BY <1>1, <2>1, <2>2, <2>3, QuietKeeps
<1> QED BY <1>2, <1>3 DEF FindStage

\* An apply that deletes a guard leaves its rules on top.
LEMMA RulesStay ==
    ASSUME TypeOK, NEW new, Ruled(new, granted), TopIs(new, Len(new)),
           NEW i \in DOMAIN chain, Staged(chain[i]), chain' = RemoveAt(chain, i)
    PROVE  TopIs(new, Len(new))'
<1>1. chain \in Seq(Rules) /\ Len(chain) \in Nat /\ i \in 1 .. Len(chain) /\ Len(new) \in Nat
      /\ \A j \in 1 .. Len(new) : new[j].owner = "tag"
  BY NewTagged DEF TypeOK
<1>2. Len(new) < i
  BY <1>1 DEF TopIs, Staged
<1>3. Len(chain') = Len(chain) - 1 /\ \A j \in 1 .. i - 1 : chain'[j] = chain[j]
  BY <1>1, RemovedAt
<1>4. Len(new) <= Len(chain') /\ \A j \in 1 .. Len(new) : chain'[j] = new[j]
  BY <1>1, <1>2, <1>3 DEF TopIs
<1> QED BY <1>4 DEF TopIs

\* remove_stage_rules: the guard at the index goes, the new rules stay on top.
LEMMA DeleteStageKeeps ==
    ASSUME OneRun, ChainInv, NEW r \in Runs, DeleteStage(r)
    PROVE  ChainInv'
<1> DEFINE new == [loc[r] EXCEPT !.index = 0]
           i == loc[r].index
<1>1. /\ UNCHANGED <<jump, config, granted, meddles>> /\ exists' \in BOOLEAN /\ pc[r] = "deleteStage"
      /\ \/ Goto(r, "findStage", new) /\ i <= Len(chain) /\ chain' = RemoveAt(chain, i)
         \/ Exit(r) /\ chain' = chain
  <2>1. exists \in BOOLEAN
    BY OfRun DEF TypeOK
  <2> QED BY <2>1 DEF DeleteStage, DeleteRule, Dies, fwVars
<1>2. chain \in Seq(Rules) /\ Len(chain) \in Nat /\ i \in Nat \ {0} /\ jump \in BOOLEAN /\ loc[r] \in Locals
  <2>1. loc[r] \in Locals /\ chain \in Seq(Rules) /\ jump \in BOOLEAN /\ RunTyped(r)
    BY OfRun DEF TypeOK
  <2> QED BY <1>1, <2>1 DEF Locals, RunTyped
<1>3. i <= Len(chain) => RemoveAt(chain, i) \in Seq(Rules)
  <2>1. i <= Len(chain) => i \in 1 .. Len(chain)
    BY <1>2
  <2> HIDE DEF i
  <2> QED BY <1>2, <2>1, RemovedAt
<1>4. chain' \in Seq(Rules)
  BY <1>1, <1>2, <1>3
<1>5. CASE Exit(r)
  BY <1>1, <1>2, <1>4, <1>5, OfRun, ExitKeeps
<1>6. CASE Goto(r, "findStage", new) /\ chain' = RemoveAt(chain, i)
  <2>1. /\ new \in Locals /\ new.new = loc[r].new /\ new.act = loc[r].act /\ new.seen = loc[r].seen
    BY <1>2 DEF Locals
  <2>2. pc'[r] = "findStage" /\ loc'[r] = new /\ "findStage" \in Places
    BY <1>6, OfRun DEF Places, Closing
  <2> HIDE DEF new
  <2>3. RunTyped(r)' /\ IndexOK(r)'
    BY <1>1, <2>1, <2>2, OfRun DEF RunTyped, IndexOK
  <2>4. RunOK(r)'
    <3> SUFFICES ASSUME loc[r].act = "apply", loc[r].seen = meddles PROVE RunOK(r)'
      BY <1>1, <2>1, <2>2 DEF RunOK
    <3> DEFINE n == loc[r].new
    <3>1. Ruled(n, granted) /\ jump /\ TopIs(n, Len(n))
      BY <1>1, OfRun DEF RunOK, Closing, Places
    <3>2. i \in DOMAIN chain /\ Staged(chain[i])
      BY <1>1, OfRun DEF IndexOK
    <3>3. TopIs(n, Len(n))'
      <4>1. ASSUME NEW m, Ruled(m, granted), TopIs(m, Len(m)), NEW j \in DOMAIN chain, Staged(chain[j]),
                   chain' = RemoveAt(chain, j)
            PROVE  TopIs(m, Len(m))'
        BY <4>1, OfRun, RulesStay
      <4>2. Ruled(loc[r].new, granted) /\ TopIs(loc[r].new, Len(loc[r].new))
        BY <3>1
      <4>3. ASSUME NEW m, m = loc[r].new PROVE TopIs(m, Len(m))'
        <5> HIDE DEF i
        <5> QED BY <1>6, <3>2, <4>1, <4>2, <4>3
      <4>4. PICK m : m = loc[r].new
        OBVIOUS
      <4>5. loc'[r].new = m
        BY <2>1, <2>2, <4>4
      <4> QED BY <2>1, <2>2, <4>3, <4>4, <4>5
    <3>4. Ruled(loc'[r].new, granted') /\ jump'
      BY <1>1, <2>1, <2>2, <3>1
    <3>5. TopIs(loc[r].new, Len(loc[r].new))'
      BY <3>3
    <3> QED BY <2>2, <3>4, <3>5 DEF RunOK, Closing, Held
  <2>5. config' \in Configs /\ granted' \in [Bridges -> SUBSET Addresses] /\ jump' \in BOOLEAN
    BY <1>1, <1>2, OfRun DEF TypeOK
  <2> QED BY <1>1, <1>4, <1>6, <2>1, <2>2, <2>3, <2>4, <2>5, OfRun, OneMoves
<1> QED BY <1>1, <1>5, <1>6

\* A run ends, or is killed.
LEMMA LeaveKeeps ==
    ASSUME OneRun, ChainInv, NEW r \in Runs, Leave(r) \/ Kill(r)
    PROVE  ChainInv'
<1>1. Exit(r) /\ UNCHANGED <<fwVars, config, granted, meddles>>
  BY DEF Leave, Kill, Dies
<1>2. exists' \in BOOLEAN /\ jump' \in BOOLEAN /\ chain' \in Seq(Rules)
  BY <1>1, OfRun DEF fwVars, ChainInv, TypeOK
<1> QED BY <1>1, <1>2, ExitKeeps

\* Every step of a run keeps the invariant.
LEMMA StepKeeps ==
    ASSUME OneRun, ChainInv, NEW r \in Runs,
           Start(r, "apply") \/ Start(r, "remove") \/ Step(r) \/ Kill(r)
    PROVE  ChainInv'
<1>1. CASE Start(r, "apply")
  BY <1>1, StartKeeps
<1>2. CASE Start(r, "remove")
  BY <1>2, StartKeeps
<1>3. CASE Load(r)
  BY <1>3, LoadKeeps
<1>4. CASE NewChain(r)
  BY <1>4, NewChainKeeps
<1>5. CASE Jump(r)
  BY <1>5, JumpKeeps
<1>6. CASE Guard(r)
  BY <1>6, GuardKeeps
<1>7. CASE Probe(r)
  BY <1>7, ProbeKeeps
<1>8. CASE Find(r)
  BY <1>8, FindKeeps
<1>9. CASE Delete(r)
  BY <1>9, DeleteKeeps
<1>10. CASE Insert(r)
  BY <1>10, InsertKeeps
<1>11. CASE FindStage(r)
  BY <1>11, FindStageKeeps
<1>12. CASE DeleteStage(r)
  BY <1>12, DeleteStageKeeps
<1>13. CASE Leave(r) \/ Kill(r)
  BY <1>13, LeaveKeeps
<1> QED BY <1>1, <1>2, <1>3, <1>4, <1>5, <1>6, <1>7, <1>8, <1>9, <1>10, <1>11, <1>12, <1>13 DEF Step

\* Whoever meddles disturbs every run.
LEMMA MeddleKeeps ==
    ASSUME ChainInv, Meddle, exists' \in BOOLEAN, jump' \in BOOLEAN, chain' \in Seq(Rules)
    PROVE  ChainInv'
<1>1. UNCHANGED <<config, granted, pc, loc>> /\ meddles' = meddles + 1
  BY DEF Meddle
<1>2. TypeOK /\ meddles \in Nat
  BY DEF ChainInv, TypeOK
<1>3. ASSUME NEW r \in Runs PROVE RunTyped(r)' /\ loc'[r].seen # meddles'
  <2>1. loc[r].seen \in Nat /\ RunTyped(r)
    BY <1>2 DEF TypeOK, Locals
  <2>2. loc[r].seen <= meddles + 1 /\ loc[r].seen # meddles + 1
    BY <1>2, <2>1 DEF RunTyped
  <2> QED BY <1>1, <2>1, <2>2 DEF RunTyped
<1>4. TypeOK'
  BY <1>1, <1>2, <1>3 DEF TypeOK
<1> QED BY <1>3, <1>4 DEF ChainInv, RunOK, IndexOK

\* So does what others do.
LEMMA OthersKeep ==
    ASSUME ChainInv, Flush \/ DockerStart \/ AlienInsert \/ EditConfig
    PROVE  ChainInv'
<1>1. exists \in BOOLEAN /\ jump \in BOOLEAN /\ chain \in Seq(Rules) /\ Len(chain) \in Nat
  BY DEF ChainInv, TypeOK
<1>2. CASE Flush
  <2>1. chain' \in Seq(Rules) /\ exists' \in BOOLEAN /\ jump' \in BOOLEAN /\ Meddle
    <3>1. <<>> \in Seq(Rules)
      OBVIOUS
    <3> QED BY <1>2, <3>1 DEF Flush
  <2> QED BY <2>1, MeddleKeeps
<1>3. CASE AlienInsert
  <2>1. Alien \in Rules /\ 1 \in 1 .. Len(chain) + 1
    BY <1>1, RulesAreRules
  <2>2. chain' = InsertAt(chain, 1, Alien) /\ exists' = exists /\ jump' = jump /\ Meddle
    BY <1>3 DEF AlienInsert
  <2> HIDE DEF Alien
  <2>3. chain' \in Seq(Rules)
    BY <1>1, <2>1, <2>2, ChainInserted
  <2> QED BY <1>1, <2>2, <2>3, MeddleKeeps
<1>4. CASE DockerStart
  <2>1. UNCHANGED <<chain, config, granted, pc, loc, meddles>> /\ exists' = TRUE /\ jump' = TRUE
    BY <1>4 DEF DockerStart
  <2>2. TypeOK'
    BY <2>1 DEF ChainInv, TypeOK, RunTyped
  <2>3. ASSUME NEW r \in Runs PROVE RunOK(r)' /\ IndexOK(r)'
    <3>1. RunOK(r) /\ IndexOK(r)
      BY DEF ChainInv
    <3>2. IndexOK(r)'
      BY <2>1, <3>1 DEF IndexOK
    <3>3. RunOK(r)'
      BY <2>1, <3>1 DEF RunOK, TopIs, GuardsAt, Inserting
    <3> QED BY <3>2, <3>3
  <2> QED BY <2>2, <2>3 DEF ChainInv
<1>5. CASE EditConfig
  <2>1. UNCHANGED <<exists, jump, chain, granted, pc, loc, meddles>> /\ config' \in Configs
    BY <1>5 DEF EditConfig, fwVars
  <2>2. TypeOK'
    BY <2>1 DEF ChainInv, TypeOK, RunTyped
  <2>3. ASSUME NEW r \in Runs PROVE RunOK(r)' /\ IndexOK(r)'
    <3>1. RunOK(r) /\ IndexOK(r)
      BY DEF ChainInv
    <3>2. IndexOK(r)'
      BY <2>1, <3>1 DEF IndexOK
    <3>3. RunOK(r)'
      BY <2>1, <3>1 DEF RunOK, TopIs, GuardsAt, Inserting
    <3> QED BY <3>2, <3>3
  <2> QED BY <2>2, <2>3 DEF ChainInv
<1> QED BY <1>2, <1>3, <1>4, <1>5

\* So does what does not concern the firewall.
LEMMA StutterKeeps ==
    ASSUME ChainInv, UNCHANGED vars
    PROVE  ChainInv'
<1>1. UNCHANGED <<exists, jump, chain, config, granted, pc, loc, meddles>>
  BY DEF vars, fwVars
<1>2. TypeOK'
  BY <1>1 DEF ChainInv, TypeOK, RunTyped
<1>3. ASSUME NEW r \in Runs PROVE RunOK(r)' /\ IndexOK(r)'
  <2>1. RunOK(r) /\ IndexOK(r)
    BY DEF ChainInv
  <2>2. IndexOK(r)'
    BY <1>1, <2>1 DEF IndexOK
  <2>3. RunOK(r)'
    BY <1>1, <2>1 DEF RunOK, TopIs, GuardsAt, Inserting
  <2> QED BY <2>2, <2>3
<1> QED BY <1>2, <1>3 DEF ChainInv

\* It holds at first.
LEMMA StartsWell == Init => ChainInv
<1> SUFFICES ASSUME Init PROVE ChainInv
  OBVIOUS
<1>1. /\ exists = TRUE /\ jump = TRUE /\ chain \in Seq(Rules) /\ config \in Configs
      /\ granted = [b \in Bridges |-> {}] /\ pc = [r \in Runs |-> "idle"]
      /\ loc = [r \in Runs |-> Blank] /\ meddles = 0
  BY ContainmentAssumption DEF Init
<1>2. Blank \in Locals /\ "idle" \in Places
  <2>1. <<>> \in Seq(Rules)
    OBVIOUS
  <2> QED BY <2>1 DEF Blank, Locals, Places
<1>3. ASSUME NEW r \in Runs PROVE RunTyped(r) /\ RunOK(r) /\ IndexOK(r)
  <2>1. pc[r] = "idle" /\ loc[r].act = "none" /\ loc[r].seen = 0
    BY <1>1 DEF Blank
  <2> QED BY <1>1, <2>1 DEF RunTyped, RunOK, IndexOK
<1>4. TypeOK
  <2>1. exists \in BOOLEAN /\ jump \in BOOLEAN
    BY <1>1
  <2>2. granted \in [Bridges -> SUBSET Addresses] /\ pc \in [Runs -> Places] /\ loc \in [Runs -> Locals]
    BY <1>1, <1>2
  <2> QED BY <1>1, <1>3, <2>1, <2>2 DEF TypeOK
<1> QED BY <1>3, <1>4 DEF ChainInv

\* So it is inductive.
LEMMA EveryStepKeeps ==
    ASSUME OneRun, ChainInv, [Next]_vars
    PROVE  ChainInv'
BY StepKeeps, OthersKeep, StutterKeeps DEF Next

\* apply: as long as nobody disturbs it, the top of the chain is what it has put
\* there with install_stage_guards and insert_rule, and the index that
\* owned_rule_index or stage_rule_index found still names such a rule.
THEOREM ChainHolds ==
    ASSUME OneRun
    PROVE  Spec => []ChainInv
<1>1. Init => ChainInv
  BY StartsWell
<1>2. ChainInv /\ [Next]_vars => ChainInv'
  BY EveryStepKeeps
<1> QED BY <1>1, <1>2, PTL DEF Spec

-----------------------------------------------------------------------------
(* The three properties.                                                   *)

\* The only run takes the step, or nobody does.
LEMMA WhoMoves ==
    ASSUME OneRun, NEW r \in Runs, [Next]_vars
    PROVE  \/ Start(r, "apply") \/ Start(r, "remove") \/ Step(r) \/ Kill(r)
           \/ Flush \/ DockerStart \/ AlienInsert \/ EditConfig
           \/ UNCHANGED vars
BY DEF OneRun, Next

\* Between two states: what an undisturbed deletion deletes.
LEMMA SparesOthersStep ==
    ASSUME OneRun, ChainInv, [Next]_vars, NEW r \in Runs,
           pc[r] \in {"delete", "deleteStage"}, pc'[r] # pc[r], loc[r].seen = meddles, chain' # chain
    PROVE  \E i \in DOMAIN chain : /\ Owned(chain[i]) \/ Staged(chain[i])
                                   /\ chain' = RemoveAt(chain, i)
<1>1. IndexOK(r)
  BY OfRun
<1>2. CASE Delete(r)
  <2>1. chain' = RemoveAt(chain, loc[r].index) /\ pc[r] = "delete"
    BY <1>2 DEF Delete, DeleteRule, Dies, fwVars
  <2> QED BY <1>1, <2>1 DEF IndexOK
<1>3. CASE DeleteStage(r)
  <2>1. chain' = RemoveAt(chain, loc[r].index) /\ pc[r] = "deleteStage"
    BY <1>3 DEF DeleteStage, DeleteRule, Dies, fwVars
  <2> QED BY <1>1, <2>1 DEF IndexOK
<1>4. CASE Start(r, "apply") \/ Start(r, "remove") \/ Kill(r) \/ EditConfig \/ UNCHANGED vars
  BY <1>4 DEF Start, Kill, Dies, EditConfig, vars, fwVars
<1>5. CASE Flush \/ DockerStart \/ AlienInsert
  BY <1>5 DEF Flush, DockerStart, AlienInsert, Meddle
<1>6. CASE Load(r) \/ NewChain(r) \/ Jump(r) \/ Guard(r) \/ Probe(r) \/ Find(r) \/ Insert(r)
           \/ FindStage(r) \/ Leave(r)
  BY <1>6 DEF Load, NewChain, Jump, Guard, Probe, Find, Insert, FindStage, Leave
<1> QED BY <1>2, <1>3, <1>4, <1>5, <1>6, WhoMoves DEF Step

\* remove_owned_rules and remove_stage_rules: a run that nobody disturbs deletes
\* a rule of its own, and none of another user of the chain.
THEOREM SparesOthers ==
    ASSUME OneRun
    PROVE  Spec => UndisturbedSparesOthers
<1> DEFINE A == \A r \in Runs : pc[r] \in {"delete", "deleteStage"} /\ pc'[r] # pc[r]
                  /\ loc[r].seen = meddles /\ chain' # chain =>
                    \E i \in DOMAIN chain : /\ Owned(chain[i]) \/ Staged(chain[i])
                                           /\ chain' = RemoveAt(chain, i)
<1>1. ChainInv /\ [Next]_vars => [A]_vars
  BY SparesOthersStep
<1>2. Spec => []ChainInv
  BY ChainHolds
<1>3. [][A]_vars => UndisturbedSparesOthers
  BY DEF UndisturbedSparesOthers
<1> HIDE DEF A
<1> QED BY <1>1, <1>2, <1>3, PTL DEF Spec

\* What the new rules on top let through.
LEMMA RulesDecide ==
    ASSUME TypeOK, jump, NEW new, Ruled(new, granted), TopIs(new, Len(new))
    PROVE  /\ TunnelClosed
           /\ \A b \in Bridges : \A p \in Packets(b) :
                Passes(p) <=> p.to = "wg0" /\ Allow(b, p.dst) \in ToSet(new)
<1>0. PICK n \in Nat : Shape(new, granted, n)
  BY DEF Ruled
<1>1. /\ chain \in Seq(Rules) /\ Len(chain) \in Nat /\ Len(new) = n + 3 /\ n + 3 <= Len(chain)
      /\ \A i \in 1 .. n + 3 : chain[i] = new[i]
  BY <1>0 DEF TypeOK, Shape, TopIs
<1>2. /\ chain[n + 1] = Drop("tag", "any", "wg0") /\ chain[n + 2] = Drop("tag", "read", "any")
      /\ chain[n + 3] = Drop("tag", "upload", "any")
  BY <1>0, <1>1 DEF Shape
<1>3. ASSUME NEW i \in 1 .. n
      PROVE  \E c \in Bridges : \E a \in Addresses : chain[i] = Allow(c, a) /\ new[i] = Allow(c, a)
  <2>1. PICK c \in Bridges : \E a \in granted[c] : new[i] = Allow(c, a)
    BY <1>0 DEF Shape
  <2>2. PICK a \in granted[c] : new[i] = Allow(c, a)
    BY <2>1
  <2>3. a \in Addresses
    BY DEF TypeOK
  <2> QED BY <1>1, <2>2, <2>3
<1>4. ASSUME NEW p PROVE Passes(p) <=> ~Dropped(chain, p)
  BY DEF Passes, Dropped
\* A packet that none of the allowlist matches is dropped by a later rule.
<1>5. ASSUME NEW c, NEW p \in Packets(c), NEW m \in {n + 1, n + 2, n + 3}, Matches(chain[m], p),
             \A i \in 1 .. n : ~Matches(chain[i], p)
      PROVE  Dropped(chain, p)
  <2>1. m \in 1 .. Len(chain)
    BY <1>1
  <2>2. ASSUME NEW i \in 1 .. m, Matches(chain[i], p) PROVE chain[i].verdict = "DROP"
    <3>1. i \in {n + 1, n + 2, n + 3}
      BY <1>5, <2>2
    <3> QED BY <1>2, <3>1, DropMatches
  <2> QED BY <1>1, <1>5, <2>1, <2>2, DroppedBy
<1>6. ASSUME NEW p \in Packets("public"), p.to = "wg0" PROVE ~Passes(p)
  <2>1. "public" \notin Bridges
    BY DEF Bridges
  <2>2. ASSUME NEW i \in 1 .. n PROVE ~Matches(chain[i], p)
    <3>1. PICK c \in Bridges : \E a \in Addresses : chain[i] = Allow(c, a)
      BY <1>3
    <3>2. PICK a \in Addresses : chain[i] = Allow(c, a)
      BY <3>1
    <3> QED BY <2>1, <3>2, AllowMatches
  <2>3. Matches(chain[n + 1], p)
    BY <1>2, <1>6, DropMatches
  <2> QED BY <1>4, <1>5, <2>2, <2>3
<1>7. ASSUME NEW b \in Bridges, NEW p \in Packets(b), ~(p.to = "wg0" /\ Allow(b, p.dst) \in ToSet(new))
      PROVE  ~Passes(p)
  <2>1. ASSUME NEW i \in 1 .. n PROVE ~Matches(chain[i], p)
    <3>1. PICK c \in Bridges : \E a \in Addresses : chain[i] = Allow(c, a) /\ new[i] = Allow(c, a)
      BY <1>3
    <3>2. PICK a \in Addresses : chain[i] = Allow(c, a) /\ new[i] = Allow(c, a)
      BY <3>1
    <3>3. new[i] \in ToSet(new)
      BY <1>1 DEF ToSet
    <3>4. ~(b = c /\ p.to = "wg0" /\ p.dst = a)
      BY <1>7, <3>2, <3>3
    <3> QED BY <3>2, <3>4, AllowMatches
  <2>2. PICK m \in {n + 2, n + 3} : Matches(chain[m], p)
    BY <1>2, DropMatches DEF Bridges
  <2> QED BY <1>4, <1>5, <2>1, <2>2
<1>8. ASSUME NEW b \in Bridges, NEW p \in Packets(b), p.to = "wg0", Allow(b, p.dst) \in ToSet(new)
      PROVE  Passes(p)
  <2>1. SUFFICES ASSUME Dropped(chain, p) PROVE FALSE
    BY <1>4
  <2>2. PICK i \in 1 .. n + 3 : new[i] = Allow(b, p.dst)
    BY <1>1, <1>8 DEF ToSet
  <2>3. PICK d \in DOMAIN chain : /\ chain[d].verdict = "DROP"
                                  /\ \A j \in 1 .. (d - 1) : ~Matches(chain[j], p)
    BY <2>1 DEF Dropped
  <2>4. i \in 1 .. n
    <3>1. new[i].verdict = "ACCEPT" /\ chain[i] = new[i]
      BY <1>1, <2>2 DEF Allow
    <3>2. i # n + 1 /\ i # n + 2 /\ i # n + 3
      BY <1>2, <3>1, DropMatches
    <3> QED BY <3>2
  <2>5. PICK c \in Bridges : \E a \in Addresses : chain[i] = Allow(c, a) /\ new[i] = Allow(c, a)
    BY <1>3, <2>4
  <2>6. PICK a \in Addresses : chain[i] = Allow(c, a) /\ new[i] = Allow(c, a)
    BY <2>5
  <2>7. b = c /\ p.dst = a
    BY <2>2, <2>6 DEF Allow
  <2>8. Matches(chain[i], p)
    BY <1>8, <2>6, <2>7, AllowMatches
  <2>9. d \in 1 .. n
    BY <1>1, <2>3, <2>4, <2>8
  <2>10. PICK e \in Bridges : \E x \in Addresses : chain[d] = Allow(e, x)
    BY <1>3, <2>9
  <2>11. chain[d].verdict = "ACCEPT"
    BY <2>10 DEF Allow
  <2> QED BY <2>3, <2>11
<1> QED BY <1>6, <1>7, <1>8 DEF TunnelClosed

\* apply: when an undisturbed one is done, what passes is exactly what the
\* configuration it read allows, whatever older runs left in the chain.
THEOREM AppliesExactly ==
    ASSUME OneRun
    PROVE  Spec => []ApplyExact
<1>1. ChainInv => ApplyExact
  <2> SUFFICES ASSUME ChainInv, NEW r \in Runs, pc[r] = "done", loc[r].act = "apply", loc[r].seen = meddles
               PROVE  /\ TunnelClosed
                      /\ \A b \in Bridges : \A p \in Packets(b) :
                           Passes(p) <=> p.to = "wg0" /\ Allow(b, p.dst) \in ToSet(loc[r].new)
    BY DEF ApplyExact
  <2>1. TypeOK /\ jump /\ Ruled(loc[r].new, granted) /\ TopIs(loc[r].new, Len(loc[r].new))
    BY OfRun DEF RunOK, Closing, Places
  <2> QED BY <2>1, RulesDecide
<1>2. Spec => []ChainInv
  BY ChainHolds
<1> QED BY <1>1, <1>2, PTL

\* What is granted stays granted.
LEMMA GrantsGrow ==
    ASSUME OneRun, ChainInv, [Next]_vars
    PROVE  granted \in Grants /\ granted' \in Grants /\ \A b \in Bridges : granted[b] \subseteq granted'[b]
<1>1. granted \in Grants /\ granted' \in Grants
  BY EveryStepKeeps DEF ChainInv, TypeOK, Grants
<1>2. CASE UNCHANGED granted
  <2>1. granted' = granted
    BY <1>2
  <2> SUFFICES ASSUME NEW b \in Bridges PROVE granted[b] \subseteq granted'[b]
    BY <1>1
  <2> QED BY <2>1
<1>3. ASSUME NEW r \in Runs, Load(r) PROVE \A b \in Bridges : granted[b] \subseteq granted'[b]
  BY <1>1, <1>3 DEF Load, Grants
<1>4. UNCHANGED granted \/ \E r \in Runs : Load(r)
  <2>1. CASE Flush \/ DockerStart \/ AlienInsert \/ EditConfig \/ UNCHANGED vars
    BY <2>1 DEF Flush, DockerStart, AlienInsert, Meddle, EditConfig, vars
  <2>2. ASSUME NEW r \in Runs, Start(r, "apply") \/ Start(r, "remove") \/ Kill(r) \/ Leave(r) \/ NewChain(r)
                 \/ Jump(r) \/ Probe(r) \/ Find(r) \/ FindStage(r)
        PROVE  UNCHANGED granted
    BY <2>2 DEF Start, Kill, Leave, NewChain, Jump, Probe, Find, FindStage
  <2>3. ASSUME NEW r \in Runs, Guard(r) \/ Insert(r) PROVE UNCHANGED granted
    BY <2>3 DEF Guard, Insert, InsertRule
  <2>4. ASSUME NEW r \in Runs, Delete(r) \/ DeleteStage(r) PROVE UNCHANGED granted
    BY <2>4 DEF Delete, DeleteStage, DeleteRule
  <2> QED BY <2>1, <2>2, <2>3, <2>4 DEF Next, Step
<1> QED BY <1>1, <1>2, <1>3, <1>4

\* Which steps write to the chain, and what.
LEMMA ChainWriters ==
    ASSUME [Next]_vars
    PROVE  \/ chain' = chain \/ Flush \/ AlienInsert
           \/ \E r \in Runs : pc[r] = "guard" /\ chain' = InsertAt(chain, 1, Head(loc[r].todo))
           \/ \E r \in Runs : pc[r] = "insert" /\ chain' = InsertAt(chain, loc[r].position, Head(loc[r].todo))
           \/ \E r \in Runs : /\ pc[r] \in {"delete", "deleteStage"}
                              /\ chain' = RemoveAt(chain, loc[r].index)
<1>1. CASE DockerStart \/ EditConfig \/ UNCHANGED vars
  BY <1>1 DEF DockerStart, EditConfig, vars, fwVars
<1>2. ASSUME NEW r \in Runs, Start(r, "apply") \/ Start(r, "remove") \/ Kill(r) \/ Leave(r) \/ Load(r)
               \/ NewChain(r) \/ Jump(r) \/ Probe(r) \/ Find(r) \/ FindStage(r)
      PROVE  chain' = chain
  BY <1>2 DEF Start, Kill, Dies, Leave, Load, NewChain, Jump, Probe, Find, FindStage, fwVars
<1>3. ASSUME NEW r \in Runs, Guard(r)
      PROVE  chain' = chain \/ (pc[r] = "guard" /\ chain' = InsertAt(chain, 1, Head(loc[r].todo)))
  BY <1>3 DEF Guard, InsertRule, Dies, fwVars
<1>4. ASSUME NEW r \in Runs, Insert(r)
      PROVE  chain' = chain \/ (pc[r] = "insert" /\ chain' = InsertAt(chain, loc[r].position, Head(loc[r].todo)))
  BY <1>4 DEF Insert, InsertRule, Dies, fwVars
<1>5. ASSUME NEW r \in Runs, Delete(r) \/ DeleteStage(r)
      PROVE  \/ chain' = chain
             \/ pc[r] \in {"delete", "deleteStage"} /\ chain' = RemoveAt(chain, loc[r].index)
  BY <1>5 DEF Delete, DeleteStage, DeleteRule, Dies, fwVars
<1>6. ASSUME NEW r \in Runs, Step(r)
      PROVE  \/ Load(r) \/ NewChain(r) \/ Jump(r) \/ Probe(r) \/ Find(r) \/ FindStage(r) \/ Leave(r)
             \/ Guard(r) \/ Insert(r) \/ Delete(r) \/ DeleteStage(r)
  BY <1>6 DEF Step
<1> QED BY <1>1, <1>2, <1>3, <1>4, <1>5, <1>6 DEF Next

\* Nobody undoes what a run does.
LEMMA NotUndone ==
    ASSUME ChainInv, ~Undone, NEW r \in Runs, pc[r] # "idle"
    PROVE  jump' /\ loc[r].act = "apply" /\ loc[r].seen = meddles
BY OfRun DEF Undone, RunTyped

\* Between two states: nothing that was stopped gets through.
LEMMA ContainedStays ==
    ASSUME OneRun, ChainInv, [Next]_vars, Contained, ~Undone
    PROVE  Contained'
<1>0. /\ chain \in Seq(Rules) /\ Len(chain) \in Nat /\ chain' \in Seq(Rules) /\ Len(chain') \in Nat
      /\ TypeOK /\ jump'
  BY EveryStepKeeps DEF ChainInv, TypeOK, Undone
<1>1. SUFFICES ASSUME NEW b \in Bridges, NEW p \in Packets(b), ~Granted(granted', b, p)
               PROVE  Dropped(chain', p)
  BY <1>0, ContainedIs
<1>2. ~Granted(granted, b, p)
  BY <1>1, GrantsGrow DEF Granted
<1>3. Dropped(chain, p) /\ granted' \in Grants
  BY <1>2, ContainedIs, GrantsGrow
<1>4. CASE chain' = chain
  BY <1>3, <1>4
<1>5. CASE Flush
  BY <1>0, <1>5 DEF Flush
<1>6. CASE AlienInsert
  <2>1. Alien \in Rules /\ Alien.verdict = "DROP" /\ chain' = InsertAt(chain, 1, Alien)
    BY <1>6, RulesAreRules, DropMatches DEF AlienInsert, Alien
  <2> HIDE DEF Alien
  <2> QED BY <1>0, <1>3, <2>1, DropOnTop
<1>7. ASSUME NEW r \in Runs, pc[r] = "guard", chain' = InsertAt(chain, 1, Head(loc[r].todo))
      PROVE  Dropped(chain', p)
  <2>1. loc[r].todo = Guards \/ loc[r].todo = <<UploadGuard>>
    BY <1>7, NotUndone, OfRun DEF RunOK, Places
  <2>2. Head(loc[r].todo) \in {ReadGuard, UploadGuard}
    BY <2>1, RulesAreRules
  <2>3. Head(loc[r].todo) \in Rules /\ Head(loc[r].todo).verdict = "DROP"
    <3>1. ReadGuard.verdict = "DROP" /\ UploadGuard.verdict = "DROP"
      BY DropMatches DEF ReadGuard, UploadGuard
    <3> QED BY <2>2, <3>1, RulesAreRules
  <2> QED BY <1>0, <1>3, <1>7, <2>3, DropOnTop
<1>8. ASSUME NEW r \in Runs, pc[r] \in {"delete", "deleteStage"}, chain' = RemoveAt(chain, loc[r].index)
      PROVE  Dropped(chain', p)
  <2>1. loc[r].act = "apply" /\ loc[r].seen = meddles /\ Ruled(loc[r].new, granted) /\ IndexOK(r)
    BY <1>8, NotUndone, OfRun DEF RunOK, Places, Held, Closing
  <2>2. PICK n : n = loc[r].new
    OBVIOUS
  <2>3. Len(n) \in Nat /\ Ruled(n, granted) /\ Ruled(n, granted')
    <3>1. granted \in [Bridges -> SUBSET Addresses] /\ \A c \in Bridges : granted[c] \subseteq granted'[c]
      BY GrantsGrow DEF Grants
    <3>2. Ruled(n, granted)
      BY <2>1, <2>2
    <3>3. Ruled(n, granted')
      BY <3>1, <3>2, ShapeKept
    <3> QED BY <3>2, <3>3, NewTagged
  <2>4. PICK i : i = loc[r].index
    OBVIOUS
  <2>5. chain' = RemoveAt(chain, i)
    BY <1>8, <2>4
  <2>6. CASE pc[r] = "delete"
    <3>1. GuardsAt(0) /\ i \in DOMAIN chain /\ Owned(chain[i])
      BY <2>1, <2>4, <2>6, OfRun DEF RunOK, Held, IndexOK
    <3>2. GuardsAt(0)'
      BY <1>0, <2>5, <3>1, GuardsStay
    <3>3. 0 + 2 <= Len(chain') /\ chain'[0 + 1] = UploadGuard /\ chain'[0 + 2] = ReadGuard
      BY <3>2 DEF GuardsAt
    <3>4. 0 \in Nat /\ 0 <= Len(n) /\ \A j \in 1 .. 0 : chain'[j] = n[j]
      BY <2>3
    <3> QED BY <1>0, <1>1, <1>3, <2>3, <3>3, <3>4, GuardsContain
  <2>7. CASE pc[r] = "deleteStage"
    <3>1. TopIs(n, Len(n)) /\ i \in DOMAIN chain /\ Staged(chain[i])
      BY <2>1, <2>2, <2>4, <2>7, OfRun DEF RunOK, Closing, IndexOK
    <3>2. TopIs(n, Len(n))'
      BY <1>0, <2>3, <2>5, <3>1, RulesStay
    <3>3. Len(n) <= Len(chain') /\ \A j \in 1 .. Len(n) : chain'[j] = n[j]
      BY <3>2 DEF TopIs
    <3> QED BY <1>0, <1>1, <1>3, <2>3, <3>3, RulesContain
  <2> QED BY <1>8, <2>6, <2>7
<1>9. ASSUME NEW r \in Runs, pc[r] = "insert", chain' = InsertAt(chain, loc[r].position, Head(loc[r].todo))
      PROVE  Dropped(chain', p)
  <2>1. /\ Ruled(loc[r].new, granted) /\ Inserting(loc[r].new, loc[r].todo, loc[r].position - 1)
        /\ loc[r].todo \in Seq(Rules) /\ loc[r].position \in Nat \ {0}
    <3>1. loc[r] \in Locals
      BY OfRun
    <3>2. loc[r].todo \in Seq(Rules) /\ loc[r].position \in Nat \ {0}
      BY <3>1 DEF Locals
    <3> QED BY <1>9, <3>2, NotUndone, OfRun DEF RunOK, Places
  <2>2. PICK n : n = loc[r].new
    OBVIOUS
  <2>3. PICK u : u = loc[r].todo
    OBVIOUS
  <2>4. PICK k : k = loc[r].position - 1
    OBVIOUS
  <2>5. /\ k \in Nat /\ k + 1 = loc[r].position /\ u \in Seq(Rules) /\ Inserting(n, u, k)
        /\ Ruled(n, granted)
    BY <2>1, <2>2, <2>3, <2>4
  <2>6. chain' = InsertAt(chain, k + 1, Head(u))
    BY <1>9, <2>3, <2>5
  <2>7. TopIs(n, k + 1)' /\ GuardsAt(k + 1)'
    BY <1>0, <2>5, <2>6, OneMore
  <2>8. Ruled(n, granted')
    <3>1. granted \in [Bridges -> SUBSET Addresses] /\ \A c \in Bridges : granted[c] \subseteq granted'[c]
      BY GrantsGrow DEF Grants
    <3> QED BY <2>5, <3>1, ShapeKept
  <2>9. k + 1 \in Nat /\ k + 1 <= Len(n)
    <3>1. Len(n) = k + Len(u) /\ u # <<>>
      BY <2>5 DEF Inserting
    <3>2. Len(u) \in Nat /\ Len(u) # 0
      BY <2>5, <3>1, EmptySeq
    <3> QED BY <2>5, <3>1, <3>2
  <2> DEFINE m == k + 1
  <2>10. /\ m + 2 <= Len(chain') /\ chain'[m + 1] = UploadGuard /\ chain'[m + 2] = ReadGuard
         /\ \A j \in 1 .. m : chain'[j] = n[j]
    BY <2>7 DEF TopIs, GuardsAt
  <2>11. m \in Nat /\ m <= Len(n)
    BY <2>9
  <2> HIDE DEF m
  <2> QED BY <1>0, <1>1, <1>3, <2>8, <2>10, <2>11, GuardsContain
<1> QED BY <1>4, <1>5, <1>6, <1>7, <1>8, <1>9, ChainWriters

\* install_stage_guards: what was contained stays contained, through every later
\* apply, wherever it fails or is killed, until a remove, a flush or a run that
\* others disturb.
THEOREM ContainedKept ==
    ASSUME OneRun
    PROVE  Spec => StaysContained
<1> DEFINE A == Contained /\ ~Undone => Contained'
<1>1. ChainInv /\ [Next]_vars => [A]_fwVars
  BY ContainedStays
<1>2. Spec => []ChainInv
  BY ChainHolds
<1>3. [][A]_fwVars => StaysContained
  BY DEF StaysContained
<1> HIDE DEF A
<1> QED BY <1>1, <1>2, <1>3, PTL DEF Spec

=============================================================================
