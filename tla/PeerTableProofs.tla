--------------------------- MODULE PeerTableProofs ---------------------------
(***************************************************************************)
(* Proofs about the routing table (PeerTable): the confirmation stamps are *)
(* earned and the eviction marks exact, for any set of peers and           *)
(* addresses, every bucket count and capacity, every limit on addresses,   *)
(* every queue length, lifetime and seed list.                             *)
(***************************************************************************)
EXTENDS PeerTable, FiniteSetTheorems, TLAPS

-----------------------------------------------------------------------------
(***************************************************************************)
(* Induction over the natural numbers, and functions defined step by step. *)
(***************************************************************************)

\* A non-empty set of natural numbers has a least element.
LEMMA LeastNat ==
    ASSUME NEW T, T \subseteq Nat, T # {}
    PROVE  \E x \in T : \A y \in T : x <= y
<1> DEFINE R == OpToRel(<,Nat)
<1>1. IsWellFoundedOn(R, Nat)
  BY NatLessThanWellFounded, Zenon
<1>2. \A p, q \in Nat : p < q => <<p, q>> \in R
  BY Zenon DEF OpToRel
<1> HIDE DEF R
<1>3. PICK x \in T : \A y \in T : ~(<<y, x>> \in R)
  BY <1>1, WFMin, Zenon
<1>4. \A y \in T : ~(y < x)
  BY <1>2, <1>3, Zenon
<1> QED
  BY <1>4

\* A set with 0, and with the successor of every natural number in it, has them
\* all.
LEMMA SetInduction ==
    ASSUME NEW T, 0 \in T, \A n \in Nat : n \in T => n + 1 \in T
    PROVE  Nat \subseteq T
<1> SUFFICES ASSUME Nat \ T # {} PROVE FALSE
  BY Zenon
<1>1. PICK x \in Nat \ T : \A y \in Nat \ T : x <= y
  BY LeastNat, Zenon
<1>2. x # 0 /\ x - 1 \in Nat /\ x - 1 \notin Nat \ T
  BY <1>1
<1> QED
  BY <1>1, <1>2

\* The steps of an iteration, and what it means for a function to follow them.
Steps(N, S) == [1 .. N -> [S -> S]]
Iterates(g, N, x, F) == g[0] = x /\ \A i \in 1 .. N : g[i] = F[i][g[i - 1]]

\* An iteration of any length exists.
LEMMA Iterated ==
    ASSUME NEW N \in Nat, NEW S, NEW x \in S, NEW F \in Steps(N, S)
    PROVE  \E g \in [0 .. N -> S] : Iterates(g, N, x, F)
<1> USE DEF Steps, Iterates
<1> DEFINE Upto(n) == \E g \in [0 .. n -> S] : g[0] = x /\ \A i \in 1 .. n : g[i] = F[i][g[i - 1]]
           T == {n \in Nat : n <= N => Upto(n)}
<1>1. 0 \in T
  <2>1. [i \in 0 .. 0 |-> x] \in [0 .. 0 -> S] /\ [i \in 0 .. 0 |-> x][0] = x
    OBVIOUS
  <2>2. \A i \in 1 .. 0 : FALSE
    OBVIOUS
  <2> QED
    BY <2>1, <2>2, Zenon
<1>2. ASSUME NEW n \in Nat, n \in T PROVE n + 1 \in T
  <2> SUFFICES ASSUME n + 1 <= N PROVE Upto(n + 1)
    OBVIOUS
  <2>1. PICK g \in [0 .. n -> S] : g[0] = x /\ \A i \in 1 .. n : g[i] = F[i][g[i - 1]]
    BY <1>2
  <2> DEFINE h == [i \in 0 .. n + 1 |-> IF i = n + 1 THEN F[n + 1][g[n]] ELSE g[i]]
  <2>2. F[n + 1] \in [S -> S] /\ g[n] \in S
    BY <2>1
  <2>3. F[n + 1][g[n]] \in S
    BY <2>2, Zenon
  <2>4. h \in [0 .. n + 1 -> S]
    BY <2>1, <2>3
  <2>5. h[0] = x /\ h[n + 1] = F[n + 1][g[n]] /\ \A i \in 0 .. n : h[i] = g[i]
    BY <2>1
  <2> HIDE DEF h
  <2>6. ASSUME NEW i \in 1 .. n + 1 PROVE h[i] = F[i][h[i - 1]]
    <3>1. CASE i = n + 1
      BY <2>5, <3>1
    <3>2. CASE i \in 1 .. n
      BY <2>1, <2>5, <3>2
    <3> QED
      BY <3>1, <3>2
  <2> QED
    BY <2>4, <2>5, <2>6, Zenon
<1> HIDE DEF T
<1>3. N \in T
  BY <1>1, <1>2, SetInduction, Zenon
<1> QED
  BY <1>3 DEF T

-----------------------------------------------------------------------------
(***************************************************************************)
(* Slices.                                                                 *)
(***************************************************************************)

\* First finds the least index there is.
LEMMA FirstIn ==
    ASSUME NEW T, T \subseteq Nat, T # {}
    PROVE  First(T) \in T
  BY LeastNat, Zenon DEF First

\* A slice of A is one of every larger set.
LEMMA SeqGrows ==
    ASSUME NEW A, NEW B, A \subseteq B, NEW s \in Seq(A)
    PROVE  s \in Seq(B)
  OBVIOUS

\* A function on 1 .. n is a slice.
LEMMA SeqIs ==
    ASSUME NEW A, NEW m \in Nat, NEW s \in [1 .. m -> A]
    PROVE  s \in Seq(A)
  OBVIOUS

\* Appending.
LEMMA AppendIn ==
    ASSUME NEW A, NEW s \in Seq(A), NEW x \in A
    PROVE  /\ Append(s, x) \in Seq(A) /\ Len(Append(s, x)) = Len(s) + 1 /\ Len(s) \in Nat
           /\ DOMAIN s = 1 .. Len(s) /\ DOMAIN Append(s, x) = 1 .. Len(s) + 1
           /\ \A i \in 1 .. Len(s) + 1 : Append(s, x)[i] = IF i = Len(s) + 1 THEN x ELSE s[i]
  OBVIOUS

\* Cutting one element out.
LEMMA CutIn ==
    ASSUME NEW A, NEW s \in Seq(A), NEW i, s # << >>
    PROVE  /\ CutAt(s, i) \in Seq(A) /\ DOMAIN s = 1 .. Len(s) /\ Len(s) \in Nat \ {0}
           /\ DOMAIN CutAt(s, i) = 1 .. Len(s) - 1
           /\ \A j \in 1 .. Len(s) - 1 : CutAt(s, i)[j] = IF j < i THEN s[j] ELSE s[j + 1]
<1>1. Len(s) \in Nat \ {0} /\ DOMAIN s = 1 .. Len(s) /\ \A j \in 1 .. Len(s) : s[j] \in A
  OBVIOUS
<1>2. DOMAIN CutAt(s, i) = 1 .. Len(s) - 1 /\ \A j \in 1 .. Len(s) - 1 : CutAt(s, i)[j] \in A
  BY <1>1 DEF CutAt
<1>3. CutAt(s, i) \in [1 .. Len(s) - 1 -> A] /\ Len(s) - 1 \in Nat
  BY <1>1 DEF CutAt
<1>4. CutAt(s, i) \in Seq(A)
  BY <1>3
<1> QED
  BY <1>1, <1>2, <1>4, Zenon DEF CutAt

\* Replacing one element.
LEMMA ReplaceIn ==
    ASSUME NEW A, NEW s \in Seq(A), NEW i, NEW x \in A
    PROVE  /\ [s EXCEPT ![i] = x] \in Seq(A) /\ DOMAIN [s EXCEPT ![i] = x] = DOMAIN s
           /\ \A j \in DOMAIN s : [s EXCEPT ![i] = x][j] = IF j = i THEN x ELSE s[j]
<1> DEFINE t == [s EXCEPT ![i] = x]
<1>1. Len(s) \in Nat /\ s \in [1 .. Len(s) -> A] /\ DOMAIN s = 1 .. Len(s)
  OBVIOUS
<1>2. t \in [1 .. Len(s) -> A] /\ \A j \in DOMAIN s : t[j] = IF j = i THEN x ELSE s[j]
  BY <1>1, Zenon
<1>3. DOMAIN t = DOMAIN s
  BY Zenon
<1> HIDE DEF t
<1>4. t \in Seq(A)
  BY <1>1, <1>2
<1> QED
  BY <1>2, <1>3, <1>4, Zenon DEF t

\* The elements of a slice.
LEMMA ElementsIn ==
    ASSUME NEW A, NEW s \in Seq(A)
    PROVE  /\ Len(s) \in Nat /\ DOMAIN s = 1 .. Len(s) /\ DOMAIN s \subseteq Nat
           /\ \A i \in DOMAIN s : s[i] \in A
  OBVIOUS

\* No two alternates of a list share their address.
Distinct(s) == \A i, j \in DOMAIN s : s[i].addr = s[j].addr => i = j

\* c is what has been kept after each element of s.
FilterSteps(A, s, K, c) ==
    /\ c \in [0 .. Len(s) -> Seq(A)] /\ c[0] = << >>
    /\ \A i \in 1 .. Len(s) : c[i] = IF s[i] \in K THEN Append(c[i - 1], s[i]) ELSE c[i - 1]
    /\ Filtered(s, K) = c[Len(s)]

\* A loop that keeps some elements builds its result element by element.
LEMMA FilteredSteps ==
  ASSUME NEW A, NEW s \in Seq(A), NEW K
  PROVE  \E c : FilterSteps(A, s, K, c)
<1> DEFINE N == Len(s)
           More(t, n) == IF s[n] \in K THEN Append(t, s[n]) ELSE t
           F == [i \in 1 .. N |-> [t \in Seq(A) |-> More(t, i)]]
           Rec(g) == [n \in 0 .. N |-> IF n = 0 THEN << >> ELSE More(g[n - 1], n)]
           c == CHOOSE g : g = Rec(g)
<1>1. N \in Nat /\ (\A i \in 1 .. N : s[i] \in A) /\ << >> \in Seq(A)
  OBVIOUS
<1>2. Filtered(s, K) = c[N]
  BY Zenon  DEF Filtered
<1> HIDE DEF N
<1>3. \A i \in 1 .. N : \A t \in Seq(A) : More(t, i) \in Seq(A)
  BY <1>1
<1> HIDE DEF More
<1>4. F \in Steps(N, Seq(A))
  BY <1>3, Zenon DEF Steps
<1>5. PICK g \in [0 .. N -> Seq(A)] : Iterates(g, N, << >>, F)
  BY <1>1, <1>4, Iterated, Zenon
<1>6. g = Rec(g)
  <2>0. \A i \in 1 .. N : i - 1 \in 0 .. N
    BY <1>1
  <2>1. \A i \in 1 .. N : g[i - 1] \in Seq(A) /\ g[i] = F[i][g[i - 1]]
    BY <1>5, <2>0, Zenon DEF Iterates
  <2>2. \A i \in 1 .. N : g[i] = More(g[i - 1], i)
    BY <2>1, Zenon
  <2>3. g[0] = << >>
    BY <1>5, Zenon DEF Iterates
  <2>4. \A n \in 0 .. N : n = 0 \/ n \in 1 .. N
    BY <1>1
  <2>5. \A n \in 0 .. N : g[n] = IF n = 0 THEN << >> ELSE More(g[n - 1], n)
    BY <2>2, <2>3, <2>4, Zenon
  <2> QED
    BY <2>5, Zenon
<1>7. c = Rec(c)
  BY <1>6, Zenon
<1> HIDE DEF c
<1>8. DOMAIN c = 0 .. N /\ c[0] = << >> /\ \A i \in 1 .. N : c[i] = More(c[i - 1], i)
  <2>1. DOMAIN c = 0 .. N /\ \A i \in 0 .. N : c[i] = IF i = 0 THEN << >> ELSE More(c[i - 1], i)
    BY <1>7, Zenon
  <2>2. 0 \in 0 .. N /\ \A i \in 1 .. N : i \in 0 .. N /\ i # 0
    BY <1>1
  <2> QED
    BY <2>1, <2>2, Zenon
<1> DEFINE Z == {i \in Nat : i <= N => c[i] \in Seq(A)}
<1>9. 0 \in Z
  BY <1>1, <1>8, Zenon
<1>10. ASSUME NEW i \in Nat, i \in Z PROVE i + 1 \in Z
  <2> SUFFICES ASSUME i + 1 <= N PROVE c[i + 1] \in Seq(A)
    OBVIOUS
  <2>1. i + 1 \in 1 .. N /\ c[i] \in Seq(A) /\ (i + 1) - 1 = i
    BY <1>1, <1>10
  <2> QED
    BY <1>3, <1>8, <2>1, Zenon
<1> HIDE DEF Z
<1>11. Nat \subseteq Z
  BY <1>9, <1>10, SetInduction, Zenon
<1>12. c = [i \in 0 .. N |-> c[i]]
  BY <1>7, Zenon
<1>13. \A i \in 0 .. N : c[i] \in Seq(A)
  BY <1>1, <1>11 DEF Z
<1>14. c \in [0 .. N -> Seq(A)]
  BY <1>12, <1>13, Zenon
<1> QED
  BY <1>2, <1>8, <1>14, Zenon DEF N, More, FilterSteps

\* What it leaves are elements of the slice, and distinct ones if those are.
LEMMA FilteredIn ==
  ASSUME NEW A, NEW s \in Seq(A), NEW K
  PROVE  /\ Filtered(s, K) \in Seq(A)
         /\ \A i \in DOMAIN Filtered(s, K) : \E j \in DOMAIN s : Filtered(s, K)[i] = s[j]
         /\ Distinct(s) => Distinct(Filtered(s, K))
<1>0. PICK c : FilterSteps(A, s, K, c)
  BY FilteredSteps, Zenon
<1>1. /\ c \in [0 .. Len(s) -> Seq(A)] /\ c[0] = << >>
      /\ \A i \in 1 .. Len(s) : c[i] = IF s[i] \in K THEN Append(c[i - 1], s[i]) ELSE c[i - 1]
      /\ Filtered(s, K) = c[Len(s)]
  BY <1>0, Zenon DEF FilterSteps
<1> DEFINE N == Len(s)
           From(n) == \A i \in DOMAIN c[n] : \E j \in 1 .. n : c[n][i] = s[j]
           Z == {n \in Nat : n <= N => From(n) /\ (Distinct(s) => Distinct(c[n]))}
<1>2. N \in Nat /\ DOMAIN s = 1 .. N /\ \A i \in 1 .. N : s[i] \in A
  OBVIOUS
<1>3. 0 \in Z
  <2>1. DOMAIN c[0] = {}
    BY <1>1
  <2> QED
    BY <2>1, Zenon DEF Distinct
<1>4. ASSUME NEW n \in Nat, n \in Z PROVE n + 1 \in Z
  <2> SUFFICES ASSUME n + 1 <= N PROVE From(n + 1) /\ (Distinct(s) => Distinct(c[n + 1]))
    OBVIOUS
  <2> DEFINE p == c[n]
             x == s[n + 1]
  <2>1. n + 1 \in 1 .. N /\ (n + 1) - 1 = n /\ n \in 0 .. N /\ n + 1 \in 1 .. n + 1
    BY <1>2
  <2>2. p \in Seq(A) /\ x \in A /\ c[n + 1] = IF x \in K THEN Append(p, x) ELSE p
    BY <1>1, <1>2, <2>1, Zenon
  <2>3. (\A i \in DOMAIN p : \E j \in 1 .. n : p[i] = s[j]) /\ (Distinct(s) => Distinct(p))
    BY <1>4, <2>1
  <2>4. \A j \in 1 .. n : j \in 1 .. n + 1 /\ j \in DOMAIN s /\ j # n + 1
    BY <1>2, <2>1
  <2>7. x = s[n + 1]
    BY Zenon
  <2> HIDE DEF p, x
  <2>5. CASE x \notin K
    BY <2>2, <2>3, <2>4, <2>5, Zenon
  <2>6. CASE x \in K
    <3> DEFINE q == Append(p, x)
    <3>1. /\ Len(p) \in Nat /\ DOMAIN p = 1 .. Len(p) /\ DOMAIN q = 1 .. Len(p) + 1
          /\ \A i \in 1 .. Len(p) + 1 : q[i] = IF i = Len(p) + 1 THEN x ELSE p[i]
      BY <2>2, AppendIn
    <3> HIDE DEF q
    <3>2. \A i \in DOMAIN q : (i \in DOMAIN p /\ q[i] = p[i]) \/ (i = Len(p) + 1 /\ q[i] = x)
      BY <3>1
    <3>3. c[n + 1] = q
      BY <2>2, <2>6, Zenon DEF q
    <3>4. From(n + 1)
      BY <2>1, <2>3, <2>4, <2>7, <3>2, <3>3, Zenon
    <3>5. ASSUME Distinct(s) PROVE Distinct(q)
      <4>1. \A i \in DOMAIN p : p[i].addr # x.addr
        BY <1>2, <2>1, <2>3, <2>4, <2>7, <3>5, Zenon DEF Distinct
      <4>2. \A i, j \in DOMAIN p : p[i].addr = p[j].addr => i = j
        BY <2>3, <3>5, Zenon DEF Distinct
      <4> QED
        BY <3>2, <4>1, <4>2, Zenon DEF Distinct
    <3> QED
      BY <3>3, <3>4, <3>5, Zenon
  <2> QED
    BY <2>5, <2>6, Zenon
<1> HIDE DEF Z
<1>5. N \in Z
  BY <1>2, <1>3, <1>4, SetInduction, Zenon
<1>6. From(N) /\ (Distinct(s) => Distinct(c[N])) /\ c[N] \in Seq(A)
  BY <1>1, <1>2, <1>5 DEF Z
<1> QED
  BY <1>1, <1>2, <1>6, Zenon

-----------------------------------------------------------------------------
(* Contacts whose stamps are earned *)

AddrRecs == [addr : Addr, seen : Nat, conf : Nat]

\* What ConfirmationsAreEarned says of one stamp, for the history L.
Genuine(L, p, a, conf) ==
    /\ \E b \in Addr : conf <= L[<<p, b>>]
    /\ AllTracked(p) => conf <= L[<<p, a>>]

\* The alternates of p: earned stamps, distinct addresses of p.
AltLists(L, p) ==
    {s \in Seq(AddrRecs) :
        /\ \A i \in DOMAIN s : s[i].addr \in AddrsOf(p) /\ Genuine(L, p, s[i].addr, s[i].conf)
        /\ Distinct(s)}

\* The contacts of the table: none lists its preferred address among its alternates.
EarnedContacts(L) ==
    {c \in [id : Peer, addr : Addr, seen : Nat, conf : Nat, alts : Seq(AddrRecs)] :
        /\ c.addr \in AddrsOf(c.id) /\ Genuine(L, c.id, c.addr, c.conf)
        /\ c.alts \in AltLists(L, c.id)
        /\ \A i \in DOMAIN c.alts : c.alts[i].addr # c.addr}

Histories == {L \in [Peer \X Addr -> Nat] : \E k \in Nat : \A x \in Peer \X Addr : L[x] <= k}

\* The addresses of a peer are finitely many.
LEMMA AddrsFinite ==
    ASSUME NEW p \in Peer
    PROVE  /\ AddrsOf(p) \subseteq Addr /\ IsFiniteSet(AddrsOf(p))
           /\ Cardinality(AddrsOf(p)) \in Nat
<1>1. HeardAt[p] \subseteq Addr /\ TaughtAt[p] \subseteq Addr
  BY PeerAssumption, Zenon
<1>2. \A i \in DOMAIN Seeds : Seeds[i] \in [id : Peer, addr : Addr]
  BY PeerAssumption, ElementsIn, Zenon
<1>3. {x.addr : x \in {y \in Listed(Seeds) : y.id = p}} \subseteq Addr
  BY <1>2, Zenon DEF Listed
<1>4. AddrsOf(p) \subseteq Addr
  BY <1>1, <1>3, Zenon DEF AddrsOf
<1> QED
  BY <1>4, PeerAssumption, FS_Subset, FS_CardinalityType, Zenon

\* A zero stamp is earned by anyone, at any address.
LEMMA ZeroGenuine ==
    ASSUME NEW L \in Histories, NEW p \in Peer, NEW a \in Addr
    PROVE  Genuine(L, p, a, 0)
  BY DEF Genuine, Histories

\* The fields of a contact of the table.
LEMMA ContactFields ==
    ASSUME NEW L, NEW c \in EarnedContacts(L)
    PROVE  /\ c.id \in Peer /\ c.addr \in Addr /\ c.seen \in Nat /\ c.conf \in Nat
           /\ c.alts \in Seq(AddrRecs) /\ c.alts \in AltLists(L, c.id)
           /\ c.addr \in AddrsOf(c.id) /\ Genuine(L, c.id, c.addr, c.conf)
           /\ \A i \in DOMAIN c.alts :
                /\ c.alts[i].addr \in AddrsOf(c.id) /\ c.alts[i].addr # c.addr
                /\ c.alts[i].addr \in Addr /\ c.alts[i].seen \in Nat /\ c.alts[i].conf \in Nat
                /\ Genuine(L, c.id, c.alts[i].addr, c.alts[i].conf)
           /\ Distinct(c.alts)
<1>1. /\ c \in [id : Peer, addr : Addr, seen : Nat, conf : Nat, alts : Seq(AddrRecs)]
      /\ c.addr \in AddrsOf(c.id) /\ Genuine(L, c.id, c.addr, c.conf)
      /\ c.alts \in AltLists(L, c.id)
      /\ \A i \in DOMAIN c.alts : c.alts[i].addr # c.addr
  BY Zenon  DEF EarnedContacts
<1>2. c.id \in Peer /\ c.addr \in Addr /\ c.seen \in Nat /\ c.conf \in Nat /\ c.alts \in Seq(AddrRecs)
  BY <1>1, Zenon
<1>3. /\ \A i \in DOMAIN c.alts : c.alts[i].addr \in AddrsOf(c.id) /\ Genuine(L, c.id, c.alts[i].addr, c.alts[i].conf)
      /\ Distinct(c.alts)
  BY <1>1, Zenon DEF AltLists
<1>4. \A i \in DOMAIN c.alts : c.alts[i] \in AddrRecs
  BY <1>2, ElementsIn, Zenon
<1>5. \A x \in AddrRecs : x.addr \in Addr /\ x.seen \in Nat /\ x.conf \in Nat
  BY Zenon DEF AddrRecs
<1> QED
  BY <1>1, <1>2, <1>3, <1>4, <1>5, Zenon

\* Putting a contact together from its fields.
LEMMA ContactIs ==
    ASSUME NEW L, NEW p \in Peer, NEW a \in AddrsOf(p), NEW t \in Nat, NEW k \in Nat,
           NEW s \in AltLists(L, p),
           Genuine(L, p, a, k), \A i \in DOMAIN s : s[i].addr # a
    PROVE  [id |-> p, addr |-> a, seen |-> t, conf |-> k, alts |-> s] \in EarnedContacts(L)
<1>1. a \in Addr /\ s \in Seq(AddrRecs)
  BY AddrsFinite, Zenon DEF AltLists
<1> QED
  BY <1>1, Zenon DEF EarnedContacts

\* A contact is the record of its fields.
LEMMA ContactEta ==
    ASSUME NEW L, NEW c \in EarnedContacts(L)
    PROVE  c = [id |-> c.id, addr |-> c.addr, seen |-> c.seen, conf |-> c.conf, alts |-> c.alts]
<1>1. c \in [id : Peer, addr : Addr, seen : Nat, conf : Nat, alts : Seq(AddrRecs)]
  BY Zenon  DEF EarnedContacts
<1> QED
  BY <1>1, Zenon

\* NewNodeContact: a fresh contact has no alternates.
LEMMA FreshContact ==
    ASSUME NEW L, NEW p \in Peer, NEW a \in AddrsOf(p), NEW t \in Nat, NEW k \in Nat,
           Genuine(L, p, a, k)
    PROVE  Contact(p, a, t, k) \in EarnedContacts(L) /\ Contact(p, a, t, k).id = p
<1>1. << >> \in AltLists(L, p) /\ \A i \in DOMAIN << >> : << >>[i].addr # a
  BY DEF AltLists, Distinct
<1>2. [id |-> p, addr |-> a, seen |-> t, conf |-> k, alts |-> << >>] \in EarnedContacts(L)
  BY <1>1, ContactIs, Zenon
<1> QED
  BY <1>2, Zenon DEF Contact

\* A later message of a peer takes no stamp away.
LEMMA HistoryGrows ==
    ASSUME NEW L \in Histories, NEW M \in Histories, \A x \in Peer \X Addr : L[x] <= M[x]
    PROVE  /\ \A p \in Peer : \A a \in Addr : \A k \in Nat : Genuine(L, p, a, k) => Genuine(M, p, a, k)
           /\ EarnedContacts(L) \subseteq EarnedContacts(M)
<1>1. ASSUME NEW p \in Peer, NEW a \in Addr, NEW k \in Nat, Genuine(L, p, a, k)
      PROVE  Genuine(M, p, a, k)
  <2>1. \A b \in Addr : L[<<p, b>>] \in Nat /\ M[<<p, b>>] \in Nat /\ L[<<p, b>>] <= M[<<p, b>>]
    BY Zenon DEF Histories
  <2> QED
    BY <1>1, <2>1 DEF Genuine
<1>2. ASSUME NEW c \in EarnedContacts(L) PROVE c \in EarnedContacts(M)
  <2>1. /\ c.id \in Peer /\ c.addr \in Addr /\ c.seen \in Nat /\ c.conf \in Nat
        /\ c.alts \in Seq(AddrRecs)
        /\ c.addr \in AddrsOf(c.id) /\ Genuine(L, c.id, c.addr, c.conf)
        /\ \A i \in DOMAIN c.alts :
             /\ c.alts[i].addr \in AddrsOf(c.id) /\ c.alts[i].addr # c.addr
             /\ c.alts[i].addr \in Addr /\ c.alts[i].conf \in Nat
             /\ Genuine(L, c.id, c.alts[i].addr, c.alts[i].conf)
        /\ Distinct(c.alts)
    BY ContactFields, Zenon
  <2>2. c.alts \in AltLists(M, c.id)
    BY <1>1, <2>1, Zenon DEF AltLists
  <2>3. c = [id |-> c.id, addr |-> c.addr, seen |-> c.seen, conf |-> c.conf, alts |-> c.alts]
    BY ContactEta, Zenon
  <2>4. Genuine(M, c.id, c.addr, c.conf)
    BY <1>1, <2>1, Zenon
  <2>5. [id |-> c.id, addr |-> c.addr, seen |-> c.seen, conf |-> c.conf, alts |-> c.alts] \in EarnedContacts(M)
    BY <2>1, <2>2, <2>4, ContactIs, Zenon
  <2> QED
    BY <2>3, <2>5, Zenon
<1> QED
  BY <1>1, <1>2, Zenon

\* An alternate may be overwritten by any other address of the peer.
LEMMA AltReplaced ==
    ASSUME NEW L, NEW p \in Peer, NEW s \in AltLists(L, p), NEW i \in DOMAIN s,
           NEW a \in AddrsOf(p), NEW t \in Nat, NEW k \in Nat, Genuine(L, p, a, k),
           \A j \in DOMAIN s : s[j].addr = a => j = i
    PROVE  /\ [s EXCEPT ![i] = AddrState(a, t, k)] \in AltLists(L, p)
           /\ DOMAIN [s EXCEPT ![i] = AddrState(a, t, k)] = DOMAIN s
           /\ \A j \in DOMAIN s :
                [s EXCEPT ![i] = AddrState(a, t, k)][j] = IF j = i THEN AddrState(a, t, k) ELSE s[j]
<1> DEFINE x == AddrState(a, t, k)
           u == [s EXCEPT ![i] = x]
<1>1. a \in Addr
  BY AddrsFinite, Zenon
<1>2. x \in AddrRecs /\ x.addr = a /\ x.seen = t /\ x.conf = k
  BY <1>1, Zenon DEF AddrRecs, AddrState
<1> HIDE DEF x
<1>3. s \in Seq(AddrRecs) /\ Distinct(s)
      /\ \A j \in DOMAIN s : s[j].addr \in AddrsOf(p) /\ Genuine(L, p, s[j].addr, s[j].conf)
  BY Zenon  DEF AltLists
<1>4. u \in Seq(AddrRecs) /\ DOMAIN u = DOMAIN s /\ \A j \in DOMAIN s : u[j] = IF j = i THEN x ELSE s[j]
  BY <1>2, <1>3, ReplaceIn, Zenon
<1> HIDE DEF u
<1>5. \A j \in DOMAIN u : u[j].addr \in AddrsOf(p) /\ Genuine(L, p, u[j].addr, u[j].conf)
  BY <1>2, <1>3, <1>4, Zenon
<1>6. Distinct(u)
  BY <1>2, <1>3, <1>4, Zenon DEF Distinct
<1>7. u \in AltLists(L, p)
  BY <1>4, <1>5, <1>6, Zenon DEF AltLists
<1> QED
  BY <1>4, <1>7, Zenon DEF u, x

\* An alternate takes over as the preferred address.
LEMMA UsingAltIn ==
    ASSUME NEW L, NEW c \in EarnedContacts(L), NEW i \in DOMAIN c.alts,
           NEW k \in Nat, Genuine(L, c.id, c.addr, k)
    PROVE  /\ UsingAlt(c, i, k) \in EarnedContacts(L)
           /\ UsingAlt(c, i, k).id = c.id /\ UsingAlt(c, i, k).conf = c.alts[i].conf
<1> DEFINE s == [c.alts EXCEPT ![i] = AddrState(c.addr, c.seen, k)]
           b == c.alts[i].addr
<1>1. /\ c.id \in Peer /\ c.addr \in Addr /\ c.seen \in Nat /\ c.conf \in Nat
      /\ c.alts \in AltLists(L, c.id)
      /\ c.addr \in AddrsOf(c.id)
      /\ \A j \in DOMAIN c.alts :
           /\ c.alts[j].addr \in AddrsOf(c.id) /\ c.alts[j].addr # c.addr
           /\ c.alts[j].seen \in Nat /\ c.alts[j].conf \in Nat
           /\ Genuine(L, c.id, c.alts[j].addr, c.alts[j].conf)
      /\ Distinct(c.alts)
  BY ContactFields, Zenon
<1>2. /\ s \in AltLists(L, c.id) /\ DOMAIN s = DOMAIN c.alts
      /\ \A j \in DOMAIN c.alts : s[j] = IF j = i THEN AddrState(c.addr, c.seen, k) ELSE c.alts[j]
  <2>1. \A j \in DOMAIN c.alts : c.alts[j].addr = c.addr => j = i
    BY <1>1, Zenon
  <2> QED
    BY <1>1, <2>1, AltReplaced
<1>3. UsingAlt(c, i, k) = [id |-> c.id, addr |-> b, seen |-> c.alts[i].seen,
                           conf |-> c.alts[i].conf, alts |-> s]
  BY Zenon  DEF UsingAlt
<1> HIDE DEF s
<1>4. \A j \in DOMAIN s : s[j].addr # b
  <2>1. AddrState(c.addr, c.seen, k).addr = c.addr
    BY Zenon DEF AddrState
  <2> QED
    BY <1>1, <1>2, <2>1, Zenon DEF Distinct
<1> DEFINE d == [id |-> c.id, addr |-> b, seen |-> c.alts[i].seen, conf |-> c.alts[i].conf, alts |-> s]
<1>5. d \in EarnedContacts(L)
  BY <1>1, <1>2, <1>4, ContactIs, Zenon
<1>6. d.id = c.id /\ d.conf = c.alts[i].conf
  BY Zenon
<1> QED
  BY <1>3, <1>5, <1>6, Zenon

\* Of the addresses of a contact one has the latest confirmation.
LEMMA LatestAlt ==
    ASSUME NEW L \in Histories, NEW c \in EarnedContacts(L), c.alts # << >>
    PROVE  \E i \in DOMAIN c.alts : \A j \in DOMAIN c.alts : c.alts[j].conf <= c.alts[i].conf
<1>1. PICK k \in Nat : \A x \in Peer \X Addr : L[x] \in Nat /\ L[x] <= k
  BY Zenon DEF Histories
<1>2. c.id \in Peer /\ c.alts \in Seq(AddrRecs)
      /\ \A j \in DOMAIN c.alts : c.alts[j].conf \in Nat /\ \E b \in Addr : c.alts[j].conf <= L[<<c.id, b>>]
  BY ContactFields, Zenon DEF Genuine
<1>3. \A j \in DOMAIN c.alts : c.alts[j].conf <= k
  <2> TAKE j \in DOMAIN c.alts
  <2>1. PICK b \in Addr : c.alts[j].conf <= L[<<c.id, b>>]
    BY <1>2, Zenon
  <2>2. <<c.id, b>> \in Peer \X Addr
    BY <1>2, Zenon
  <2>3. L[<<c.id, b>>] \in Nat /\ L[<<c.id, b>>] <= k
    BY <1>1, <2>2, Zenon
  <2> QED
    BY <1>2, <2>1, <2>3
<1> DEFINE T == {k - c.alts[j].conf : j \in DOMAIN c.alts}
<1>4. T \subseteq Nat
  BY <1>2, <1>3
<1>5. T # {}
  <2>1. Len(c.alts) \in Nat \ {0} /\ DOMAIN c.alts = 1 .. Len(c.alts)
    BY <1>2
  <2>2. 1 \in DOMAIN c.alts
    BY <2>1
  <2> QED
    BY <2>2, Zenon
<1>6. PICK m \in T : \A y \in T : m <= y
  BY <1>4, <1>5, LeastNat, Zenon
<1>7. PICK i \in DOMAIN c.alts : m = k - c.alts[i].conf
  BY <1>6, Zenon
<1>8. \A j \in DOMAIN c.alts : k - c.alts[i].conf <= k - c.alts[j].conf
  BY <1>6, <1>7, Zenon
<1>9. \A x, y \in Nat : k - x <= k - y => y <= x
  OBVIOUS
<1> QED
  BY <1>2, <1>8, <1>9, Zenon

\* A contact with other alternates, another stamp or another learn time.
LEMMA ContactWith ==
    ASSUME NEW L, NEW c \in EarnedContacts(L)
    PROVE  /\ \A s \in AltLists(L, c.id) : (\A i \in DOMAIN s : s[i].addr # c.addr) =>
                LET d == [c EXCEPT !.alts = s]
                IN  d \in EarnedContacts(L) /\ d.id = c.id /\ d.addr = c.addr /\ d.conf = c.conf /\ d.alts = s
           /\ \A k \in Nat : Genuine(L, c.id, c.addr, k) =>
                LET d == [c EXCEPT !.conf = k] IN d \in EarnedContacts(L) /\ d.id = c.id
           /\ \A t \in Nat :
                LET d == [c EXCEPT !.seen = t] IN d \in EarnedContacts(L) /\ d.id = c.id
<1>1. c = [id |-> c.id, addr |-> c.addr, seen |-> c.seen, conf |-> c.conf, alts |-> c.alts]
  BY ContactEta, Zenon
<1>2. /\ c.id \in Peer /\ c.seen \in Nat /\ c.conf \in Nat
      /\ c.alts \in AltLists(L, c.id) /\ c.addr \in AddrsOf(c.id)
      /\ Genuine(L, c.id, c.addr, c.conf)
      /\ \A i \in DOMAIN c.alts : c.alts[i].addr # c.addr
  BY ContactFields, Zenon
<1>3. \A s \in AltLists(L, c.id) : (\A i \in DOMAIN s : s[i].addr # c.addr) =>
        [id |-> c.id, addr |-> c.addr, seen |-> c.seen, conf |-> c.conf, alts |-> s] \in EarnedContacts(L)
  BY <1>2, ContactIs, Zenon
<1>4. \A k \in Nat : Genuine(L, c.id, c.addr, k) =>
        [id |-> c.id, addr |-> c.addr, seen |-> c.seen, conf |-> k, alts |-> c.alts] \in EarnedContacts(L)
  BY <1>2, ContactIs, Zenon
<1>5. \A t \in Nat :
        [id |-> c.id, addr |-> c.addr, seen |-> t, conf |-> c.conf, alts |-> c.alts] \in EarnedContacts(L)
  BY <1>2, ContactIs, Zenon
<1>6. \A s : [c EXCEPT !.alts = s]
               = [id |-> c.id, addr |-> c.addr, seen |-> c.seen, conf |-> c.conf, alts |-> s]
  BY <1>1
<1>7. \A k : [c EXCEPT !.conf = k]
               = [id |-> c.id, addr |-> c.addr, seen |-> c.seen, conf |-> k, alts |-> c.alts]
  BY <1>1
<1>8. \A t : [c EXCEPT !.seen = t]
               = [id |-> c.id, addr |-> c.addr, seen |-> t, conf |-> c.conf, alts |-> c.alts]
  BY <1>1
<1>9. \A p, a, t, k, s : LET d == [id |-> p, addr |-> a, seen |-> t, conf |-> k, alts |-> s]
                         IN  d.id = p /\ d.addr = a /\ d.conf = k /\ d.alts = s
  OBVIOUS
<1>10. \A s \in AltLists(L, c.id) : (\A i \in DOMAIN s : s[i].addr # c.addr) =>
         LET d == [c EXCEPT !.alts = s]
         IN  d \in EarnedContacts(L) /\ d.id = c.id /\ d.addr = c.addr /\ d.conf = c.conf /\ d.alts = s
  <2> SUFFICES ASSUME NEW s \in AltLists(L, c.id), \A i \in DOMAIN s : s[i].addr # c.addr
               PROVE  LET d == [c EXCEPT !.alts = s]
                      IN  /\ d \in EarnedContacts(L) /\ d.id = c.id /\ d.addr = c.addr
                          /\ d.conf = c.conf /\ d.alts = s
    BY Zenon
  <2> DEFINE e == [id |-> c.id, addr |-> c.addr, seen |-> c.seen, conf |-> c.conf, alts |-> s]
  <2>1. e \in EarnedContacts(L)
    BY <1>3, Zenon
  <2>2. [c EXCEPT !.alts = s] = e
    BY <1>6, Zenon
  <2>3. e.id = c.id /\ e.addr = c.addr /\ e.conf = c.conf /\ e.alts = s
    BY Zenon
  <2> QED
    BY <2>1, <2>2, <2>3, Zenon
<1>11. \A k \in Nat : Genuine(L, c.id, c.addr, k) =>
         LET d == [c EXCEPT !.conf = k] IN d \in EarnedContacts(L) /\ d.id = c.id
  BY <1>4, <1>7, <1>9, Zenon
<1>12. \A t \in Nat :
         LET d == [c EXCEPT !.seen = t] IN d \in EarnedContacts(L) /\ d.id = c.id
  BY <1>5, <1>8, <1>9, Zenon
<1> QED
  BY <1>10, <1>11, <1>12, Zenon

\* repointPreferredIfNeeded leaves the preferred address with the latest
\* confirmation of all.
LEMMA Repointed ==
    ASSUME NEW L \in Histories, NEW c \in EarnedContacts(L)
    PROVE  LET d == repointPreferred(c)
           IN  /\ d \in EarnedContacts(L) /\ d.id = c.id /\ d.conf \in Nat /\ c.conf <= d.conf
               /\ \A i \in DOMAIN c.alts : c.alts[i].conf <= d.conf
<1> DEFINE s == c.alts
           better == {i \in DOMAIN s : addrOutranks(s[i], c)}
           best == {i \in better : \A j \in better : ~addrOutranks(s[j], s[i])}
           d == repointPreferred(c)
<1>1. /\ c.conf \in Nat /\ c.seen \in Nat /\ c.alts \in Seq(AddrRecs) /\ Genuine(L, c.id, c.addr, c.conf)
      /\ \A i \in DOMAIN s : s[i].seen \in Nat /\ s[i].conf \in Nat
  BY ContactFields, Zenon
<1>2. d = IF best = {} THEN c ELSE UsingAlt(c, First(best), c.conf)
  BY Zenon  DEF repointPreferred
<1>3. \A x, y : x.conf \in Nat /\ y.conf \in Nat =>
        /\ addrOutranks(x, y) => y.conf <= x.conf
        /\ ~addrOutranks(x, y) => x.conf <= y.conf
        /\ x.conf > y.conf => addrOutranks(x, y)
        /\ y.conf > 0 /\ x.conf <= y.conf => ~addrOutranks(x, y)
  BY DEF addrOutranks
<1> HIDE DEF d
<1>4. CASE best = {}
  <2>1. d = c
    BY <1>2, <1>4, Zenon
  <2>2. ASSUME NEW i \in DOMAIN s, ~(s[i].conf <= c.conf) PROVE FALSE
    <3>1. s # << >>
      OBVIOUS
    <3>2. PICK m \in DOMAIN s : \A j \in DOMAIN s : s[j].conf <= s[m].conf
      BY <3>1, LatestAlt, Zenon
    <3>3. s[m].conf > c.conf /\ s[m].conf > 0
      BY <1>1, <2>2, <3>2
    <3>4. m \in best
      BY <1>1, <1>3, <3>2, <3>3, Zenon
    <3> QED
      BY <1>4, <3>4, Zenon
  <2>3. c.conf <= c.conf /\ \A i \in DOMAIN s : s[i].conf <= c.conf
    BY <1>1, <2>2
  <2> QED
    BY <1>1, <2>1, <2>3, Zenon DEF d
<1>5. CASE best # {}
  <2> DEFINE m == First(best)
  <2>1. best \subseteq Nat
    BY <1>1, ElementsIn, Zenon
  <2>2. m \in best
    BY <1>5, <2>1, FirstIn, Zenon
  <2> HIDE DEF m
  <2>3. m \in DOMAIN s /\ c.conf <= s[m].conf
    BY <1>1, <1>3, <2>2, Zenon
  <2>4. d \in EarnedContacts(L) /\ d.id = c.id /\ d.conf = s[m].conf
    BY <1>1, <1>2, <1>5, <2>3, UsingAltIn, Zenon DEF m
  <2>5. ASSUME NEW i \in DOMAIN s PROVE s[i].conf <= s[m].conf
    <3>1. CASE i \in better
      BY <1>1, <1>3, <2>2, <3>1, Zenon
    <3>2. CASE i \notin better
      <4>1. s[i].conf <= c.conf
        BY <1>1, <1>3, <3>2, Zenon
      <4> QED
        BY <1>1, <2>3, <4>1
    <3> QED
      BY <3>1, <3>2, Zenon
  <2> QED
    BY <1>1, <2>3, <2>4, <2>5, Zenon DEF d
<1> QED
  BY <1>4, <1>5, Zenon

\* u is a list of alternates that has those of s, and x.
HasAlso(L, p, u, s, x) ==
    /\ u \in AltLists(L, p)
    /\ \A j \in DOMAIN u : u[j] = x \/ \E i \in DOMAIN s : u[j] = s[i]
    /\ \E j \in DOMAIN u : u[j] = x

\* A new alternate is appended.
LEMMA AltAppended ==
    ASSUME NEW L, NEW p \in Peer, NEW s \in AltLists(L, p),
           NEW a \in AddrsOf(p), NEW t \in Nat, NEW k \in Nat, Genuine(L, p, a, k),
           \A j \in DOMAIN s : s[j].addr # a
    PROVE  HasAlso(L, p, Append(s, AddrState(a, t, k)), s, AddrState(a, t, k))
<1> DEFINE x == AddrState(a, t, k)
           u == Append(s, x)
<1>1. a \in Addr
  BY AddrsFinite, Zenon
<1>2. x \in AddrRecs /\ x.addr = a /\ x.seen = t /\ x.conf = k
  BY <1>1, Zenon DEF AddrRecs, AddrState
<1> HIDE DEF x
<1>3. s \in Seq(AddrRecs) /\ Distinct(s)
      /\ \A j \in DOMAIN s : s[j].addr \in AddrsOf(p) /\ Genuine(L, p, s[j].addr, s[j].conf)
  BY Zenon  DEF AltLists
<1>4. /\ u \in Seq(AddrRecs) /\ Len(s) \in Nat /\ DOMAIN s = 1 .. Len(s) /\ DOMAIN u = 1 .. Len(s) + 1
      /\ \A i \in 1 .. Len(s) + 1 : u[i] = IF i = Len(s) + 1 THEN x ELSE s[i]
  BY <1>2, <1>3, AppendIn
<1> HIDE DEF u
<1>5. \A i \in DOMAIN u : (i \in DOMAIN s /\ u[i] = s[i]) \/ (i = Len(s) + 1 /\ u[i] = x)
  BY <1>4
<1>6. Len(s) + 1 \in DOMAIN u /\ u[Len(s) + 1] = x
  BY <1>4
<1>7. \A j \in DOMAIN u : u[j].addr \in AddrsOf(p) /\ Genuine(L, p, u[j].addr, u[j].conf)
  BY <1>2, <1>3, <1>5, Zenon
<1>8. Distinct(u)
  BY <1>2, <1>3, <1>5, Zenon DEF Distinct
<1>9. u \in AltLists(L, p)
  BY <1>4, <1>7, <1>8, Zenon DEF AltLists
<1> QED
  BY <1>5, <1>6, <1>9, Zenon DEF u, x, HasAlso

\* trimAlts leaves alternates of the list.
LEMMA Trimmed ==
    ASSUME NEW L, NEW p \in Peer, NEW s \in AltLists(L, p)
    PROVE  /\ trimAlts(s) \in AltLists(L, p)
           /\ \A j \in DOMAIN trimAlts(s) : \E i \in DOMAIN s : trimAlts(s)[j] = s[i]
<1>1. s \in Seq(AddrRecs) /\ Distinct(s)
      /\ \A j \in DOMAIN s : s[j].addr \in AddrsOf(p) /\ Genuine(L, p, s[j].addr, s[j].conf)
  BY Zenon  DEF AltLists
<1>2. Len(s) \in Nat /\ DOMAIN s = 1 .. Len(s) /\ DOMAIN s \subseteq Nat /\ \A i \in DOMAIN s : s[i] \in AddrRecs
  BY <1>1, ElementsIn, Zenon
<1>3. CASE Len(s) < MaxAddrsPerContact
  BY <1>3, Zenon DEF trimAlts
<1>4. CASE ~(Len(s) < MaxAddrsPerContact)
  <2> DEFINE oldest == {i \in DOMAIN s : \A j \in DOMAIN s : s[i].seen <= s[j].seen}
             m == First(oldest)
             u == CutAt(s, m)
  <2>1. u = trimAlts(s)
    BY <1>4, Zenon DEF trimAlts
  <2>2. Len(s) > 0
    BY <1>2, <1>4, PeerAssumption
  <2>3. \A i \in DOMAIN s : s[i].seen \in Nat
    BY <1>2, Zenon DEF AddrRecs
  <2>4. oldest # {}
    <3> DEFINE T == {s[i].seen : i \in DOMAIN s}
    <3>1. T \subseteq Nat
      BY <2>3, Zenon
    <3>2. 1 \in DOMAIN s
      BY <1>2, <2>2
    <3>3. PICK y \in T : \A z \in T : y <= z
      BY <3>1, <3>2, LeastNat, Zenon
    <3>4. PICK i \in DOMAIN s : y = s[i].seen
      BY <3>3, Zenon
    <3> QED
      BY <3>3, <3>4, Zenon
  <2>5. m \in DOMAIN s
    <3>1. oldest \subseteq Nat
      BY <1>2, Zenon
    <3>2. m \in oldest
      BY <2>4, <3>1, FirstIn, Zenon
    <3> QED
      BY <3>2, Zenon
  <2>6. s # << >>
    BY <2>2
  <2> HIDE DEF m
  <2>7. /\ u \in Seq(AddrRecs) /\ DOMAIN u = 1 .. Len(s) - 1
        /\ \A j \in 1 .. Len(s) - 1 : u[j] = IF j < m THEN s[j] ELSE s[j + 1]
    BY <1>1, <2>6, CutIn, Zenon
  <2> HIDE DEF u
  <2> DEFINE f(j) == IF j < m THEN j ELSE j + 1
  <2>8. /\ \A j \in DOMAIN u : f(j) \in DOMAIN s /\ u[j] = s[f(j)]
        /\ \A i, j \in DOMAIN u : f(i) = f(j) => i = j
    BY <1>2, <2>5, <2>7
  <2> HIDE DEF f
  <2>9. \A j \in DOMAIN u : u[j].addr \in AddrsOf(p) /\ Genuine(L, p, u[j].addr, u[j].conf)
    BY <1>1, <2>8, Zenon
  <2>10. Distinct(u)
    BY <1>1, <2>8, Zenon DEF Distinct
  <2>11. u \in AltLists(L, p)
    BY <2>7, <2>9, <2>10, Zenon DEF AltLists
  <2> QED
    BY <2>1, <2>8, <2>11, Zenon
<1> QED
  BY <1>3, <1>4, Zenon

\* A peer with no more addresses than the table tracks never loses one: with
\* the preferred address, its alternates are distinct addresses of the peer.
LEMMA TrackedFits ==
    ASSUME NEW L, NEW p \in Peer, NEW s \in AltLists(L, p), NEW a \in AddrsOf(p),
           \A i \in DOMAIN s : s[i].addr # a, AllTracked(p)
    PROVE  trimAlts(s) = s
<1> DEFINE n == Len(s) + 1
           T == AddrsOf(p)
           f == [i \in 1 .. n |-> IF i = n THEN a ELSE s[i].addr]
<1>1. s \in Seq(AddrRecs) /\ Distinct(s) /\ \A j \in DOMAIN s : s[j].addr \in T
  BY Zenon  DEF AltLists
<1>2. Len(s) \in Nat /\ DOMAIN s = 1 .. Len(s)
  BY <1>1, ElementsIn, Zenon
<1>3. IsFiniteSet(T) /\ Cardinality(T) \in Nat /\ Cardinality(T) <= MaxAddrsPerContact
  BY AddrsFinite, Zenon DEF AllTracked
<1> HIDE DEF T
<1>4. n \in Nat /\ \A i \in 1 .. n : i = n \/ i \in DOMAIN s
  BY <1>2
<1>5. IsFiniteSet(1 .. n) /\ Cardinality(1 .. n) = n
  <2>1. n \in Int /\ ~(1 > n) /\ n - 1 + 1 = n /\ 1 \in Int
    BY <1>2
  <2> QED
    BY <2>1, FS_Interval, Zenon
<1>6. f \in [1 .. n -> T]
  BY <1>1, <1>4, Zenon DEF T
<1>7. \A i, j \in 1 .. n : f[i] = f[j] => i = j
  <2>1. \A i \in 1 .. n : f[i] = IF i = n THEN a ELSE s[i].addr
    BY Zenon
  <2> QED
    BY <1>1, <1>4, <2>1, Zenon DEF Distinct
<1> HIDE DEF n, f
<1>8. ~(Cardinality(T) < n)
  <2> SUFFICES ASSUME Cardinality(T) < Cardinality(1 .. n) PROVE FALSE
    BY <1>5, Zenon
  <2>1. \E x, y \in 1 .. n : x # y /\ f[x] = f[y]
    BY <1>3, <1>5, <1>6, FS_PigeonHole, Zenon
  <2> QED
    BY <1>7, <2>1, Zenon
<1>9. Len(s) < MaxAddrsPerContact
  BY <1>2, <1>3, <1>8, PeerAssumption DEF n
<1> QED
  BY <1>9, Zenon DEF trimAlts

\* The later of two earned stamps is earned.
LEMMA NewestGenuine ==
    ASSUME NEW L, NEW p, NEW a, NEW j \in Nat, NEW k \in Nat
    PROVE  /\ Newest(j, k) \in Nat /\ j <= Newest(j, k) /\ k <= Newest(j, k)
           /\ k <= j => Newest(j, k) = j
           /\ Genuine(L, p, a, j) /\ Genuine(L, p, a, k) => Genuine(L, p, a, Newest(j, k))
<1>1. /\ Newest(j, k) \in Nat /\ j <= Newest(j, k) /\ k <= Newest(j, k)
      /\ k <= j => Newest(j, k) = j
      /\ Newest(j, k) = j \/ Newest(j, k) = k
  BY DEF Newest
<1> QED
  BY <1>1, Zenon

\* mergeAddr, when the new address is one of the alternates or becomes one: the
\* preferred address ends with a stamp no older than the incoming one.
LEMMA MergedAlts ==
    ASSUME NEW L \in Histories, NEW c \in EarnedContacts(L), NEW s \in AltLists(L, c.id),
           \A i \in DOMAIN s : s[i].addr # c.addr
    PROVE  LET d == repointPreferred([c EXCEPT !.alts = s])
           IN  /\ d \in EarnedContacts(L) /\ d.id = c.id /\ d.conf \in Nat
               /\ \A i \in DOMAIN s : s[i].conf <= d.conf
<1> DEFINE e == [c EXCEPT !.alts = s]
<1>1. e \in EarnedContacts(L) /\ e.id = c.id /\ e.alts = s
  BY ContactWith
<1> HIDE DEF e
<1>2. LET d == repointPreferred(e)
      IN  /\ d \in EarnedContacts(L) /\ d.id = e.id /\ d.conf \in Nat
          /\ \A i \in DOMAIN e.alts : e.alts[i].conf <= d.conf
  BY <1>1, Repointed, Zenon
<1> QED
  BY <1>1, <1>2, Zenon DEF e

\* mergeAddr and the stamp that AddOrRefresh then writes: still earned.
LEMMA Merged ==
    ASSUME NEW L \in Histories, NEW c \in EarnedContacts(L), NEW in \in EarnedContacts(L),
           in.id = c.id
    PROVE  LET d == mergeAddr(c, in)
           IN  /\ d \in EarnedContacts(L) /\ d.id = c.id
               /\ Newest(d.conf, in.conf) \in Nat
               /\ Genuine(L, d.id, d.addr, Newest(d.conf, in.conf))
<1> DEFINE p == c.id
           known == {i \in DOMAIN c.alts : c.alts[i].addr = in.addr}
           d == mergeAddr(c, in)
           Goal == /\ d \in EarnedContacts(L) /\ d.id = p
                   /\ Newest(d.conf, in.conf) \in Nat
                   /\ Genuine(L, d.id, d.addr, Newest(d.conf, in.conf))
<1>1. /\ p \in Peer /\ c.addr \in Addr /\ c.seen \in Nat /\ c.conf \in Nat
      /\ c.alts \in Seq(AddrRecs) /\ c.alts \in AltLists(L, p)
      /\ c.addr \in AddrsOf(p) /\ Genuine(L, p, c.addr, c.conf)
      /\ \A i \in DOMAIN c.alts :
           /\ c.alts[i].addr # c.addr /\ c.alts[i].conf \in Nat
           /\ Genuine(L, p, c.alts[i].addr, c.alts[i].conf)
      /\ Distinct(c.alts)
  BY ContactFields, Zenon
<1>2. /\ in.addr \in Addr /\ in.seen \in Nat /\ in.conf \in Nat
      /\ in.addr \in AddrsOf(p) /\ Genuine(L, p, in.addr, in.conf)
  BY ContactFields, Zenon
<1>3. d = CASE in.addr = c.addr -> c
            [] in.addr # c.addr /\ known # {} ->
                 LET i == First(known)
                 IN  repointPreferred([c EXCEPT !.alts = [c.alts EXCEPT ![i] =
                       AddrState(in.addr, in.seen, Newest(c.alts[i].conf, in.conf))]])
            [] OTHER ->
                 repointPreferred([c EXCEPT !.alts =
                   trimAlts(Append(c.alts, AddrState(in.addr, in.seen, in.conf)))])
  BY Zenon  DEF mergeAddr
<1> HIDE DEF d, p
<1>4. \A a, t, k : AddrState(a, t, k).addr = a /\ AddrState(a, t, k).conf = k
  BY Zenon DEF AddrState
<1>9. \A e \in EarnedContacts(L) : e.id \in Peer /\ e.addr \in Addr /\ e.conf \in Nat /\ Genuine(L, e.id, e.addr, e.conf)
  BY ContactFields, Zenon
<1>5. ASSUME in.addr = c.addr PROVE Goal
  <2>1. d = c
    BY <1>3, <1>5, Zenon
  <2> QED
    BY <1>1, <1>2, <1>5, <2>1, NewestGenuine, Zenon DEF p
<1>6. ASSUME in.addr # c.addr, known # {} PROVE Goal
  <2> DEFINE i == First(known)
             k == Newest(c.alts[i].conf, in.conf)
             s == [c.alts EXCEPT ![i] = AddrState(in.addr, in.seen, k)]
  <2>1. i \in known
    <3>1. known \subseteq Nat
      BY <1>1, ElementsIn, Zenon
    <3> QED
      BY <1>6, <3>1, FirstIn, Zenon
  <2>2. d = repointPreferred([c EXCEPT !.alts = s])
    BY <1>3, <1>6, Zenon
  <2> HIDE DEF i
  <2>3. k \in Nat /\ in.conf <= k /\ Genuine(L, p, in.addr, k)
    BY <1>1, <1>2, <2>1, NewestGenuine, Zenon
  <2> HIDE DEF k
  <2>4. \A j \in DOMAIN c.alts : c.alts[j].addr = in.addr => j = i
    BY <1>1, <2>1, Zenon DEF Distinct
  <2>5. /\ s \in AltLists(L, p) /\ DOMAIN s = DOMAIN c.alts
        /\ \A j \in DOMAIN c.alts : s[j] = IF j = i THEN AddrState(in.addr, in.seen, k) ELSE c.alts[j]
    BY <1>1, <1>2, <2>1, <2>3, <2>4, AltReplaced
  <2> HIDE DEF s
  <2>6. \A j \in DOMAIN s : s[j].addr # c.addr
    BY <1>1, <1>4, <1>6, <2>5
  <2>7. /\ d \in EarnedContacts(L) /\ d.id = p /\ d.conf \in Nat
        /\ \A j \in DOMAIN s : s[j].conf <= d.conf
    BY <2>2, <2>5, <2>6, MergedAlts, Zenon DEF p
  <2>8. k <= d.conf
    BY <1>4, <2>1, <2>5, <2>7
  <2>9. in.conf <= d.conf
    BY <1>2, <2>3, <2>7, <2>8
  <2>10. Newest(d.conf, in.conf) = d.conf
    BY <1>2, <2>7, <2>9, NewestGenuine, Zenon
  <2> QED
    BY <1>9, <2>7, <2>10, Zenon
<1>7. ASSUME in.addr # c.addr, known = {} PROVE Goal
  <2> DEFINE x == AddrState(in.addr, in.seen, in.conf)
             r == Append(c.alts, x)
             u == trimAlts(r)
  <2>1. d = repointPreferred([c EXCEPT !.alts = u])
    BY <1>3, <1>7, Zenon
  <2>2. \A j \in DOMAIN c.alts : c.alts[j].addr # in.addr
    BY <1>7, Zenon
  <2>3. /\ r \in AltLists(L, p)
        /\ \A j \in DOMAIN r : r[j] = x \/ \E i \in DOMAIN c.alts : r[j] = c.alts[i]
        /\ \E j \in DOMAIN r : r[j] = x
    <3>1. HasAlso(L, p, r, c.alts, x)
      BY <1>1, <1>2, <2>2, AltAppended, Zenon
    <3> QED
      BY <3>1, Zenon DEF HasAlso
  <2> HIDE DEF r
  <2>4. \A j \in DOMAIN r : r[j].addr # c.addr
    BY <1>1, <1>4, <1>7, <2>3
  <2>5. u \in AltLists(L, p) /\ \A j \in DOMAIN u : \E i \in DOMAIN r : u[j] = r[i]
    BY <1>1, <2>3, Trimmed
  <2>6. AllTracked(p) => u = r
    BY <1>1, <2>3, <2>4, TrackedFits, Zenon
  <2> HIDE DEF u
  <2>7. \A j \in DOMAIN u : u[j].addr # c.addr
    BY <2>4, <2>5, Zenon
  <2>8. /\ d \in EarnedContacts(L) /\ d.id = p /\ d.conf \in Nat
        /\ \A j \in DOMAIN u : u[j].conf <= d.conf
    BY <2>1, <2>5, <2>7, MergedAlts, Zenon DEF p
  <2>9. AllTracked(p) => in.conf <= d.conf
    BY <1>4, <2>3, <2>6, <2>8
  <2>10. CASE AllTracked(p)
    <3>1. Newest(d.conf, in.conf) = d.conf
      BY <1>2, <2>8, <2>9, <2>10, NewestGenuine, Zenon
    <3> QED
      BY <1>9, <2>8, <3>1, Zenon
  <2>11. CASE ~AllTracked(p)
    <3> DEFINE k == Newest(d.conf, in.conf)
    <3>1. k \in Nat /\ (k = d.conf \/ k = in.conf)
      BY <1>2, <2>8, Zenon DEF Newest
    <3>2. \E b \in Addr : k <= L[<<p, b>>]
      BY <1>2, <1>9, <2>8, <3>1, Zenon DEF Genuine
    <3> QED
      BY <2>8, <2>11, <3>1, <3>2, Zenon DEF Genuine
  <2> QED
    BY <2>10, <2>11, Zenon
<1>8. Goal
  BY <1>5, <1>6, <1>7, Zenon
<1> QED
  BY <1>8, Zenon DEF d, p

-----------------------------------------------------------------------------
(* The table, the queue and the book *)

\* The tables whose contacts are all earned under the history L.
Tables(L) == [Buckets -> Seq(EarnedContacts(L))]

\* The bucket of a peer.
LEMMA BucketIn ==
    ASSUME NEW L, NEW t \in Tables(L), NEW p \in Peer
    PROVE  BucketOf[p] \in Buckets /\ t[BucketOf[p]] \in Seq(EarnedContacts(L))
  BY PeerAssumption, Zenon DEF Tables, Buckets

\* A bucket is overwritten.
LEMMA BucketPut ==
    ASSUME NEW L, NEW t \in Tables(L), NEW b \in Buckets, NEW s \in Seq(EarnedContacts(L)),
           NEW u, u = [t EXCEPT ![b] = s]
    PROVE  u \in Tables(L)
  BY Zenon  DEF Tables

\* Get finds the stored contact of a known peer.
LEMMA Found ==
    ASSUME NEW L, NEW t \in Tables(L), NEW p \in Peer, Known(t, p)
    PROVE  LET s == t[BucketOf[p]]
               i == First(IndexIn(s, p))
           IN  /\ i \in DOMAIN s /\ s[i] = Get(t, p) /\ s # << >> /\ i \in Nat
               /\ Get(t, p) \in EarnedContacts(L) /\ Get(t, p).id = p
<1> DEFINE s == t[BucketOf[p]]
           i == First(IndexIn(s, p))
<1>1. s \in Seq(EarnedContacts(L))
  BY BucketIn, Zenon
<1>2. DOMAIN s \subseteq Nat /\ \A j \in DOMAIN s : s[j] \in EarnedContacts(L)
  BY <1>1, ElementsIn, Zenon
<1>3. IndexIn(s, p) # {} /\ Get(t, p) = s[i]
  BY Zenon  DEF Known, Get
<1> HIDE DEF s
<1>4. IndexIn(s, p) \subseteq DOMAIN s /\ \A j \in IndexIn(s, p) : s[j].id = p
  BY Zenon  DEF IndexIn
<1>5. i \in IndexIn(s, p)
  <2>1. IndexIn(s, p) \subseteq Nat
    BY <1>2, <1>4, Zenon
  <2> QED
    BY <1>3, <2>1, FirstIn, Zenon
<1> HIDE DEF i
<1>6. i \in DOMAIN s /\ s[i].id = p /\ s[i] \in EarnedContacts(L) /\ i \in Nat
  BY <1>2, <1>4, <1>5, Zenon
<1>7. s # << >>
  BY <1>6
<1> QED
  BY <1>3, <1>6, <1>7, Zenon DEF i, s

\* AddOrRefresh keeps every stamp of the table earned.
LEMMA Added ==
    ASSUME NEW L \in Histories, NEW t \in Tables(L), NEW c \in EarnedContacts(L)
    PROVE  Add(t, c) \in Tables(L)
<1> DEFINE b == BucketOf[c.id]
           s == t[b]
           i == First(IndexIn(s, c.id))
           cur == mergeAddr(s[i], c)
           new == [cur EXCEPT !.conf = Newest(@, c.conf)]
           late == [new EXCEPT !.seen = c.seen]
<1>1. c.id \in Peer /\ c.seen \in Nat
  BY ContactFields, Zenon
<1>2. b \in Buckets /\ s \in Seq(EarnedContacts(L))
  BY <1>1, BucketIn, Zenon
<1>3. CASE Known(t, c.id)
  <2>1. i \in DOMAIN s /\ s # << >> /\ s[i] \in EarnedContacts(L) /\ s[i].id = c.id
    <3>1. /\ i \in DOMAIN s /\ s[i] = Get(t, c.id) /\ s # << >>
          /\ Get(t, c.id) \in EarnedContacts(L) /\ Get(t, c.id).id = c.id
      BY <1>1, <1>3, Found
    <3> QED
      BY <3>1, Zenon
  <2>2. /\ c.conf > 0 => Add(t, c) = [t EXCEPT ![b] = Append(CutAt(s, i), late)]
        /\ ~(c.conf > 0) => Add(t, c) = [t EXCEPT ![b] = [s EXCEPT ![i] = new]]
    <3>1. ~Refused(t, c)
      BY <1>3, Zenon DEF Refused
    <3> QED
      BY <1>3, <3>1, Zenon DEF Add
  <2> HIDE DEF b, s, i
  <2>3. /\ cur \in EarnedContacts(L) /\ Newest(cur.conf, c.conf) \in Nat
        /\ Genuine(L, cur.id, cur.addr, Newest(cur.conf, c.conf))
    BY <2>1, Merged, Zenon
  <2> HIDE DEF cur
  <2>4. new \in EarnedContacts(L)
    BY <2>3, ContactWith, Zenon
  <2> HIDE DEF new
  <2>5. late \in EarnedContacts(L)
    BY <1>1, <2>4, ContactWith, Zenon
  <2> HIDE DEF late
  <2>6. Append(CutAt(s, i), late) \in Seq(EarnedContacts(L))
    <3>1. CutAt(s, i) \in Seq(EarnedContacts(L))
      BY <1>2, <2>1, CutIn, Zenon
    <3> QED
      BY <2>5, <3>1, AppendIn, Zenon
  <2>7. [s EXCEPT ![i] = new] \in Seq(EarnedContacts(L))
    BY <1>2, <2>4, ReplaceIn, Zenon
  <2> QED
    BY <1>2, <2>2, <2>6, <2>7, BucketPut, Zenon
<1>4. CASE ~Known(t, c.id) /\ Refused(t, c)
  BY <1>4, Zenon DEF Add
<1>5. CASE ~Known(t, c.id) /\ ~Refused(t, c)
  <2>1. Add(t, c) = [t EXCEPT ![b] = Append(s, c)]
    BY <1>5, Zenon DEF Add
  <2>2. Append(s, c) \in Seq(EarnedContacts(L))
    BY <1>2, AppendIn, Zenon
  <2> QED
    BY <1>2, <2>1, <2>2, BucketPut, Zenon
<1> QED
  BY <1>3, <1>4, <1>5, Zenon

\* Remove, Demote and PromoteAlt keep them earned: the outgoing address of a
\* failover, and a demoted one, are left with the zero stamp.
LEMMA Changed ==
    ASSUME NEW L \in Histories, NEW t \in Tables(L), NEW p \in Peer
    PROVE  /\ RemoveContact(t, p) \in Tables(L)
           /\ Demote(t, p) \in Tables(L)
           /\ \A a : PromoteAlt(t, p, a) \in Tables(L)
<1> DEFINE b == BucketOf[p]
           s == t[b]
           i == First(IndexIn(s, p))
           g == Get(t, p)
<1>1. b \in Buckets /\ s \in Seq(EarnedContacts(L))
  BY BucketIn, Zenon
<1>2. Known(t, p) => i \in DOMAIN s /\ s # << >> /\ g \in EarnedContacts(L) /\ g.id = p
  BY Found, Zenon
<1>3. \A d \in EarnedContacts(L) : Replace(t, p, d) \in Tables(L)
  <2> TAKE d \in EarnedContacts(L)
  <2>1. Replace(t, p, d) = [t EXCEPT ![b] = [s EXCEPT ![i] = d]]
    BY Zenon  DEF Replace
  <2>2. [s EXCEPT ![i] = d] \in Seq(EarnedContacts(L))
    BY <1>1, ReplaceIn, Zenon
  <2> QED
    BY <1>1, <2>1, <2>2, BucketPut, Zenon
<1>4. RemoveContact(t, p) \in Tables(L)
  <2>1. CASE ~Known(t, p)
    BY <2>1, Zenon DEF RemoveContact
  <2>2. CASE Known(t, p)
    <3>1. RemoveContact(t, p) = [t EXCEPT ![b] = CutAt(s, i)]
      BY <2>2, Zenon DEF RemoveContact
    <3>2. CutAt(s, i) \in Seq(EarnedContacts(L))
      BY <1>1, <1>2, <2>2, CutIn, Zenon
    <3> QED
      BY <1>1, <3>1, <3>2, BucketPut, Zenon
  <2> QED
    BY <2>1, <2>2, Zenon
<1> HIDE DEF g
<1>5. Known(t, p) => g.addr \in Addr /\ Genuine(L, p, g.addr, 0) /\ g.alts \in Seq(AddrRecs)
  BY <1>2, ContactFields, ZeroGenuine, Zenon
<1>6. Demote(t, p) \in Tables(L)
  <2>1. CASE ~Known(t, p)
    BY <2>1, Zenon DEF Demote
  <2>2. CASE Known(t, p)
    <3>1. Demote(t, p) = Replace(t, p, [g EXCEPT !.conf = 0])
      BY <2>2, Zenon DEF Demote, g
    <3>2. [g EXCEPT !.conf = 0] \in EarnedContacts(L)
      <4>1. 0 \in Nat
        BY Zenon
      <4> QED
        BY <1>2, <1>5, <2>2, <4>1, ContactWith, Zenon
    <3> QED
      BY <1>3, <3>1, <3>2, Zenon
  <2> QED
    BY <2>1, <2>2, Zenon
<1>7. ASSUME NEW a PROVE PromoteAlt(t, p, a) \in Tables(L)
  <2>1. CASE ~CanPromote(t, p, a)
    BY <2>1, Zenon DEF PromoteAlt
  <2>2. CASE CanPromote(t, p, a)
    <3> DEFINE m == First(AltsAt(g, a))
    <3>1. Known(t, p) /\ AltsAt(g, a) # {}
      BY <2>2, Zenon DEF CanPromote, g
    <3>2. PromoteAlt(t, p, a) = Replace(t, p, UsingAlt(g, m, 0))
      BY <2>2, Zenon DEF PromoteAlt, g
    <3>3. AltsAt(g, a) \subseteq DOMAIN g.alts /\ DOMAIN g.alts \subseteq Nat
      BY <1>5, <3>1, ElementsIn, Zenon DEF AltsAt
    <3>4. m \in DOMAIN g.alts
      <4>1. AltsAt(g, a) \subseteq Nat
        BY <3>3, Zenon
      <4>2. m \in AltsAt(g, a)
        BY <3>1, <4>1, FirstIn, Zenon
      <4> QED
        BY <3>3, <4>2, Zenon
    <3>5. UsingAlt(g, m, 0) \in EarnedContacts(L)
      <4>1. 0 \in Nat
        BY Zenon
      <4> QED
        BY <1>2, <1>5, <3>1, <3>4, <4>1, UsingAltIn, Zenon
    <3> QED
      BY <1>3, <3>2, <3>5, Zenon
  <2> QED
    BY <2>1, <2>2, Zenon
<1> QED
  BY <1>4, <1>6, <1>7, Zenon

\* PruneStaleAlts only drops alternates.
LEMMA Pruned ==
    ASSUME NEW L, NEW t \in Tables(L), NEW age
    PROVE  PruneStaleAlts(t, age) \in Tables(L)
<1>1. ASSUME NEW c \in EarnedContacts(L) PROVE WithRecentAlts(c, age) \in EarnedContacts(L)
  <2> DEFINE K == {a \in Listed(c.alts) : ~(a.conf = 0 /\ peerClock - a.seen > age)}
             u == Filtered(c.alts, K)
  <2>1. WithRecentAlts(c, age) = [c EXCEPT !.alts = u]
    BY Zenon  DEF WithRecentAlts
  <2> HIDE DEF K
  <2>2. /\ c.alts \in Seq(AddrRecs) /\ Distinct(c.alts)
        /\ \A i \in DOMAIN c.alts : /\ c.alts[i].addr \in AddrsOf(c.id) /\ c.alts[i].addr # c.addr
                                    /\ Genuine(L, c.id, c.alts[i].addr, c.alts[i].conf)
    BY ContactFields, Zenon
  <2>3. u \in Seq(AddrRecs) /\ (\A i \in DOMAIN u : \E j \in DOMAIN c.alts : u[i] = c.alts[j]) /\ Distinct(u)
    BY <2>2, FilteredIn
  <2> HIDE DEF u
  <2>4. u \in AltLists(L, c.id) /\ \A i \in DOMAIN u : u[i].addr # c.addr
    BY <2>2, <2>3, Zenon DEF AltLists
  <2> QED
    BY <2>1, <2>4, ContactWith
<1>2. ASSUME NEW b \in Buckets
      PROVE  [i \in DOMAIN t[b] |-> WithRecentAlts(t[b][i], age)] \in Seq(EarnedContacts(L))
  <2>1. t[b] \in Seq(EarnedContacts(L))
    BY Zenon  DEF Tables
  <2>2. Len(t[b]) \in Nat /\ DOMAIN t[b] = 1 .. Len(t[b]) /\ \A i \in DOMAIN t[b] : t[b][i] \in EarnedContacts(L)
    BY <2>1, ElementsIn, Zenon
  <2>3. [i \in DOMAIN t[b] |-> WithRecentAlts(t[b][i], age)] \in [1 .. Len(t[b]) -> EarnedContacts(L)]
    BY <1>1, <2>2, Zenon
  <2> QED
    BY <2>2, <2>3, SeqIs, Zenon
<1> QED
  BY <1>2, Zenon DEF PruneStaleAlts, Tables

\* The sweep keeps contacts of the table.
LEMMA Swept ==
    ASSUME NEW L, NEW t \in Tables(L), NEW K
    PROVE  [b \in Buckets |-> Filtered(t[b], {c \in Listed(t[b]) : c.id \notin K})] \in Tables(L)
<1>1. ASSUME NEW b \in Buckets
      PROVE  Filtered(t[b], {c \in Listed(t[b]) : c.id \notin K}) \in Seq(EarnedContacts(L))
  <2>1. t[b] \in Seq(EarnedContacts(L))
    BY Zenon  DEF Tables
  <2> QED
    BY <2>1, FilteredIn, Zenon
<1> QED
  BY <1>1, Zenon DEF Tables

-----------------------------------------------------------------------------
(* The marks of the buckets under eviction, with B the bucket being served *)

\* The marks are those of the queued requests and of the buckets B being served.
Marks(pending, queue, B) ==
    /\ pending = {BucketOf[c.id] : c \in Listed(queue)} \cup B
    /\ \A i, j \in DOMAIN queue : BucketOf[queue[i].id] = BucketOf[queue[j].id] => i = j
    /\ \A i \in DOMAIN queue : BucketOf[queue[i].id] \notin B

\* What learn works on: table, marks and queue.
TableStates(L, B) ==
    {st \in [table : Tables(L), pending : SUBSET Buckets, queue : Seq(EarnedContacts(L))] :
        Marks(st.pending, st.queue, B)}

\* scheduleEviction queues a bucket once.
LEMMA Marked ==
    ASSUME NEW L, NEW queue \in Seq(EarnedContacts(L)), NEW c \in EarnedContacts(L), NEW B,
           NEW pd \in SUBSET Buckets, Marks(pd, queue, B)
    PROVE  LET s == Scheduled(pd, queue, c)
           IN  s.queue \in Seq(EarnedContacts(L)) /\ s.pending \in SUBSET Buckets /\ Marks(s.pending, s.queue, B)
<1> DEFINE b == BucketOf[c.id]
           q == Append(queue, c)
           s == Scheduled(pd, queue, c)
<1>1. b \in Buckets
  <2>1. c.id \in Peer
    BY ContactFields, Zenon
  <2> QED
    BY <2>1, PeerAssumption, Zenon DEF Buckets
<1>2. CASE b \in pd \/ Len(queue) >= EvictQueue
  <2>1. s = [pending |-> pd, queue |-> queue]
    BY <1>2, Zenon DEF Scheduled
  <2>2. s.pending = pd /\ s.queue = queue
    BY <2>1
  <2> QED
    BY <2>2, Zenon
<1>3. CASE ~(b \in pd \/ Len(queue) >= EvictQueue)
  <2>1. s = [pending |-> pd \cup {b}, queue |-> q]
    BY <1>3, Zenon DEF Scheduled
  <2>2. s.pending = pd \cup {b} /\ s.queue = q
    BY <2>1
  <2>3. /\ q \in Seq(EarnedContacts(L)) /\ Len(queue) \in Nat /\ DOMAIN queue = 1 .. Len(queue)
        /\ DOMAIN q = 1 .. Len(queue) + 1
        /\ \A i \in 1 .. Len(queue) + 1 : q[i] = IF i = Len(queue) + 1 THEN c ELSE queue[i]
    BY AppendIn
  <2> HIDE DEF q
  <2>4. /\ \A i \in DOMAIN q : (i \in DOMAIN queue /\ q[i] = queue[i]) \/ (i = Len(queue) + 1 /\ q[i] = c)
        /\ \A i \in DOMAIN queue : i \in DOMAIN q /\ q[i] = queue[i]
        /\ Len(queue) + 1 \in DOMAIN q /\ q[Len(queue) + 1] = c
    BY <2>3
  <2>5. Listed(q) = Listed(queue) \cup {c}
    BY <2>4, Zenon DEF Listed
  <2>6. b \notin B /\ \A i \in DOMAIN queue : BucketOf[queue[i].id] # b
    BY <1>3, Zenon DEF Marks, Listed
  <2>7. pd \cup {b} = {BucketOf[x.id] : x \in Listed(q)} \cup B
    BY <2>5, Zenon DEF Marks
  <2>8. \A i, j \in DOMAIN q : BucketOf[q[i].id] = BucketOf[q[j].id] => i = j
    BY <2>4, <2>6 DEF Marks
  <2>9. \A i \in DOMAIN q : BucketOf[q[i].id] \notin B
    BY <2>4, <2>6, Zenon DEF Marks
  <2>10. Marks(pd \cup {b}, q, B)
    BY <2>7, <2>8, <2>9, Zenon DEF Marks
  <2> QED
    BY <1>1, <2>2, <2>3, <2>10, Zenon
<1> QED
  BY <1>2, <1>3, Zenon

\* learn keeps the table, the queue and the marks.
LEMMA LearnedIn ==
    ASSUME NEW L \in Histories, NEW B, NEW st \in TableStates(L, B), NEW c \in EarnedContacts(L)
    PROVE  Learned(st, c) \in TableStates(L, B)
<1> DEFINE s == Scheduled(st.pending, st.queue, c)
           pd == IF Refused(st.table, c) THEN s.pending ELSE st.pending
           q == IF Refused(st.table, c) THEN s.queue ELSE st.queue
           t == Add(st.table, c)
<1>1. st.table \in Tables(L) /\ st.pending \in SUBSET Buckets /\ st.queue \in Seq(EarnedContacts(L))
      /\ Marks(st.pending, st.queue, B)
  BY Zenon DEF TableStates
<1>2. s.queue \in Seq(EarnedContacts(L)) /\ s.pending \in SUBSET Buckets /\ Marks(s.pending, s.queue, B)
  BY <1>1, Marked, Zenon
<1>3. t \in Tables(L)
  BY <1>1, Added, Zenon
<1>4. Learned(st, c) = [table |-> t, pending |-> pd, queue |-> q]
  BY Zenon  DEF Learned
<1> HIDE DEF s
<1>5. q \in Seq(EarnedContacts(L)) /\ pd \in SUBSET Buckets /\ Marks(pd, q, B)
  BY <1>1, <1>2, Zenon
<1> HIDE DEF q, pd, t
<1>6. [table |-> t, pending |-> pd, queue |-> q] \in TableStates(L, B)
  BY <1>3, <1>5, Zenon DEF TableStates
<1> QED
  BY <1>4, <1>6, Zenon

-----------------------------------------------------------------------------
(* The book *)

\* The peerbook entries that are.
Entries(L) ==
    {x \in [id : Peer, addr : Addr, conf : Nat] :
        x.addr \in AddrsOf(x.id) /\ Genuine(L, x.id, x.addr, x.conf)}

\* An entry of the book carries the stamp of its contact.
LEMMA BookedIn ==
    ASSUME NEW L, NEW s \in Seq(EarnedContacts(L))
    PROVE  [i \in DOMAIN Bookable(s) |-> BookEntry(Bookable(s)[i])] \in Seq(Entries(L))
<1> DEFINE t == Bookable(s)
<1>1. t \in Seq(EarnedContacts(L))
  BY FilteredIn, Zenon DEF Bookable
<1> HIDE DEF t
<1>2. Len(t) \in Nat /\ DOMAIN t = 1 .. Len(t) /\ \A i \in DOMAIN t : t[i] \in EarnedContacts(L)
  BY <1>1, ElementsIn, Zenon
<1>3. ASSUME NEW c \in EarnedContacts(L) PROVE BookEntry(c) \in Entries(L)
  <2>1. c.id \in Peer /\ c.addr \in Addr /\ c.conf \in Nat /\ c.addr \in AddrsOf(c.id)
        /\ Genuine(L, c.id, c.addr, c.conf)
    BY ContactFields, Zenon
  <2> QED
    BY <2>1, Zenon DEF BookEntry, Entries
<1>4. [i \in DOMAIN t |-> BookEntry(t[i])] \in [1 .. Len(t) -> Entries(L)]
  BY <1>2, <1>3, Zenon
<1>5. [i \in DOMAIN t |-> BookEntry(t[i])] \in Seq(Entries(L))
  BY <1>2, <1>4, SeqIs, Zenon
<1> QED
  BY <1>5, Zenon DEF t

\* confirmedPeers lists earned stamps.
LEMMA BookIn ==
    ASSUME NEW L, rt \in Tables(L)
    PROVE  confirmedPeers \in Seq(Entries(L))
<1> DEFINE N == NumBuckets
           S == Seq(Entries(L))
           Part(b) == [i \in DOMAIN Bookable(rt[b]) |-> BookEntry(Bookable(rt[b])[i])]
           More(s, b) == s \o Part(b)
           F == [b \in 1 .. N |-> [s \in S |-> More(s, b)]]
           Rec(g) == [b \in 0 .. N |-> IF b = 0 THEN << >> ELSE More(g[b - 1], b)]
           c == CHOOSE g : g = Rec(g)
<1>1. N \in Nat /\ << >> \in S
  BY PeerAssumption
<1>2. confirmedPeers = c[N]
  BY Zenon  DEF confirmedPeers
<1> HIDE DEF N
<1>3. \A b \in 1 .. N : \A s \in S : More(s, b) \in S
  <2> TAKE b \in 1 .. N
  <2> TAKE s \in S
  <2>1. rt[b] \in Seq(EarnedContacts(L))
    BY Zenon  DEF Tables, Buckets, N
  <2>2. Part(b) \in S
    BY <2>1, BookedIn, Zenon
  <2> HIDE DEF Part
  <2> QED
    BY <2>2
<1> HIDE DEF More, S
<1>4. F \in Steps(N, S)
  BY <1>3, Zenon DEF Steps
<1>5. PICK g \in [0 .. N -> S] : Iterates(g, N, << >>, F)
  BY <1>1, <1>4, Iterated, Zenon
<1>6. g = Rec(g)
  <2>0. \A i \in 1 .. N : i - 1 \in 0 .. N
    BY <1>1
  <2>1. \A i \in 1 .. N : g[i - 1] \in S /\ g[i] = F[i][g[i - 1]]
    BY <1>5, <2>0, Zenon DEF Iterates
  <2>2. \A i \in 1 .. N : g[i] = More(g[i - 1], i)
    BY <2>1, Zenon
  <2>3. g[0] = << >>
    BY <1>5, Zenon DEF Iterates
  <2>4. \A i \in 0 .. N : i = 0 \/ i \in 1 .. N
    BY <1>1
  <2>5. \A i \in 0 .. N : g[i] = IF i = 0 THEN << >> ELSE More(g[i - 1], i)
    BY <2>2, <2>3, <2>4, Zenon
  <2> QED
    BY <2>5, Zenon
<1>7. c = Rec(c)
  BY <1>6, Zenon
<1> HIDE DEF c
<1>8. \A i \in 0 .. N : c[i] = IF i = 0 THEN << >> ELSE More(c[i - 1], i)
  BY <1>7, Zenon
<1> DEFINE Z == {i \in Nat : i <= N => c[i] \in S}
<1>9. 0 \in Z
  <2>1. 0 \in 0 .. N
    BY <1>1
  <2> QED
    BY <1>1, <1>8, <2>1, Zenon
<1>10. ASSUME NEW i \in Nat, i \in Z PROVE i + 1 \in Z
  <2> SUFFICES ASSUME i + 1 <= N PROVE c[i + 1] \in S
    OBVIOUS
  <2>1. i + 1 \in 1 .. N /\ i + 1 \in 0 .. N /\ i + 1 # 0 /\ c[i] \in S /\ (i + 1) - 1 = i
    BY <1>1, <1>10
  <2>2. c[i + 1] = More(c[(i + 1) - 1], i + 1)
    BY <1>8, <2>1, Zenon
  <2> QED
    BY <1>3, <2>1, <2>2, Zenon
<1> HIDE DEF Z
<1>11. N \in Z
  BY <1>1, <1>9, <1>10, SetInduction, Zenon
<1>12. c[N] \in S
  BY <1>1, <1>11 DEF Z
<1> QED
  BY <1>2, <1>12, Zenon DEF S

\* The seeds and the book hold contacts that a table may have.
LEMMA SourcesIn ==
    ASSUME NEW L \in Histories, peerClock \in Nat, book \in Seq(Entries(L))
    PROVE  Sources \in Seq(EarnedContacts(L))
<1> DEFINE s == [i \in DOMAIN Seeds |-> Contact(Seeds[i].id, Seeds[i].addr, peerClock, 0)]
           u == Unseeded
           b == [i \in DOMAIN u |-> Contact(u[i].id, u[i].addr, peerClock, u[i].conf)]
<1>1. s \in Seq(EarnedContacts(L))
  <2>1. Len(Seeds) \in Nat /\ DOMAIN Seeds = 1 .. Len(Seeds) /\ \A i \in DOMAIN Seeds : Seeds[i] \in [id : Peer, addr : Addr]
    BY PeerAssumption, ElementsIn, Zenon
  <2>2. ASSUME NEW i \in DOMAIN Seeds
        PROVE  Contact(Seeds[i].id, Seeds[i].addr, peerClock, 0) \in EarnedContacts(L)
    <3>1. Seeds[i].id \in Peer /\ Seeds[i].addr \in Addr /\ 0 \in Nat
      BY <2>1, Zenon
    <3>2. Seeds[i].addr \in AddrsOf(Seeds[i].id)
      BY Zenon  DEF AddrsOf, Listed
    <3>3. Genuine(L, Seeds[i].id, Seeds[i].addr, 0)
      BY <3>1, ZeroGenuine, Zenon
    <3> QED
      BY <3>1, <3>2, <3>3, FreshContact, Zenon
  <2>3. s \in [1 .. Len(Seeds) -> EarnedContacts(L)]
    BY <2>1, <2>2, Zenon
  <2> QED
    BY <2>1, <2>3, SeqIs, Zenon
<1>2. b \in Seq(EarnedContacts(L))
  <2>1. Len(u) \in Nat /\ DOMAIN u = 1 .. Len(u) /\ \A i \in DOMAIN u : u[i] \in Entries(L)
    <3>1. u \in Seq(Entries(L))
      BY FilteredIn, Zenon DEF Unseeded
    <3> HIDE DEF u
    <3> QED
      BY <3>1, ElementsIn, Zenon
  <2>2. ASSUME NEW i \in DOMAIN u
        PROVE  Contact(u[i].id, u[i].addr, peerClock, u[i].conf) \in EarnedContacts(L)
    <3>1. /\ u[i].id \in Peer /\ u[i].addr \in AddrsOf(u[i].id) /\ u[i].conf \in Nat
          /\ Genuine(L, u[i].id, u[i].addr, u[i].conf)
      BY <2>1, Zenon DEF Entries
    <3> QED
      BY <3>1, FreshContact, Zenon
  <2>3. b \in [1 .. Len(u) -> EarnedContacts(L)]
    BY <2>1, <2>2, Zenon
  <2> QED
    BY <2>1, <2>3, SeqIs, Zenon
<1>3. Sources = s \o b
  BY Zenon  DEF Sources
<1> HIDE DEF s, b, u
<1>4. s \o b \in Seq(EarnedContacts(L))
  BY <1>1, <1>2
<1> QED
  BY <1>3, <1>4, Zenon

\* Bootstrap learns them into an empty table.
LEMMA BootedIn ==
    ASSUME NEW L \in Histories, Sources \in Seq(EarnedContacts(L))
    PROVE  Booted \in TableStates(L, {})
<1> DEFINE N == Len(Sources)
           S == TableStates(L, {})
           More(st, i) == Learned(st, Sources[i])
           F == [i \in 1 .. N |-> [st \in S |-> More(st, i)]]
           Rec(g) == [i \in 0 .. N |-> IF i = 0 THEN EmptyTable ELSE More(g[i - 1], i)]
           c == CHOOSE g : g = Rec(g)
<1>1. N \in Nat /\ \A i \in 1 .. N : Sources[i] \in EarnedContacts(L)
  OBVIOUS
<1>0. EmptyTable \in S
  <2>1. Marks({}, << >>, {})
    BY DEF Marks, Listed
  <2>2. [b \in Buckets |-> << >>] \in Tables(L) /\ << >> \in Seq(EarnedContacts(L))
    BY DEF Tables
  <2> QED
    BY <2>1, <2>2, Zenon DEF EmptyTable, TableStates
<1>2. Booted = c[N]
  BY Zenon  DEF Booted
<1> HIDE DEF N
<1>3. \A i \in 1 .. N : \A st \in S : More(st, i) \in S
  BY <1>1, LearnedIn, Zenon
<1> HIDE DEF More, S
<1>4. F \in Steps(N, S)
  BY <1>3, Zenon DEF Steps
<1>5. PICK g \in [0 .. N -> S] : Iterates(g, N, EmptyTable, F)
  BY <1>0, <1>1, <1>4, Iterated, Zenon
<1>6. g = Rec(g)
  <2>0. \A i \in 1 .. N : i - 1 \in 0 .. N
    BY <1>1
  <2>1. \A i \in 1 .. N : g[i - 1] \in S /\ g[i] = F[i][g[i - 1]]
    BY <1>5, <2>0, Zenon DEF Iterates
  <2>2. \A i \in 1 .. N : g[i] = More(g[i - 1], i)
    BY <2>1, Zenon
  <2>3. g[0] = EmptyTable
    BY <1>5, Zenon DEF Iterates
  <2>4. \A i \in 0 .. N : i = 0 \/ i \in 1 .. N
    BY <1>1
  <2>5. \A i \in 0 .. N : g[i] = IF i = 0 THEN EmptyTable ELSE More(g[i - 1], i)
    BY <2>2, <2>3, <2>4, Zenon
  <2> QED
    BY <2>5, Zenon
<1>7. c = Rec(c)
  BY <1>6, Zenon
<1> HIDE DEF c
<1>8. \A i \in 0 .. N : c[i] = IF i = 0 THEN EmptyTable ELSE More(c[i - 1], i)
  BY <1>7, Zenon
<1> DEFINE Z == {i \in Nat : i <= N => c[i] \in S}
<1>9. 0 \in Z
  <2>1. 0 \in 0 .. N
    BY <1>1
  <2> QED
    BY <1>0, <1>8, <2>1, Zenon
<1>10. ASSUME NEW i \in Nat, i \in Z PROVE i + 1 \in Z
  <2> SUFFICES ASSUME i + 1 <= N PROVE c[i + 1] \in S
    OBVIOUS
  <2>1. i + 1 \in 1 .. N /\ i + 1 \in 0 .. N /\ i + 1 # 0 /\ c[i] \in S /\ (i + 1) - 1 = i
    BY <1>1, <1>10
  <2>2. c[i + 1] = More(c[(i + 1) - 1], i + 1)
    BY <1>8, <2>1, Zenon
  <2> QED
    BY <1>3, <2>1, <2>2, Zenon
<1> HIDE DEF Z
<1>11. N \in Z
  BY <1>1, <1>9, <1>10, SetInduction, Zenon
<1>12. c[N] \in S
  BY <1>1, <1>11 DEF Z
<1> QED
  BY <1>2, <1>12, Zenon DEF S

-----------------------------------------------------------------------------
(* The inductive invariant and its steps *)

\* The fields of a request that is being served.
ReqFields == {"new", "oldest", "alts"}

\* The bucket of the request being served.
Serving == IF evicting = Idle THEN {} ELSE {BucketOf[evicting.new.id]}

\* The inductive invariant: every contact and stamp, wherever it is kept, is
\* earned under the history of verified messages, and the marks are exact.
TableInv ==
    /\ peerClock \in Nat /\ lastHeard \in [Peer \X Addr -> Nat]
    /\ \A x \in Peer \X Addr : lastHeard[x] <= peerClock
    /\ rt \in Tables(lastHeard) /\ evictCh \in Seq(EarnedContacts(lastHeard))
    /\ learning = Idle \/ learning.contact \in EarnedContacts(lastHeard)
    /\ evicting = Idle \/ (evicting.new \in EarnedContacts(lastHeard) /\ evicting.oldest.id \in Peer /\ DOMAIN evicting = ReqFields)
    /\ probing = Idle \/ probing.id \in Peer
    /\ \A g \in confirming : g.id \in Peer
    /\ book \in Seq(Entries(lastHeard))
    /\ Marks(evictPending, evictCh, Serving)

\* The history is one the lemmas speak of.
LEMMA HistoryIn == ASSUME TableInv PROVE lastHeard \in Histories
  BY Zenon DEF TableInv, Histories

\* The invariant gives what the table promises.
LEMMA TableInvGives == ASSUME TableInv PROVE ConfirmationsAreEarned /\ EvictionMarkExact
<1> DEFINE L == lastHeard
           stored == AllContacts(rt) \cup Listed(evictCh)
<1>1. stored \subseteq EarnedContacts(L)
  <2>1. \A b \in Buckets : Listed(rt[b]) \subseteq EarnedContacts(L)
    <3> TAKE b \in Buckets
    <3>1. rt[b] \in Seq(EarnedContacts(L))
      BY Zenon  DEF TableInv, Tables
    <3>2. \A i \in DOMAIN rt[b] : rt[b][i] \in EarnedContacts(L)
      BY <3>1, ElementsIn, Zenon
    <3> QED
      BY <3>2, Zenon DEF Listed
  <2>2. Listed(evictCh) \subseteq EarnedContacts(L)
    <3>1. evictCh \in Seq(EarnedContacts(L))
      BY Zenon  DEF TableInv
    <3>2. \A i \in DOMAIN evictCh : evictCh[i] \in EarnedContacts(L)
      BY <3>1, ElementsIn, Zenon
    <3> QED
      BY <3>2, Zenon DEF Listed
  <2> QED
    BY <2>1, <2>2, Zenon DEF AllContacts
<1>2. \A c \in stored : /\ Genuine(L, c.id, c.addr, c.conf)
                        /\ \A a \in Listed(c.alts) : Genuine(L, c.id, a.addr, a.conf)
  BY <1>1, ContactFields, Zenon DEF Listed
<1>3. \A x \in Listed(book) : Genuine(L, x.id, x.addr, x.conf)
  <2>1. book \in Seq(Entries(L))
    BY Zenon  DEF TableInv
  <2>2. \A i \in DOMAIN book : book[i] \in Entries(L)
    BY <2>1, ElementsIn, Zenon
  <2> QED
    BY <2>2, Zenon DEF Listed, Entries
<1>4. \A x \in Confirmations : Genuine(L, x[1], x[2], x[3])
  <2> TAKE x \in Confirmations
  <2>1. \/ \E c \in stored : x = <<c.id, c.addr, c.conf>>
        \/ \E c \in stored : \E a \in Listed(c.alts) : x = <<c.id, a.addr, a.conf>>
        \/ \E e \in Listed(book) : x = <<e.id, e.addr, e.conf>>
    BY Zenon  DEF Confirmations
  <2> HIDE DEF stored
  <2>2. \A p, a, k : Genuine(L, p, a, k) => (x = <<p, a, k>> => Genuine(L, x[1], x[2], x[3]))
    OBVIOUS
  <2> QED
    BY <1>2, <1>3, <2>1, <2>2, Zenon
<1>5. ConfirmationsAreEarned
  BY <1>4, Zenon DEF ConfirmationsAreEarned, Genuine
<1>6. EvictionMarkExact
  <2>1. Marks(evictPending, evictCh, Serving)
    BY Zenon  DEF TableInv
  <2>2. CASE evicting = Idle
    BY <2>1, <2>2, Zenon DEF EvictionMarkExact, Marks, Serving
  <2>3. CASE evicting # Idle
    <3>1. Serving = {BucketOf[evicting.new.id]}
      BY <2>3, Zenon DEF Serving
    <3> QED
      BY <2>1, <2>3, <3>1, Zenon DEF EvictionMarkExact, Marks, Listed
  <2> QED
    BY <2>2, <2>3, Zenon
<1> QED
  BY <1>5, <1>6, Zenon

\* The parts of the invariant.
LEMMA TableParts ==
    ASSUME TableInv
    PROVE  /\ peerClock \in Nat /\ lastHeard \in Histories
           /\ rt \in Tables(lastHeard) /\ evictCh \in Seq(EarnedContacts(lastHeard))
           /\ learning = Idle \/ learning.contact \in EarnedContacts(lastHeard)
           /\ evicting = Idle \/ (evicting.new \in EarnedContacts(lastHeard) /\ evicting.oldest.id \in Peer /\ DOMAIN evicting = ReqFields)
           /\ probing = Idle \/ probing.id \in Peer
           /\ \A g \in confirming : g.id \in Peer
           /\ book \in Seq(Entries(lastHeard))
           /\ Marks(evictPending, evictCh, Serving)
  BY HistoryIn, Zenon DEF TableInv

\* A step that leaves the history alone keeps the invariant if it keeps the parts.
LEMMA TableKept ==
    ASSUME TableInv, lastHeard' = lastHeard, peerClock' \in Nat, peerClock <= peerClock',
           rt' \in Tables(lastHeard), evictCh' \in Seq(EarnedContacts(lastHeard)),
           learning' = Idle \/ learning'.contact \in EarnedContacts(lastHeard),
           evicting' = Idle \/ (evicting'.new \in EarnedContacts(lastHeard) /\ evicting'.oldest.id \in Peer /\ DOMAIN evicting' = ReqFields),
           probing' = Idle \/ probing'.id \in Peer,
           \A g \in confirming' : g.id \in Peer,
           book' \in Seq(Entries(lastHeard)),
           Marks(evictPending', evictCh', Serving')
    PROVE  TableInv'
<1>1. \A x \in Peer \X Addr : lastHeard[x] <= peerClock'
  <2>1. /\ peerClock \in Nat /\ lastHeard \in [Peer \X Addr -> Nat]
        /\ \A x \in Peer \X Addr : lastHeard[x] <= peerClock
    BY Zenon  DEF TableInv
  <2>2. \A k \in Nat : k <= peerClock => k <= peerClock'
    BY <2>1
  <2>3. \A x \in Peer \X Addr : lastHeard[x] \in Nat
    BY <2>1, Zenon
  <2> QED
    BY <2>1, <2>2, <2>3, Zenon
<1> QED
  BY <1>1, Zenon DEF TableInv

\* A request or an evicting record is not Idle.
LEMMA NotIdle ==
    ASSUME NEW a, NEW b, NEW c
    PROVE  [new |-> a, oldest |-> b, alts |-> c] # Idle
  BY Zenon DEF Idle

\* learn, with nothing else touched of the queue.
LEMMA LearnKeeps ==
    ASSUME TableInv, NEW c \in EarnedContacts(lastHeard), Learn(c)
    PROVE  /\ rt' \in Tables(lastHeard) /\ evictCh' \in Seq(EarnedContacts(lastHeard))
           /\ Marks(evictPending', evictCh', Serving)
<1> DEFINE L == lastHeard
           st == Learned(Now, c)
<1>1. /\ lastHeard \in Histories /\ rt \in Tables(L) /\ evictCh \in Seq(EarnedContacts(L))
      /\ Marks(evictPending, evictCh, Serving)
  BY TableParts, Zenon
<1>2. evictPending \subseteq Buckets
  <2>1. \A i \in DOMAIN evictCh : evictCh[i].id \in Peer
    BY <1>1, ElementsIn, ContactFields, Zenon
  <2>2. evicting = Idle \/ evicting.new.id \in Peer
    BY TableParts, ContactFields, Zenon
  <2>3. \A p \in Peer : BucketOf[p] \in Buckets
    BY PeerAssumption, Zenon DEF Buckets
  <2> QED
    BY <1>1, <2>1, <2>2, <2>3, Zenon DEF Marks, Listed, Serving
<1>3. Now \in TableStates(L, Serving)
  <2>1. Now.table = rt /\ Now.pending = evictPending /\ Now.queue = evictCh
        /\ Now \in [table : Tables(L), pending : SUBSET Buckets, queue : Seq(EarnedContacts(L))]
    BY <1>1, <1>2, Zenon DEF Now
  <2> QED
    BY <1>1, <2>1, Zenon DEF TableStates
<1>4. st \in TableStates(L, Serving)
  BY <1>1, <1>3, LearnedIn, Zenon
<1>5. rt' = st.table /\ evictPending' = st.pending /\ evictCh' = st.queue
  BY Zenon  DEF Learn
<1> HIDE DEF st
<1>6. st.table \in Tables(L) /\ st.queue \in Seq(EarnedContacts(L)) /\ Marks(st.pending, st.queue, Serving)
  BY <1>4, Zenon DEF TableStates
<1> QED
  BY <1>5, <1>6, Zenon

\* A verified message: the history moves first, and every stamp stays earned.
LEMMA InboundStep ==
    ASSUME TableInv, NEW p \in Peer, NEW o \in HeardAt[p], NEW adv \in HeardAt[p], Inbound(p, o, adv)
    PROVE  TableInv'
<1> DEFINE a == IF adv \in Viable THEN adv ELSE o
           L == lastHeard
           M == [lastHeard EXCEPT ![<<p, a>>] = peerClock]
<1>1. /\ learning' = [contact |-> Contact(p, a, peerClock, peerClock), isNew |-> FALSE]
      /\ lastHeard' = M
      /\ UNCHANGED <<peerClock, rt, evictCh, evictPending, evicting, probing, confirming, sweeping, book>>
  BY Zenon  DEF Inbound
<1>2. a \in AddrsOf(p) /\ a \in Addr
  <2>1. a \in AddrsOf(p)
    BY Zenon  DEF AddrsOf
  <2> QED
    BY <2>1, AddrsFinite, Zenon
<1> HIDE DEF a
<1>3. /\ peerClock \in Nat /\ L \in [Peer \X Addr -> Nat]
      /\ \A x \in Peer \X Addr : L[x] <= peerClock
  BY Zenon  DEF TableInv
<1>4. <<p, a>> \in Peer \X Addr
  BY <1>2, Zenon
<1>5. M \in [Peer \X Addr -> Nat] /\ \A x \in Peer \X Addr : M[x] = IF x = <<p, a>> THEN peerClock ELSE L[x]
  BY <1>3, <1>4, Zenon
<1>6. \A x \in Peer \X Addr : L[x] <= M[x] /\ M[x] <= peerClock
  BY <1>3, <1>5
<1> HIDE DEF M
<1>7. L \in Histories /\ M \in Histories
  BY <1>3, <1>5, <1>6, HistoryIn, Zenon DEF Histories
<1>8. EarnedContacts(L) \subseteq EarnedContacts(M)
      /\ \A q \in Peer : \A b \in Addr : \A k \in Nat : Genuine(L, q, b, k) => Genuine(M, q, b, k)
  BY <1>6, <1>7, HistoryGrows, Zenon
<1>9. Genuine(M, p, a, peerClock)
  <2>1. M[<<p, a>>] = peerClock /\ peerClock <= peerClock
    BY <1>3, <1>4, <1>5
  <2> QED
    BY <1>2, <2>1, Zenon DEF Genuine
<1>10. learning'.contact \in EarnedContacts(M)
  <2>1. Contact(p, a, peerClock, peerClock) \in EarnedContacts(M)
    BY <1>2, <1>3, <1>9, FreshContact, Zenon
  <2> QED
    BY <1>1, <2>1, Zenon
<1>11. /\ rt \in Tables(L) /\ evictCh \in Seq(EarnedContacts(L))
       /\ evicting = Idle \/ (evicting.new \in EarnedContacts(L) /\ evicting.oldest.id \in Peer /\ DOMAIN evicting = ReqFields)
       /\ probing = Idle \/ probing.id \in Peer
       /\ \A g \in confirming : g.id \in Peer
       /\ book \in Seq(Entries(L))
       /\ Marks(evictPending, evictCh, Serving)
  BY TableParts, Zenon
<1>12. Tables(L) \subseteq Tables(M) /\ Seq(EarnedContacts(L)) \subseteq Seq(EarnedContacts(M))
  <2>1. Seq(EarnedContacts(L)) \subseteq Seq(EarnedContacts(M))
    BY <1>8, SeqGrows, Zenon
  <2> QED
    BY <2>1, Zenon DEF Tables
<1>13. Seq(Entries(L)) \subseteq Seq(Entries(M))
  <2>1. Entries(L) \subseteq Entries(M)
    BY <1>8, Zenon DEF Entries
  <2> QED
    BY <2>1, SeqGrows, Zenon
<1>14. /\ rt' \in Tables(M) /\ evictCh' \in Seq(EarnedContacts(M)) /\ book' \in Seq(Entries(M))
       /\ evicting' = Idle \/ (evicting'.new \in EarnedContacts(M) /\ evicting'.oldest.id \in Peer /\ DOMAIN evicting' = ReqFields)
       /\ probing' = Idle \/ probing'.id \in Peer
       /\ \A g \in confirming' : g.id \in Peer
  BY <1>1, <1>8, <1>11, <1>12, <1>13, Zenon
<1>15. Marks(evictPending', evictCh', Serving')
  BY <1>1, <1>11, Zenon DEF Serving
<1> QED
  BY <1>1, <1>3, <1>5, <1>6, <1>10, <1>14, <1>15, Zenon DEF TableInv

\* The head and the tail of a slice.
LEMMA TailIn ==
    ASSUME NEW A, NEW s \in Seq(A), s # << >>
    PROVE  /\ Head(s) \in A /\ Head(s) = s[1] /\ Tail(s) \in Seq(A)
           /\ Len(s) \in Nat \ {0} /\ DOMAIN s = 1 .. Len(s) /\ DOMAIN Tail(s) = 1 .. Len(s) - 1
           /\ \A i \in 1 .. Len(s) - 1 : Tail(s)[i] = s[i + 1]
  OBVIOUS

\* A request leaves the queue: its bucket stays marked while it is served, or
\* is unmarked.
LEMMA RequestTaken ==
    ASSUME NEW A, NEW queue \in Seq(A), queue # << >>, NEW pd, Marks(pd, queue, {})
    PROVE  LET b == BucketOf[Head(queue).id]
           IN  /\ Marks(pd, Tail(queue), {b})
               /\ Marks(pd \ {b}, Tail(queue), {})
<1> DEFINE q == Tail(queue)
           b == BucketOf[Head(queue).id]
<1>1. /\ Head(queue) = queue[1] /\ q \in Seq(A)
      /\ Len(queue) \in Nat \ {0} /\ DOMAIN queue = 1 .. Len(queue) /\ DOMAIN q = 1 .. Len(queue) - 1
      /\ \A i \in 1 .. Len(queue) - 1 : q[i] = queue[i + 1]
  BY TailIn, Zenon
<1>2. b = BucketOf[queue[1].id]
  BY <1>1, Zenon
<1> HIDE DEF q, b
<1>3. /\ 1 \in DOMAIN queue
      /\ \A i \in DOMAIN q : i + 1 \in DOMAIN queue /\ i + 1 # 1 /\ q[i] = queue[i + 1]
      /\ \A i, j \in DOMAIN q : i + 1 = j + 1 => i = j
      /\ \A i \in DOMAIN queue : i = 1 \/ \E j \in DOMAIN q : i = j + 1
  <2>1. \A i \in DOMAIN queue : i = 1 \/ (i - 1 \in DOMAIN q /\ i = (i - 1) + 1)
    BY <1>1
  <2>2. /\ 1 \in DOMAIN queue
        /\ \A i \in DOMAIN q : i + 1 \in DOMAIN queue /\ i + 1 # 1 /\ q[i] = queue[i + 1]
        /\ \A i, j \in DOMAIN q : i + 1 = j + 1 => i = j
    BY <1>1
  <2> QED
    BY <2>1, <2>2, Zenon
<1>4. /\ pd = {BucketOf[c.id] : c \in Listed(queue)}
      /\ \A i, j \in DOMAIN queue : BucketOf[queue[i].id] = BucketOf[queue[j].id] => i = j
  BY Zenon  DEF Marks
<1>5. /\ \A i, j \in DOMAIN q : BucketOf[q[i].id] = BucketOf[q[j].id] => i = j
      /\ \A i \in DOMAIN q : BucketOf[q[i].id] \notin {b}
  <2>1. ASSUME NEW i \in DOMAIN q, NEW j \in DOMAIN q, BucketOf[q[i].id] = BucketOf[q[j].id]
        PROVE  i = j
    <3>1. i + 1 \in DOMAIN queue /\ j + 1 \in DOMAIN queue
          /\ BucketOf[queue[i + 1].id] = BucketOf[queue[j + 1].id]
      BY <1>3, <2>1, Zenon
    <3>2. i + 1 = j + 1
      BY <1>4, <3>1, Zenon
    <3> QED
      BY <1>3, <3>2, Zenon
  <2>2. ASSUME NEW i \in DOMAIN q, BucketOf[q[i].id] = b
        PROVE  FALSE
    <3>1. i + 1 \in DOMAIN queue /\ i + 1 # 1 /\ BucketOf[queue[i + 1].id] = BucketOf[queue[1].id]
      BY <1>2, <1>3, <2>2, Zenon
    <3> QED
      BY <1>3, <1>4, <3>1, Zenon
  <2> QED
    BY <2>1, <2>2, Zenon
<1>6. Listed(queue) = Listed(q) \cup {queue[1]}
  <2>1. ASSUME NEW x \in Listed(queue) PROVE x \in Listed(q) \cup {queue[1]}
    <3>1. PICK i \in DOMAIN queue : x = queue[i]
      BY Zenon  DEF Listed
    <3>2. ASSUME NEW j \in DOMAIN q, i = j + 1 PROVE x \in Listed(q)
      <4>1. q[j] = x
        BY <1>3, <3>1, <3>2, Zenon
      <4> QED
        BY <4>1, Zenon DEF Listed
    <3> QED
      BY <1>3, <3>1, <3>2, Zenon
  <2>2. ASSUME NEW x \in Listed(q) PROVE x \in Listed(queue)
    <3>1. PICK j \in DOMAIN q : x = q[j]
      BY Zenon  DEF Listed
    <3>2. j + 1 \in DOMAIN queue /\ x = queue[j + 1]
      BY <1>3, <3>1, Zenon
    <3> QED
      BY <3>2, Zenon DEF Listed
  <2>3. queue[1] \in Listed(queue)
    BY <1>3, Zenon DEF Listed
  <2> QED
    BY <2>1, <2>2, <2>3, Zenon
<1>7. pd = {BucketOf[c.id] : c \in Listed(q)} \cup {b}
  BY <1>2, <1>4, <1>6, Zenon
<1>8. pd \ {b} = {BucketOf[c.id] : c \in Listed(q)}
  BY <1>5, <1>7, Zenon DEF Listed
<1>9. Marks(pd, q, {b})
  BY <1>5, <1>7, Zenon DEF Marks
<1>10. Marks(pd \ {b}, q, {})
  BY <1>5, <1>8, Zenon DEF Marks
<1> QED
  BY <1>9, <1>10, Zenon DEF q, b

\* evictionLoop takes a request.
LEMMA TakeStep ==
    ASSUME TableInv, EvictTake
    PROVE  TableInv'
<1> DEFINE L == lastHeard
           c == Head(evictCh)
           b == BucketOf[c.id]
<1>1. /\ evicting = Idle /\ evictCh # << >> /\ rt' = Add(rt, c)
      /\ evicting' = IF Refused(rt, c) THEN [new |-> c, oldest |-> Head(rt[b]), alts |-> {}] ELSE Idle
      /\ evictPending' = IF Refused(rt, c) THEN evictPending ELSE evictPending \ {b}
      /\ evictCh' = Tail(evictCh)
      /\ UNCHANGED <<peerClock, learning, probing, confirming, sweeping, book, lastHeard>>
  BY Zenon  DEF EvictTake
<1>2. /\ peerClock \in Nat /\ lastHeard \in Histories
      /\ rt \in Tables(L) /\ evictCh \in Seq(EarnedContacts(L))
      /\ learning = Idle \/ learning.contact \in EarnedContacts(L)
      /\ probing = Idle \/ probing.id \in Peer
      /\ \A g \in confirming : g.id \in Peer
      /\ book \in Seq(Entries(L))
      /\ Marks(evictPending, evictCh, Serving)
  BY TableParts, Zenon
<1>3. c \in EarnedContacts(L) /\ Tail(evictCh) \in Seq(EarnedContacts(L))
  BY <1>1, <1>2, TailIn, Zenon
<1>4. Marks(evictPending, Tail(evictCh), {b}) /\ Marks(evictPending \ {b}, Tail(evictCh), {})
  <2>1. Serving = {}
    BY <1>1, Zenon DEF Serving
  <2> QED
    BY <1>1, <1>2, <2>1, RequestTaken, Zenon
<1>5. rt' \in Tables(L)
  BY <1>1, <1>2, <1>3, Added, Zenon
<1>6. peerClock' \in Nat /\ peerClock <= peerClock'
  BY <1>1, <1>2
<1>7. CASE Refused(rt, c)
  <2>1. evicting' = [new |-> c, oldest |-> Head(rt[b]), alts |-> {}] /\ evictPending' = evictPending
    BY <1>1, <1>7, Zenon
  <2>2. /\ evicting'.new = c /\ evicting'.oldest = Head(rt[b]) /\ evicting' # Idle
        /\ DOMAIN evicting' = ReqFields
    BY <2>1, NotIdle, Zenon DEF ReqFields
  <2>3. Head(rt[b]) \in EarnedContacts(L)
    <3>1. c.id \in Peer
      BY <1>3, ContactFields, Zenon
    <3>2. rt[b] \in Seq(EarnedContacts(L))
      BY <1>2, <3>1, BucketIn, Zenon
    <3>3. rt[b] # << >>
      <4>1. Len(rt[b]) >= Capacity
        BY <1>7, Zenon DEF Refused
      <4>2. Capacity > 0 /\ Capacity \in Nat
        BY PeerAssumption
      <4> QED
        BY <3>2, <4>1, <4>2
    <3> QED
      BY <3>2, <3>3, TailIn, Zenon
  <2>4. Head(rt[b]).id \in Peer
    BY <2>3, ContactFields, Zenon
  <2>5. Serving' = {b}
    BY <2>2, Zenon DEF Serving
  <2>6. Marks(evictPending', evictCh', Serving')
    BY <1>1, <1>4, <2>1, <2>5, Zenon
  <2> HIDE DEF c, b
  <2>7. evicting'.new \in EarnedContacts(L) /\ evicting'.oldest.id \in Peer /\ DOMAIN evicting' = ReqFields
    BY <1>3, <2>2, <2>4, Zenon
  <2> QED
    BY <1>1, <1>2, <1>3, <1>5, <1>6, <2>6, <2>7, TableKept
<1>8. CASE ~Refused(rt, c)
  <2>1. evicting' = Idle /\ evictPending' = evictPending \ {b}
    BY <1>1, <1>8, Zenon
  <2>2. Serving' = {}
    BY <2>1, Zenon DEF Serving
  <2>3. Marks(evictPending', evictCh', Serving')
    BY <1>1, <1>4, <2>1, <2>2, Zenon
  <2> HIDE DEF c, b
  <2> QED
    BY <1>1, <1>2, <1>3, <1>5, <1>6, <2>1, <2>3, TableKept
<1> QED
  BY <1>7, <1>8, Zenon

\* A served request is finished, whatever that did to the table.
LEMMA DoneStep ==
    ASSUME TableInv, evicting # Idle, EvictDone, rt' \in Tables(lastHeard),
           UNCHANGED <<peerClock, evictCh, learning, probing, confirming, sweeping, book, lastHeard>>
    PROVE  TableInv'
<1> DEFINE L == lastHeard
           b == BucketOf[evicting.new.id]
<1>1. /\ peerClock \in Nat /\ evictCh \in Seq(EarnedContacts(L))
      /\ learning = Idle \/ learning.contact \in EarnedContacts(L)
      /\ probing = Idle \/ probing.id \in Peer
      /\ \A g \in confirming : g.id \in Peer
      /\ book \in Seq(Entries(L))
      /\ Marks(evictPending, evictCh, Serving)
  BY TableParts, Zenon
<1>2. evicting' = Idle /\ evictPending' = evictPending \ {b}
  BY Zenon  DEF EvictDone
<1>3. Serving = {b} /\ Serving' = {}
  BY <1>2, Zenon DEF Serving
<1>4. Marks(evictPending \ {b}, evictCh, {})
  BY <1>1, <1>3, Zenon DEF Marks, Listed
<1>5. Marks(evictPending', evictCh', Serving')
  BY <1>2, <1>3, <1>4, Zenon
<1>6. peerClock' \in Nat /\ peerClock <= peerClock'
  BY <1>1
<1> HIDE DEF b
<1> QED
  BY <1>1, <1>2, <1>5, <1>6, TableKept, Zenon

\* A step that only writes the table, or one of the tasks, or the book.
LEMMA QuietStep ==
    ASSUME TableInv, UNCHANGED <<peerClock, lastHeard, evictCh, evictPending, evicting>>,
           rt' = rt \/ rt' \in Tables(lastHeard),
           learning' = learning \/ learning' = Idle \/ learning'.contact \in EarnedContacts(lastHeard),
           probing' = probing \/ probing' = Idle \/ probing'.id \in Peer,
           \A g \in confirming' : g.id \in Peer,
           book' = book \/ book' \in Seq(Entries(lastHeard))
    PROVE  TableInv'
<1> DEFINE L == lastHeard
<1>1. /\ peerClock \in Nat /\ rt \in Tables(L) /\ evictCh \in Seq(EarnedContacts(L))
      /\ learning = Idle \/ learning.contact \in EarnedContacts(L)
      /\ evicting = Idle \/ (evicting.new \in EarnedContacts(L) /\ evicting.oldest.id \in Peer /\ DOMAIN evicting = ReqFields)
      /\ probing = Idle \/ probing.id \in Peer
      /\ book \in Seq(Entries(L))
      /\ Marks(evictPending, evictCh, Serving)
  BY TableParts, Zenon
<1>2. Marks(evictPending', evictCh', Serving')
  BY <1>1, Zenon DEF Serving
<1>3. peerClock' \in Nat /\ peerClock <= peerClock'
  BY <1>1
<1>4. /\ rt' \in Tables(L) /\ evictCh' \in Seq(EarnedContacts(L))
      /\ learning' = Idle \/ learning'.contact \in EarnedContacts(L)
      /\ evicting' = Idle \/ (evicting'.new \in EarnedContacts(L) /\ evicting'.oldest.id \in Peer /\ DOMAIN evicting' = ReqFields)
      /\ probing' = Idle \/ probing'.id \in Peer
      /\ book' \in Seq(Entries(L)) /\ lastHeard' = lastHeard
  BY <1>1, Zenon
<1> QED
  BY <1>2, <1>3, <1>4, TableKept, Zenon

\* The steps of the eviction loop.
LEMMA EvictSteps == ASSUME TableInv, EvictStep PROVE TableInv'
<1> DEFINE L == lastHeard
<1>1. /\ lastHeard \in Histories /\ rt \in Tables(L) /\ peerClock \in Nat
      /\ evictCh \in Seq(EarnedContacts(L))
      /\ learning = Idle \/ learning.contact \in EarnedContacts(L)
      /\ evicting = Idle \/ (evicting.new \in EarnedContacts(L) /\ evicting.oldest.id \in Peer /\ DOMAIN evicting = ReqFields)
      /\ probing = Idle \/ probing.id \in Peer
      /\ \A g \in confirming : g.id \in Peer
      /\ book \in Seq(Entries(L))
      /\ Marks(evictPending, evictCh, Serving)
  BY TableParts, Zenon
<1>2. CASE EvictTake
  BY <1>2, TakeStep, Zenon
<1>3. CASE EvictKeep
  <2>1. /\ evicting # Idle /\ EvictDone /\ rt' = rt
        /\ UNCHANGED <<peerClock, evictCh, learning, probing, confirming, sweeping, book, lastHeard>>
    BY <1>3, Zenon DEF EvictKeep
  <2> QED
    BY <1>1, <2>1, DoneStep, Zenon
<1>4. CASE EvictMissed
  <2> DEFINE live == Get(rt, evicting.oldest.id)
             A == {live.alts[i].addr : i \in DOMAIN live.alts} \ {evicting.oldest.addr}
  <2>1. /\ evicting # Idle /\ evicting' = [evicting EXCEPT !.alts = A]
        /\ UNCHANGED <<peerClock, rt, evictCh, evictPending, learning, probing, confirming,
                       sweeping, book, lastHeard>>
    BY <1>4, Zenon DEF EvictMissed
  <2> HIDE DEF A
  <2>2. /\ evicting'.new = evicting.new /\ evicting'.oldest = evicting.oldest
        /\ DOMAIN evicting' = ReqFields
    BY <1>1, <2>1, Zenon DEF ReqFields
  <2>6. evicting' # Idle
    <3>1. DOMAIN Idle # ReqFields
      BY Zenon DEF Idle, ReqFields
    <3> QED
      BY <2>2, <3>1, Zenon
  <2>3. Serving' = Serving
    BY <2>1, <2>2, <2>6, Zenon DEF Serving
  <2>4. Marks(evictPending', evictCh', Serving')
    BY <1>1, <2>1, <2>3, Zenon
  <2>5. peerClock' \in Nat /\ peerClock <= peerClock'
    BY <1>1, <2>1
  <2> QED
    BY <1>1, <2>1, <2>2, <2>4, <2>5, TableKept, Zenon
<1>5. CASE EvictSwap
  <2>1. /\ evicting # Idle /\ EvictDone
        /\ rt' = Add(RemoveContact(rt, evicting.oldest.id), evicting.new)
        /\ UNCHANGED <<peerClock, evictCh, learning, probing, confirming, sweeping, book, lastHeard>>
    BY <1>5, Zenon DEF EvictSwap
  <2>2. RemoveContact(rt, evicting.oldest.id) \in Tables(L)
    BY <1>1, <2>1, Changed, Zenon
  <2>3. rt' \in Tables(L)
    BY <1>1, <2>1, <2>2, Added, Zenon
  <2> QED
    BY <2>1, <2>3, DoneStep, Zenon
<1>6. ASSUME NEW a \in Addr, EvictAltAnswers(a) PROVE TableInv'
  <2>1. /\ evicting # Idle /\ EvictDone /\ rt' = PromoteAlt(rt, evicting.oldest.id, a)
        /\ UNCHANGED <<peerClock, evictCh, learning, probing, confirming, sweeping, book, lastHeard>>
    BY <1>6, Zenon DEF EvictAltAnswers
  <2>2. rt' \in Tables(L)
    BY <1>1, <2>1, Changed, Zenon
  <2> QED
    BY <2>1, <2>2, DoneStep, Zenon
<1> QED
  BY <1>2, <1>3, <1>4, <1>5, <1>6, Zenon DEF EvictStep

\* The tasks that read, then write, the table.
LEMMA TaskSteps ==
    ASSUME TableInv,
           \/ \E p \in Peer : \E a \in TaughtAt[p] : Advertised(p, a) \/ ProbeMissed(p, a)
           \/ \E g \in confirming : ConfirmBegin(g) \/ ConfirmMiss(g) \/ ConfirmAnswered(g)
           \/ ProbeActs \/ SweepRead \/ SweepRemove \/ savePeerbook
    PROVE  TableInv'
<1> DEFINE L == lastHeard
<1>1. /\ lastHeard \in Histories /\ rt \in Tables(L) /\ peerClock \in Nat
      /\ probing = Idle \/ probing.id \in Peer
      /\ \A g \in confirming : g.id \in Peer
  BY TableParts, Zenon
<1>2. ASSUME NEW p \in Peer, NEW a \in TaughtAt[p], Advertised(p, a) PROVE TableInv'
  <2> DEFINE n == ~Known(rt, p)
  <2>1. /\ learning' = [contact |-> Contact(p, a, peerClock, 0), isNew |-> n]
        /\ UNCHANGED <<peerClock, rt, evictCh, evictPending, evicting, probing, confirming,
                       sweeping, book, lastHeard>>
    BY <1>2, Zenon DEF Advertised
  <2>2. a \in AddrsOf(p) /\ a \in Addr /\ 0 \in Nat
    <3>1. a \in AddrsOf(p)
      BY Zenon  DEF AddrsOf
    <3> QED
      BY <3>1, AddrsFinite, Zenon
  <2>3. Contact(p, a, peerClock, 0) \in EarnedContacts(L)
    BY <1>1, <2>2, ZeroGenuine, FreshContact, Zenon
  <2> HIDE DEF n
  <2>4. learning'.contact \in EarnedContacts(L)
    BY <2>1, <2>3, Zenon
  <2> QED
    BY <1>1, <2>1, <2>4, QuietStep, Zenon
<1>3. ASSUME NEW p \in Peer, NEW a, ProbeMissed(p, a) PROVE TableInv'
  <2>1. PICK os, cf : /\ probing' = [id |-> p, others |-> os, confirmed |-> cf]
                      /\ UNCHANGED <<peerClock, rt, evictCh, evictPending, evicting, learning, confirming,
                                     sweeping, book, lastHeard>>
    BY <1>3, Zenon DEF ProbeMissed
  <2>2. probing'.id = p
    BY <2>1, Zenon
  <2> QED
    BY <1>1, <2>1, <2>2, QuietStep, Zenon
<1>4. ASSUME NEW g \in confirming, ConfirmBegin(g) PROVE TableInv'
  <2>1. PICK cs : /\ confirming' = (confirming \ {g}) \cup {[g EXCEPT !.cands = cs, !.next = 1]}
                  /\ UNCHANGED <<peerClock, rt, evictCh, evictPending, evicting, learning, probing,
                                 sweeping, book, lastHeard>>
    BY <1>4, Zenon DEF ConfirmBegin
  <2>2. [g EXCEPT !.cands = cs, !.next = 1].id = g.id
    OBVIOUS
  <2>3. \A h \in confirming' : h.id \in Peer
    BY <1>1, <2>1, <2>2, Zenon
  <2> QED
    BY <2>1, <2>3, QuietStep, Zenon
<1>5. ASSUME NEW g \in confirming, ConfirmMiss(g) PROVE TableInv'
  <2> DEFINE h == [g EXCEPT !.next = g.next + 1]
  <2>1. /\ rt' = IF g.next = 1 /\ Len(g.cands) > 1 THEN PromoteAlt(rt, g.id, g.cands[2]) ELSE rt
        /\ confirming' = (confirming \ {g}) \cup (IF g.next < Len(g.cands) THEN {h} ELSE {})
        /\ UNCHANGED <<peerClock, evictCh, evictPending, evicting, learning, probing,
                       sweeping, book, lastHeard>>
    BY <1>5, Zenon DEF ConfirmMiss
  <2>2. h.id = g.id
    OBVIOUS
  <2> HIDE DEF h
  <2>3. \A x \in confirming' : x.id \in Peer
    BY <1>1, <2>1, <2>2, Zenon
  <2>4. rt' = rt \/ rt' \in Tables(L)
    BY <1>1, <2>1, Changed, Zenon
  <2> QED
    BY <2>1, <2>3, <2>4, QuietStep, Zenon
<1>6. ASSUME NEW g \in confirming, ConfirmAnswered(g) PROVE TableInv'
  <2>1. /\ confirming' = confirming \ {g}
        /\ UNCHANGED <<peerClock, rt, evictCh, evictPending, evicting, learning, probing,
                       sweeping, book, lastHeard>>
    BY <1>6, Zenon DEF ConfirmAnswered
  <2> QED
    BY <1>1, <2>1, QuietStep, Zenon
<1>7. CASE ProbeActs
  <2>1. /\ probing # Idle /\ rt' = ProbeEffect /\ probing' = Idle
        /\ UNCHANGED <<peerClock, evictCh, evictPending, evicting, learning, confirming,
                       sweeping, book, lastHeard>>
    BY <1>7, Zenon DEF ProbeActs
  <2>2. ProbeEffect \in Tables(L)
    <3>1. /\ RemoveContact(rt, probing.id) \in Tables(L) /\ Demote(rt, probing.id) \in Tables(L)
          /\ \A a : PromoteAlt(rt, probing.id, a) \in Tables(L)
      BY <1>1, <2>1, Changed, Zenon
    <3> QED
      BY <3>1, Zenon DEF ProbeEffect
  <2> QED
    BY <1>1, <2>1, <2>2, QuietStep, Zenon
<1>8. CASE SweepRead
  <2>1. UNCHANGED <<peerClock, rt, evictCh, evictPending, evicting, learning, probing, confirming,
                    book, lastHeard>>
    BY <1>8, Zenon DEF SweepRead
  <2> QED
    BY <1>1, <2>1, QuietStep, Zenon
<1>9. CASE SweepRemove
  <2> DEFINE t == [b \in Buckets |-> Filtered(rt[b], {c \in Listed(rt[b]) : c.id \notin sweeping.stale})]
  <2>1. /\ rt' = PruneStaleAlts(t, 2 * ContactIdleTTL)
        /\ UNCHANGED <<peerClock, evictCh, evictPending, evicting, learning, probing, confirming,
                       book, lastHeard>>
    BY <1>9, Zenon DEF SweepRemove
  <2>2. t \in Tables(L)
    BY <1>1, Swept, Zenon
  <2> HIDE DEF t
  <2>3. rt' \in Tables(L)
    BY <2>1, <2>2, Pruned, Zenon
  <2> QED
    BY <1>1, <2>1, <2>3, QuietStep, Zenon
<1>10. CASE savePeerbook
  <2>1. /\ book' = confirmedPeers
        /\ UNCHANGED <<peerClock, rt, evictCh, evictPending, evicting, learning, probing, confirming,
                       sweeping, lastHeard>>
    BY <1>10, Zenon DEF savePeerbook
  <2>2. book' \in Seq(Entries(L))
    BY <1>1, <2>1, BookIn, Zenon
  <2> QED
    BY <1>1, <2>1, <2>2, QuietStep, Zenon
<1> QED
  BY <1>2, <1>3, <1>4, <1>5, <1>6, <1>7, <1>8, <1>9, <1>10, Zenon

\* The insertion of a learner, a restart and the clock.
LEMMA OtherSteps ==
    ASSUME TableInv, LearnStep \/ PeerRestart \/ PeerTick
    PROVE  TableInv'
<1> DEFINE L == lastHeard
<1>1. /\ lastHeard \in Histories /\ rt \in Tables(L) /\ peerClock \in Nat
      /\ evictCh \in Seq(EarnedContacts(L))
      /\ learning = Idle \/ learning.contact \in EarnedContacts(L)
      /\ evicting = Idle \/ (evicting.new \in EarnedContacts(L) /\ evicting.oldest.id \in Peer /\ DOMAIN evicting = ReqFields)
      /\ probing = Idle \/ probing.id \in Peer
      /\ \A g \in confirming : g.id \in Peer
      /\ book \in Seq(Entries(L))
      /\ Marks(evictPending, evictCh, Serving)
  BY TableParts, Zenon
<1>2. CASE LearnStep
  <2> DEFINE c == learning.contact
             h == [id |-> c.id, cands |-> <<c.addr>>, next |-> 0]
  <2>1. /\ learning # Idle /\ Learn(c) /\ learning' = Idle
        /\ confirming' = confirming \/ confirming' = confirming \cup {h}
        /\ UNCHANGED <<peerClock, evicting, probing, sweeping, book, lastHeard>>
    BY <1>2, Zenon DEF LearnStep
  <2>2. c \in EarnedContacts(L) /\ c.id \in Peer
    BY <1>1, <2>1, ContactFields, Zenon
  <2>3. h.id = c.id
    BY Zenon
  <2> HIDE DEF h
  <2>4. \A g \in confirming' : g.id \in Peer
    BY <1>1, <2>1, <2>2, <2>3, Zenon
  <2> HIDE DEF c
  <2>5. /\ rt' \in Tables(L) /\ evictCh' \in Seq(EarnedContacts(L))
        /\ Marks(evictPending', evictCh', Serving)
    BY <2>1, <2>2, LearnKeeps, Zenon
  <2>6. Marks(evictPending', evictCh', Serving')
    BY <2>1, <2>5, Zenon DEF Serving
  <2>7. peerClock' \in Nat /\ peerClock <= peerClock'
    BY <1>1, <2>1
  <2> QED
    BY <1>1, <2>1, <2>4, <2>5, <2>6, <2>7, TableKept
<1>3. CASE PeerRestart
  <2>1. /\ rt' = Booted.table /\ evictPending' = Booted.pending /\ evictCh' = Booted.queue
        /\ evicting' = Idle /\ learning' = Idle /\ probing' = Idle /\ confirming' = {}
        /\ UNCHANGED <<peerClock, book, lastHeard>>
    BY <1>3, Zenon DEF PeerRestart
  <2>2. Booted \in TableStates(L, {})
    BY <1>1, SourcesIn, BootedIn, Zenon
  <2>3. Booted.table \in Tables(L) /\ Booted.queue \in Seq(EarnedContacts(L))
        /\ Marks(Booted.pending, Booted.queue, {})
    BY <2>2, Zenon DEF TableStates
  <2>4. Serving' = {}
    BY <2>1, Zenon DEF Serving
  <2>5. Marks(evictPending', evictCh', Serving')
    BY <2>1, <2>3, <2>4, Zenon
  <2>6. peerClock' \in Nat /\ peerClock <= peerClock'
    BY <1>1, <2>1
  <2> QED
    BY <1>1, <2>1, <2>3, <2>5, <2>6, TableKept, Zenon
<1>4. CASE PeerTick
  <2>1. /\ peerClock' = peerClock + 1
        /\ UNCHANGED <<rt, evictCh, evictPending, evicting, learning, probing, confirming,
                       sweeping, book, lastHeard>>
    BY <1>4, Zenon DEF PeerTick
  <2>2. peerClock' \in Nat /\ peerClock <= peerClock'
    BY <1>1, <2>1
  <2>3. Marks(evictPending', evictCh', Serving')
    BY <1>1, <2>1, Zenon DEF Serving
  <2> QED
    BY <1>1, <2>1, <2>2, <2>3, TableKept, Zenon
<1> QED
  BY <1>2, <1>3, <1>4, Zenon

\* The invariant holds in every reachable state.
LEMMA TableInvHolds == PeerSpec => []TableInv
<1>1. ASSUME PeerInit PROVE TableInv
  <2>1. lastHeard \in [Peer \X Addr -> Nat] /\ \A x \in Peer \X Addr : lastHeard[x] <= peerClock
    BY <1>1 DEF PeerInit
  <2>2. rt \in Tables(lastHeard)
    <3>1. << >> \in Seq(EarnedContacts(lastHeard))
      OBVIOUS
    <3> QED
      BY <1>1, <3>1, Zenon DEF PeerInit, Tables
  <2>3. Marks(evictPending, evictCh, Serving)
    <3>1. evictPending = {} /\ evictCh = << >> /\ Serving = {}
      BY <1>1, Zenon DEF PeerInit, Serving
    <3> QED
      BY <3>1 DEF Marks, Listed
  <2>4. evictCh \in Seq(EarnedContacts(lastHeard)) /\ book \in Seq(Entries(lastHeard)) /\ peerClock \in Nat
    BY <1>1 DEF PeerInit
  <2>5. learning = Idle /\ evicting = Idle /\ probing = Idle /\ confirming = {}
    BY <1>1, Zenon DEF PeerInit
  <2> QED
    BY <2>1, <2>2, <2>3, <2>4, <2>5, Zenon DEF TableInv
<1>2. TableInv /\ [PeerNext]_peerVars => TableInv'
  <2> SUFFICES ASSUME TableInv, [PeerNext]_peerVars PROVE TableInv'
    BY Zenon
  <2>1. CASE UNCHANGED peerVars
    <3>1. UNCHANGED <<peerClock, lastHeard, evictCh, evictPending, evicting, rt, learning, probing,
                      confirming, book>>
      BY <2>1, Zenon DEF peerVars
    <3>2. \A g \in confirming' : g.id \in Peer
      BY <3>1, TableParts, Zenon
    <3> QED
      BY <3>1, <3>2, QuietStep, Zenon
  <2>2. CASE \E p \in Peer : \E a, adv \in HeardAt[p] : Inbound(p, a, adv)
    BY <2>2, InboundStep, Zenon
  <2>3. CASE \/ \E p \in Peer : \E a \in TaughtAt[p] : Advertised(p, a) \/ ProbeMissed(p, a)
             \/ \E g \in confirming : ConfirmBegin(g) \/ ConfirmMiss(g) \/ ConfirmAnswered(g)
             \/ ProbeActs \/ SweepRead \/ SweepRemove \/ savePeerbook
    BY <2>3, TaskSteps, Zenon
  <2>4. CASE EvictStep
    BY <2>4, EvictSteps, Zenon
  <2>5. CASE LearnStep \/ PeerRestart \/ PeerTick
    BY <2>5, OtherSteps, Zenon
  <2> QED
    BY <2>1, <2>2, <2>3, <2>4, <2>5, Zenon DEF PeerNext
<1> QED
  BY <1>1, <1>2, PTL DEF PeerSpec

\* Whatever is taught, failed over, evicted, saved and reloaded, no confirmation
\* stamp is newer than the last verified message of its peer, and for a peer
\* whose addresses the table can all track, of its address (AddOrRefresh,
\* mergeAddr, PromoteAlt, savePeerbook, Bootstrap).
THEOREM StampsAreEarned == PeerSpec => []ConfirmationsAreEarned
  BY TableInvHolds, TableInvGives, PTL

\* The pending mark of a bucket is set exactly while its one request is queued
\* or served (scheduleEviction, evictionLoop).
THEOREM MarksAreExact == PeerSpec => []EvictionMarkExact
  BY TableInvHolds, TableInvGives, PTL

===========================================================================
