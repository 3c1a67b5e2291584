----------------------- MODULE SurfaceRegistry_proofs -----------------------
(***************************************************************************)
(* Proofs about SurfaceRegistry, for any consumers, any number of elections*)
(* and turns and callers that do what they like when they like: well-formed*)
(* states, and the four claims of the source about who reads.              *)
(*                                                                         *)
(* The invariant comes in layers, each proved with those before it: what   *)
(* can be reached from a list (ReachOK), which elections the node manager  *)
(* answers for (KnownOK), that an election which came up alone and is the  *)
(* last one is the only one there (AloneOK), and who reads for it and in   *)
(* which order (SeatOK, OrderOK).                                          *)
(***************************************************************************)
EXTENDS SurfaceRegistry, SequenceTheorems, NaturalsInduction, WellFoundedInduction, TLAPS

(* No consumer stands in s twice.                                            *)
Distinct(s) == \A i, j \in DOMAIN s : s[i] = s[j] => i = j

(* What an election reads with, or has on its list.                          *)
Has(e, c) == by[c] = e \/ c \in Range(elections[e].todo)

(* No consumer is registered twice, only a surface that is gone retires, and *)
(* whatever is not lost can be found: a consumer that an election which holds*)
(* the surface has, by the stop; one that an election reads with, only while *)
(* it holds the surface; and one that it is giving up, on its list.          *)
ReachOK ==
    /\ Distinct(surfaces)
    /\ surfaces # <<>> => retiring = <<>>
    /\ \A e \in Made : \A c \in Consumer \ lost :
          /\ Held(e) /\ Has(e, c) => c \in Range(Found)
          /\ by[c] = e => Held(e)
          /\ by[c] = e /\ elections[e].role = "resigning" => c \in Range(elections[e].todo)

(* An election that has not stopped is the one the manager knows, or it has  *)
(* been asked to stop, or that came too early.                               *)
Alive(e) == elections[e].role # "stopped"
KnownOK ==
    /\ \A e \in Made :
          /\ Alive(e) /\ e # current =>
                (elections[e].withdrawn /\ elections[e].stop) \/ elections[e].missed
          /\ elections[e].role = "resigning" /\ elections[e].then = "stopped"
                => elections[e].stop
    /\ manager \in {"new", "off"} => current = None
    /\ manager = "new" => elections = <<>>
    /\ manager = "on" => /\ current # None <=> surfaces # <<>>
                         /\ current # None => ~ elections[current].stop
    /\ manager = "stopping" /\ current # None =>
          elections[current].stop \/ elections[current].missed \/ ~ Alive(current)

AloneOK ==
    /\ \A e \in Made : Alone(e) => \A f \in Made \ {e} : ~ Alive(f)
    /\ \A e \in Made : ~ Alive(e) => ~ elections[e].stop

(* An election that holds the surface, is alone and known reads it.          *)
SeatOK ==
    \A e \in Made :
        /\ Alone(e) /\ elections[e].role = "master"
        /\ ~ elections[e].stop /\ ~ elections[e].missed
        => \E c \in Consumer : by[c] = e

(* Of two registered consumers, the earlier one reads if the later one does; *)
(* it is ahead on the list of starts, and behind on that of stops.           *)
Ordered(e, i, j) ==
    LET t == elections[e].todo
    IN  /\ by[surfaces[j]] = e => by[surfaces[i]] = e
        /\ elections[e].role = "master" => \A k \in DOMAIN t : t[k] = surfaces[j] =>
              by[surfaces[i]] = e \/ \E m \in DOMAIN t : m < k /\ t[m] = surfaces[i]
        /\ elections[e].role = "resigning" => \A k, m \in DOMAIN t :
              t[k] = surfaces[i] /\ t[m] = surfaces[j] => m < k
OrderOK ==
    \A e \in Made : Alone(e) =>
        /\ elections[e].role = "master" /\ elections[e].todo # <<>>
              => by[elections[e].todo[1]] = e
        /\ \A i, j \in DOMAIN surfaces :
              i < j /\ surfaces[j] \notin lost => Ordered(e, i, j)

-----------------------------------------------------------------------------
(* Sequences.                                                                *)

LEMMA Least ==
    ASSUME NEW T \in SUBSET Nat, T # {}
    PROVE  \E n \in T : \A m \in T : n <= m
  <1>1. IsWellFoundedOn(OpToRel(<, Nat), Nat)
    BY NatLessThanWellFounded
  <1>2. PICK n \in T : \A m \in T : ~ (<<m, n>> \in OpToRel(<, Nat))
    BY <1>1, WFMin
  <1>3. \A m \in T : ~ (m < n)
    BY <1>2 DEF OpToRel
  <1> QED
    BY <1>3

LEMMA RemovedAt ==
    ASSUME NEW S, NEW s \in Seq(S), NEW i \in 1 .. Len(s)
    PROVE  /\ RemoveAt(s, i) \in Seq(S)
           /\ Len(RemoveAt(s, i)) = Len(s) - 1
           /\ \A j \in 1 .. Len(s) - 1 : RemoveAt(s, i)[j] = IF j < i THEN s[j] ELSE s[j + 1]
  <1> DEFINE a == SubSeq(s, 1, i - 1)
             b == SubSeq(s, i + 1, Len(s))
  <1>1. a \in Seq(S) /\ Len(a) = i - 1 /\ \A j \in 1 .. i - 1 : a[j] = s[j]
    OBVIOUS
  <1>2. /\ b \in Seq(S) /\ Len(b) = Len(s) - i
        /\ \A j \in 1 .. Len(s) - i : b[j] = s[j + i]
    OBVIOUS
  <1> HIDE DEF a, b
  <1>3. /\ a \o b \in Seq(S) /\ Len(a \o b) = Len(s) - 1
        /\ \A j \in 1 .. Len(s) - 1 : (a \o b)[j] = IF j < i THEN a[j] ELSE b[j - (i - 1)]
    <2>1. /\ a \o b \in Seq(S) /\ Len(a \o b) = Len(a) + Len(b)
          /\ \A j \in 1 .. Len(a) + Len(b) :
                (a \o b)[j] = IF j <= Len(a) THEN a[j] ELSE b[j - Len(a)]
      BY <1>1, <1>2, ConcatProperties
    <2>2. Len(a) + Len(b) = Len(s) - 1
      BY <1>1, <1>2
    <2> QED
      BY <1>1, <1>2, <2>1, <2>2
  <1>4. \A j \in 1 .. Len(s) - 1 : (a \o b)[j] = IF j < i THEN s[j] ELSE s[j + 1]
    <2> TAKE j \in 1 .. Len(s) - 1
    <2>1. CASE j < i
      BY <2>1, <1>1, <1>3
    <2>2. CASE ~ (j < i)
      <3>1. j - (i - 1) \in 1 .. Len(s) - i /\ (j - (i - 1)) + i = j + 1
        BY <2>2
      <3> QED
        BY <2>2, <3>1, <1>2, <1>3
    <2> QED
      BY <2>1, <2>2
  <1>5. RemoveAt(s, i) = a \o b
    BY DEF RemoveAt, a, b
  <1> QED
    BY <1>3, <1>4, <1>5

(* The consumers without one of them.                                        *)
LEMMA FirstRemoved ==
    ASSUME NEW s \in Seq(Consumer), NEW c \in Range(s)
    PROVE  \E n \in 1 .. Len(s) : s[n] = c /\ RemoveFirst(s, c) = RemoveAt(s, n)
  <1> DEFINE I == {i \in 1 .. Len(s) : s[i] = c}
  <1>1. \E i \in 1 .. Len(s) : s[i] = c
    BY DEF Range
  <1>2. PICK n \in I : \A i \in I : n <= i
    <2>1. I \in SUBSET Nat /\ I # {}
      BY <1>1
    <2> HIDE DEF I
    <2> QED
      BY <2>1, Least
  <1>3. \A m \in I : (\A i \in I : m <= i) => m = n
    BY <1>2
  <1>4. Min(I) = n
    BY <1>2, <1>3 DEF Min
  <1>5. SelectInSeq(s, LAMBDA v : v = c) = n
    BY <1>2, <1>4 DEF SelectInSeq
  <1>6. RemoveFirst(s, c) = RemoveAt(s, n)
    BY <1>1, <1>5 DEF RemoveFirst
  <1> QED
    BY <1>2, <1>6

(* What is left keeps its order, and nothing else is gone.                   *)
LEMMA RemovedConsumer ==
    ASSUME NEW s \in Seq(Consumer), NEW c \in Range(s)
    PROVE  LET p == RemoveFirst(s, c)
           IN  /\ p \in Seq(Consumer) /\ Len(p) = Len(s) - 1 /\ Len(s) \in Nat \ {0}
               /\ \E at \in [DOMAIN p -> DOMAIN s] :
                     /\ \A j \in DOMAIN p : p[j] = s[at[j]]
                     /\ \A i, j \in DOMAIN p : i < j => at[i] < at[j]
               /\ \A x \in Range(s) \ {c} : x \in Range(p)
               /\ Distinct(s) => Distinct(p)
  <1>1. PICK n \in 1 .. Len(s) : s[n] = c /\ RemoveFirst(s, c) = RemoveAt(s, n)
    BY FirstRemoved
  <1> DEFINE p == RemoveAt(s, n)
  <1>2. /\ p \in Seq(Consumer) /\ Len(p) = Len(s) - 1
        /\ \A j \in 1 .. Len(s) - 1 : p[j] = IF j < n THEN s[j] ELSE s[j + 1]
    BY RemovedAt
  <1> HIDE DEF p
  <1>3. DOMAIN p = 1 .. Len(s) - 1 /\ DOMAIN s = 1 .. Len(s) /\ Len(s) \in Nat
    BY <1>2
  <1> DEFINE at == [j \in DOMAIN p |-> IF j < n THEN j ELSE j + 1]
  <1>4. at \in [DOMAIN p -> DOMAIN s] /\ \A j \in DOMAIN p : p[j] = s[at[j]]
    BY <1>2, <1>3
  <1>5. \A i, j \in DOMAIN p : i < j => at[i] < at[j]
    BY <1>3
  <1>6. \A x \in Range(s) \ {c} : x \in Range(p)
    <2> TAKE x \in Range(s) \ {c}
    <2>1. PICK k \in 1 .. Len(s) : s[k] = x /\ k # n
      BY <1>1, <1>3 DEF Range
    <2>2. CASE k < n
      BY <1>2, <1>3, <2>1, <2>2 DEF Range
    <2>3. CASE ~ (k < n)
      <3>1. k - 1 \in DOMAIN p /\ ~ (k - 1 < n) /\ (k - 1) + 1 = k
        BY <1>3, <2>1, <2>3
      <3> QED
        BY <1>2, <1>3, <2>1, <3>1 DEF Range
    <2> QED
      BY <2>2, <2>3
  <1>7. ASSUME Distinct(s) PROVE Distinct(p)
    <2>1. \A i, j \in DOMAIN p : at[i] = at[j] => i = j
      BY <1>3
    <2> HIDE DEF at
    <2> QED
      BY <1>4, <1>7, <2>1 DEF Distinct
  <1> HIDE DEF at
  <1> QED
    BY <1>1, <1>2, <1>3, <1>4, <1>5, <1>6, <1>7 DEF p

LEMMA Appended ==
    ASSUME NEW s \in Seq(Consumer), NEW c \in Consumer, c \notin Range(s), Distinct(s)
    PROVE  /\ Append(s, c) \in Seq(Consumer) /\ Distinct(Append(s, c)) /\ Append(s, c) # <<>>
           /\ DOMAIN Append(s, c) = DOMAIN s \cup {Len(s) + 1} /\ Len(s) + 1 \notin DOMAIN s
           /\ \A i \in DOMAIN s : i \in 1 .. Len(s) /\ Append(s, c)[i] = s[i]
           /\ Append(s, c)[Len(s) + 1] = c /\ Range(Append(s, c)) = Range(s) \cup {c}
  <1> DEFINE q == Append(s, c)
  <1>1. /\ DOMAIN s = 1 .. Len(s) /\ Len(s) \in Nat
        /\ \A i \in 1 .. Len(s) : s[i] # c
    BY DEF Range
  <1>2. /\ q \in Seq(Consumer) /\ DOMAIN q = 1 .. Len(s) + 1 /\ Len(q) = Len(s) + 1
        /\ \A i \in 1 .. Len(s) : q[i] = s[i]
        /\ q[Len(s) + 1] = c
    OBVIOUS
  <1> HIDE DEF q
  <1>3. \A i \in DOMAIN q : i \in DOMAIN s \/ i = Len(s) + 1
    BY <1>1, <1>2
  <1>4. Distinct(q)
    BY <1>1, <1>2, <1>3 DEF Distinct
  <1>5. q # <<>>
    BY <1>1, <1>2
  <1>6. Range(q) = Range(s) \cup {c}
    BY <1>1, <1>2, <1>3 DEF Range
  <1>7. DOMAIN q = DOMAIN s \cup {Len(s) + 1} /\ Len(s) + 1 \notin DOMAIN s
    BY <1>1, <1>2
  <1> QED
    BY <1>1, <1>2, <1>4, <1>5, <1>6, <1>7 DEF q

LEMMA TailOf ==
    ASSUME NEW S, NEW s \in Seq(S), s # <<>>
    PROVE  /\ Tail(s) \in Seq(S) /\ Head(s) \in S /\ Head(s) = s[1]
           /\ Len(s) \in Nat \ {0} /\ Len(Tail(s)) = Len(s) - 1
           /\ \A k \in 1 .. Len(s) - 1 : Tail(s)[k] = s[k + 1]
           /\ Head(s) \in Range(s) /\ Range(s) = {Head(s)} \cup Range(Tail(s))
           /\ Tail(s) # <<>> => Head(Tail(s)) \in Range(Tail(s))
  <1> DEFINE t == Tail(s)
  <1>1. /\ t \in Seq(S) /\ Head(s) \in S /\ Head(s) = s[1]
        /\ Len(s) \in Nat \ {0} /\ Len(t) = Len(s) - 1
        /\ \A k \in 1 .. Len(s) - 1 : t[k] = s[k + 1]
        /\ DOMAIN s = 1 .. Len(s) /\ DOMAIN t = 1 .. Len(s) - 1
        /\ t # <<>> => Head(t) = t[1] /\ 1 \in DOMAIN t
    OBVIOUS
  <1> HIDE DEF t
  <1>2. \A x \in Range(t) : x \in Range(s)
    <2> TAKE x \in Range(t)
    <2>1. PICK k \in 1 .. Len(s) - 1 : t[k] = x
      BY <1>1 DEF Range
    <2>2. k + 1 \in DOMAIN s /\ s[k + 1] = x
      BY <1>1, <2>1
    <2> QED
      BY <2>2 DEF Range
  <1>3. \A x \in Range(s) : x = Head(s) \/ x \in Range(t)
    <2> TAKE x \in Range(s)
    <2>1. PICK k \in 1 .. Len(s) : s[k] = x
      BY <1>1 DEF Range
    <2>2. CASE k = 1
      BY <1>1, <2>1, <2>2
    <2>3. CASE k # 1
      <3>1. k - 1 \in DOMAIN t /\ (k - 1) + 1 = k
        BY <1>1, <2>3
      <3> QED
        BY <1>1, <2>1, <3>1 DEF Range
    <2> QED
      BY <2>2, <2>3
  <1>4. Head(s) \in Range(s) /\ (t # <<>> => Head(t) \in Range(t))
    BY <1>1 DEF Range
  <1> QED
    BY <1>1, <1>2, <1>3, <1>4 DEF t

-----------------------------------------------------------------------------
(* Elections.                                                                *)

LEMMA ElectionFields ==
    ASSUME NEW x \in Election
    PROVE  /\ x.role \in Role /\ x.stop \in BOOLEAN /\ x.withdrawn \in BOOLEAN
           /\ x.todo \in Seq(Consumer) /\ x.then \in {"contending", "stopped"}
           /\ x.missed \in BOOLEAN /\ x.after \in BOOLEAN
  BY DEF Election

LEMMA NewIsElection == NewElection \in Election
  BY DEF NewElection, Election, Role

(* One election changes.                                                     *)
LEMMA Changed ==
    ASSUME NEW es \in Seq(Election), NEW e \in DOMAIN es, NEW x \in Election,
           NEW fs, fs = [es EXCEPT ![e] = x]
    PROVE  /\ fs \in Seq(Election) /\ DOMAIN fs = DOMAIN es /\ fs[e] = x
           /\ \A f \in DOMAIN es \ {e} : fs[f] = es[f]
  OBVIOUS

LEMMA NoneApart == TypeOK => None \notin Made /\ Made \subseteq Nat
  BY RegistryAssumption DEF TypeOK, Made

-----------------------------------------------------------------------------
(* What the actions do to the elections.                                     *)

(* Of the elections that are there only e changes, and none is made.         *)
Only(e) ==
    /\ elections' \in Seq(Election) /\ Made' = Made
    /\ \A f \in Made \ {e} : elections'[f] = elections[f]

(* What its stops have left in it, and whether it came up beside another.    *)
Flags(e) == <<elections[e].stop, elections[e].withdrawn, elections[e].missed, elections[e].after>>

LEMMA Turns ==
    ASSUME TypeOK, NEW e \in Made, NEW x \in Election,
           elections' = [elections EXCEPT ![e] = x]
    PROVE  Only(e) /\ elections'[e] = x
  <1>1. elections \in Seq(Election) /\ e \in DOMAIN elections
    BY DEF TypeOK, Made
  <1> QED
    BY <1>1, Changed DEF Only, Made

LEMMA ElectionOf ==
    ASSUME TypeOK, NEW e \in Made
    PROVE  elections[e] \in Election
  BY DEF TypeOK, Made


(* What its stops have left in election e, and whether it came up beside     *)
(* another, stays.                                                           *)
Keeps(e) ==
    /\ Only(e)
    /\ elections'[e].stop = elections[e].stop
    /\ elections'[e].withdrawn = elections[e].withdrawn
    /\ elections'[e].missed = elections[e].missed
    /\ elections'[e].after = elections[e].after

LEMMA BootDoes ==
    ASSUME TypeOK, NEW e \in Made, Boot(e)
    PROVE  /\ Keeps(e) /\ elections[e].role = "booting" /\ elections'[e].role = "contending"
           /\ UNCHANGED <<surfaces, retiring, current, manager, by, lost, turns>>
  <1> DEFINE x == [elections[e] EXCEPT !.role = "contending"]
  <1>1. elections[e] \in Election
    BY ElectionOf
  <1>2. /\ x \in Election /\ x.role = "contending" /\ x.stop = elections[e].stop
        /\ x.withdrawn = elections[e].withdrawn /\ x.missed = elections[e].missed
        /\ x.after = elections[e].after
    BY <1>1 DEF Election, Role
  <1>3. elections' = [elections EXCEPT ![e] = x]
    BY DEF Boot
  <1> HIDE DEF x
  <1> QED
    BY <1>2, <1>3, Turns DEF Boot, Keeps

LEMMA WinDoes ==
    ASSUME TypeOK, NEW e \in Made, Win(e)
    PROVE  /\ Keeps(e) /\ elections[e].role = "contending" /\ elections'[e].role = "claiming"
           /\ UNCHANGED <<surfaces, retiring, current, manager, by, lost>>
  <1> DEFINE x == [elections[e] EXCEPT !.role = "claiming"]
  <1>1. elections[e] \in Election
    BY ElectionOf
  <1>2. /\ x \in Election /\ x.role = "claiming" /\ x.stop = elections[e].stop
        /\ x.withdrawn = elections[e].withdrawn /\ x.missed = elections[e].missed
        /\ x.after = elections[e].after
    BY <1>1 DEF Election, Role
  <1>3. elections' = [elections EXCEPT ![e] = x]
    BY DEF Win
  <1> HIDE DEF x
  <1> QED
    BY <1>2, <1>3, Turns DEF Win, Keeps

LEMMA StartSurfaceDoes ==
    ASSUME TypeOK, NEW e \in Made, StartSurface(e)
    PROVE  /\ Keeps(e) /\ elections[e].role = "claiming" /\ elections'[e].role = "master"
           /\ elections'[e].todo = surfaces /\ StartFirst(e, surfaces)
           /\ UNCHANGED <<surfaces, retiring, current, manager, lost, turns>>
  <1> DEFINE x == [elections[e] EXCEPT !.role = "master", !.todo = surfaces]
  <1>1. elections[e] \in Election /\ surfaces \in Seq(Consumer)
    BY ElectionOf DEF TypeOK
  <1>2. /\ x \in Election /\ x.role = "master" /\ x.stop = elections[e].stop
        /\ x.withdrawn = elections[e].withdrawn /\ x.missed = elections[e].missed
        /\ x.after = elections[e].after /\ x.todo = surfaces
    BY <1>1 DEF Election, Role
  <1>3. elections' = [elections EXCEPT ![e] = x]
    BY DEF StartSurface
  <1> HIDE DEF x
  <1> QED
    BY <1>2, <1>3, Turns DEF StartSurface, Keeps

LEMMA StartedDoes ==
    ASSUME TypeOK, NEW e \in Made, Started(e)
    PROVE  /\ Keeps(e) /\ elections[e].role = "master" /\ elections'[e].role = "master"
           /\ elections[e].todo # <<>> /\ elections'[e].todo = Tail(elections[e].todo)
           /\ StartFirst(e, elections'[e].todo)
           /\ UNCHANGED <<surfaces, retiring, current, manager, lost, turns>>
  <1> DEFINE t == Tail(elections[e].todo)
             x == [elections[e] EXCEPT !.todo = t]
  <1>1. elections[e] \in Election /\ elections[e].todo # <<>> /\ elections[e].role = "master"
    BY ElectionOf DEF Started
  <1>2. t \in Seq(Consumer)
    BY <1>1, ElectionFields, TailOf
  <1>3. StartFirst(e, t)
    BY DEF Started
  <1>4. elections' = [elections EXCEPT ![e] = x]
    BY DEF Started
  <1> HIDE DEF t
  <1>5. /\ x \in Election /\ x.role = "master" /\ x.stop = elections[e].stop
        /\ x.withdrawn = elections[e].withdrawn /\ x.missed = elections[e].missed
        /\ x.after = elections[e].after /\ x.todo = t
    BY <1>1, <1>2 DEF Election, Role
  <1> HIDE DEF x
  <1>6. Keeps(e) /\ elections'[e].role = "master" /\ elections'[e].todo = t
    BY <1>4, <1>5, Turns DEF Keeps
  <1> QED
    BY <1>1, <1>3, <1>6 DEF t, Started

LEMMA StoppedDoes ==
    ASSUME TypeOK, NEW e \in Made, Stopped(e)
    PROVE  /\ Keeps(e) /\ elections[e].role = "resigning" /\ elections'[e].role = "resigning"
           /\ elections'[e].then = elections[e].then
           /\ elections[e].todo # <<>> /\ elections'[e].todo = Tail(elections[e].todo)
           /\ by' = [by EXCEPT ![Head(elections[e].todo)] = None]
           /\ lost' \subseteq lost /\ lost \subseteq lost' \cup {Head(elections[e].todo)}
           /\ \A d \in Made : Held(d) /\ Head(elections[e].todo) \in Range(elections'[d].todo)
                 => lost' = lost
           /\ UNCHANGED <<surfaces, retiring, current, manager, turns>>
  <1> DEFINE t == Tail(elections[e].todo)
             x == [elections[e] EXCEPT !.todo = t]
  <1>1. elections[e] \in Election /\ elections[e].todo # <<>> /\ elections[e].role = "resigning"
    BY ElectionOf DEF Stopped
  <1>2. t \in Seq(Consumer)
    BY <1>1, ElectionFields, TailOf
  <1>4. elections' = [elections EXCEPT ![e] = x]
    BY DEF Stopped
  <1> HIDE DEF t
  <1>3. /\ x \in Election /\ x.role = "resigning" /\ x.stop = elections[e].stop
        /\ x.withdrawn = elections[e].withdrawn /\ x.missed = elections[e].missed
        /\ x.after = elections[e].after /\ x.then = elections[e].then /\ x.todo = t
    BY <1>1, <1>2 DEF Election, Role
  <1> HIDE DEF x
  <1>5. /\ Keeps(e) /\ elections'[e].role = "resigning" /\ elections'[e].then = elections[e].then
        /\ elections'[e].todo = Tail(elections[e].todo)
    BY <1>3, <1>4, Turns DEF t, Keeps
  <1> DEFINE c == Head(elections[e].todo)
             listed == \E d \in Made : Held(d) /\ c \in Range(elections'[d].todo)
  <1>6. by' = [by EXCEPT ![c] = None] /\ lost' = IF listed THEN lost ELSE lost \ {c}
    BY DEF Stopped
  <1>7. \A d \in Made : Held(d) /\ c \in Range(elections'[d].todo) => listed
    OBVIOUS
  <1> HIDE DEF listed
  <1>8. /\ lost' \subseteq lost /\ lost \subseteq lost' \cup {c}
        /\ \A d \in Made : Held(d) /\ c \in Range(elections'[d].todo) => lost' = lost
    BY <1>6, <1>7
  <1> QED
    BY <1>1, <1>5, <1>6, <1>8 DEF Stopped

LEMMA FoundType == TypeOK => Found \in Seq(Consumer)
  BY DEF TypeOK, Found

LEMMA ToStopIsReverse ==
    ASSUME TypeOK
    PROVE  /\ ToStop \in Seq(Consumer) /\ Len(ToStop) = Len(Found)
           /\ \A k \in 1 .. Len(Found) : ToStop[k] = Found[Len(Found) - k + 1]
           /\ Range(ToStop) = Range(Found)
  <1> DEFINE F == Found
  <1>1. F \in Seq(Consumer)
    BY FoundType
  <1>2. ToStop = [k \in DOMAIN F |-> F[Len(F) - k + 1]]
    BY DEF ToStop
  <1> HIDE DEF F
  <1>3. DOMAIN F = 1 .. Len(F) /\ Len(F) \in Nat
    BY <1>1
  <1>4. \A k \in 1 .. Len(F) : Len(F) - k + 1 \in 1 .. Len(F)
    BY <1>3
  <1>5. ToStop \in [1 .. Len(F) -> Consumer]
    BY <1>1, <1>2, <1>3, <1>4
  <1>6. ToStop \in Seq(Consumer) /\ Len(ToStop) = Len(F)
    BY <1>3, <1>5
  <1>7. \A k \in 1 .. Len(F) : F[k] = ToStop[Len(F) - k + 1]
    <2> TAKE k \in 1 .. Len(F)
    <2>1. Len(F) - (Len(F) - k + 1) + 1 = k
      BY <1>3
    <2> QED
      BY <1>2, <1>3, <1>4, <2>1
  <1>8. \A x : x \in Range(ToStop) <=> x \in Range(F)
    BY <1>2, <1>3, <1>4, <1>5, <1>7 DEF Range
  <1> QED
    BY <1>2, <1>3, <1>6, <1>8 DEF F

LEMMA StandDownIsElection ==
    ASSUME TypeOK, NEW e \in Made, NEW then \in {"contending", "stopped"}
    PROVE  LET x == StandDown(e, then)
           IN  /\ x \in Election /\ x.role = "resigning" /\ x.stop = elections[e].stop
               /\ x.withdrawn = elections[e].withdrawn /\ x.missed = elections[e].missed
               /\ x.after = elections[e].after /\ x.then = then /\ x.todo = ToStop
  <1>1. elections[e] \in Election /\ ToStop \in Seq(Consumer)
    BY ElectionOf, ToStopIsReverse
  <1> HIDE DEF ToStop
  <1> QED
    BY <1>1 DEF StandDown, Election, Role

(* An election stands down, on its own account or for a stop that comes up.  *)
StandsDown(e) ==
    /\ Keeps(e) /\ elections[e].role = "master" /\ elections'[e].role = "resigning"
    /\ elections'[e].then = "stopped" => elections[e].stop
    /\ elections[e].todo = <<>> /\ elections'[e].todo = ToStop
    /\ UNCHANGED <<surfaces, retiring, current, manager, by, lost, turns>>

LEMMA HandOverDoes ==
    ASSUME TypeOK, NEW e \in Made, HandOver(e)
    PROVE  StandsDown(e)
  <1> DEFINE x == StandDown(e, "contending")
  <1>1. /\ x \in Election /\ x.role = "resigning" /\ x.stop = elections[e].stop
        /\ x.withdrawn = elections[e].withdrawn /\ x.missed = elections[e].missed
        /\ x.after = elections[e].after /\ x.then = "contending" /\ x.todo = ToStop
    BY StandDownIsElection
  <1>2. elections' = [elections EXCEPT ![e] = x]
    BY DEF HandOver
  <1> HIDE DEF x
  <1> QED
    BY <1>1, <1>2, Turns DEF HandOver, Idle, StandsDown, Keeps

(* A stop that comes up while the election holds the surface.                *)
LEMMA StopHeldDoes ==
    ASSUME TypeOK, NEW e \in Made, Stop(e), elections[e].role = "master"
    PROVE  StandsDown(e)
  <1> DEFINE x == StandDown(e, "stopped")
  <1>1. /\ x \in Election /\ x.role = "resigning" /\ x.stop = elections[e].stop
        /\ x.withdrawn = elections[e].withdrawn /\ x.missed = elections[e].missed
        /\ x.after = elections[e].after /\ x.todo = ToStop
    BY StandDownIsElection
  <1>2. elections' = [elections EXCEPT ![e] = x]
    BY DEF Stop
  <1> HIDE DEF x
  <1> QED
    BY <1>1, <1>2, Turns DEF Stop, Idle, StandsDown, Keeps

(* A stop that returns; whatever was retiring may be let go.                 *)
LEMMA StopReturnsDoes ==
    ASSUME TypeOK, NEW e \in Made, StopReturns(e)
    PROVE  /\ Only(e) /\ elections'[e].role = "stopped"
           /\ ~ elections'[e].stop /\ ~ elections'[e].withdrawn
           /\ elections'[e].missed = elections[e].missed
           /\ elections'[e].after = elections[e].after
           /\ \/ retiring' = <<>> /\ LetGo(Range(retiring))
              \/ UNCHANGED <<retiring, lost>>
  <1> DEFINE x == [elections[e] EXCEPT !.role = "stopped", !.stop = FALSE, !.withdrawn = FALSE]
  <1>1. elections[e] \in Election
    BY ElectionOf
  <1>2. /\ x \in Election /\ x.role = "stopped" /\ x.stop = FALSE /\ x.withdrawn = FALSE
        /\ x.missed = elections[e].missed /\ x.after = elections[e].after
    BY <1>1 DEF Election, Role
  <1>3. elections' = [elections EXCEPT ![e] = x]
    BY DEF StopReturns
  <1> HIDE DEF x
  <1> QED
    BY <1>2, <1>3, Turns DEF StopReturns

(* A RESIGN after which the election goes on.                                *)
LEMMA ResignDoes ==
    ASSUME TypeOK, NEW e \in Made, Resign(e), elections[e].then # "stopped"
    PROVE  /\ Keeps(e) /\ elections[e].role = "resigning" /\ elections[e].todo = <<>>
           /\ elections'[e].role = "contending"
           /\ UNCHANGED <<surfaces, retiring, current, manager, by, lost, turns>>
  <1> DEFINE x == [elections[e] EXCEPT !.role = "contending"]
  <1>1. elections[e] \in Election
    BY ElectionOf
  <1>2. /\ x \in Election /\ x.role = "contending" /\ x.stop = elections[e].stop
        /\ x.withdrawn = elections[e].withdrawn /\ x.missed = elections[e].missed
        /\ x.after = elections[e].after
    BY <1>1 DEF Election, Role
  <1>3. elections' = [elections EXCEPT ![e] = x]
    BY DEF Resign
  <1> HIDE DEF x
  <1> QED
    BY <1>2, <1>3, Turns DEF Resign, Keeps

(* The stop of an election that gives nothing up, now or any more.           *)
Ends(e) ==
    /\ StopReturns(e)
    /\ \/ elections[e].stop /\ ~ Held(e)
       \/ elections[e].role = "resigning" /\ elections[e].todo = <<>>
          /\ elections[e].then = "stopped"
    /\ UNCHANGED <<surfaces, current, manager, by, turns>>

(* The steps of an election, told apart by what they do to it.               *)
LEMMA ElectionStepIs ==
    ASSUME TypeOK, NEW e \in Made, ElectionStep(e)
    PROVE  \/ Boot(e) \/ Win(e) \/ StartSurface(e) \/ Started(e) \/ Stopped(e)
           \/ StandsDown(e) \/ Ends(e)
           \/ Resign(e) /\ elections[e].then # "stopped"
  <1>1. CASE HandOver(e)
    BY <1>1, HandOverDoes
  <1>2. CASE Stop(e)
    <2>1. elections[e].role # "master" => Ends(e)
      BY <1>2 DEF Stop, Idle, Ends, Held
    <2> QED
      BY <1>2, <2>1, StopHeldDoes
  <1>3. CASE Resign(e)
    <2>1. elections[e].then = "stopped" => Ends(e)
      BY <1>3 DEF Resign, Ends
    <2> QED
      BY <1>3, <2>1
  <1> QED
    BY <1>1, <1>2, <1>3 DEF ElectionStep

(* Asking an election to stop.                                               *)
LEMMA RequestDoes ==
    ASSUME TypeOK, NEW e \in Made, NEW w \in BOOLEAN, elections' = StopRequested(e, w)
    PROVE  /\ Only(e) /\ elections'[e].role = elections[e].role
           /\ elections'[e].todo = elections[e].todo /\ elections'[e].then = elections[e].then
           /\ elections'[e].after = elections[e].after
           /\ StopIsVoid(e) => elections'[e].missed /\ elections'[e].stop = elections[e].stop
           /\ ~ StopIsVoid(e) => /\ elections'[e].stop /\ elections'[e].withdrawn = w
                                 /\ elections'[e].missed = elections[e].missed
  <1>1. elections[e] \in Election
    BY ElectionOf
  <1>2. CASE StopIsVoid(e)
    <2> DEFINE x == [elections[e] EXCEPT !.missed = TRUE]
    <2>1. /\ x \in Election /\ x.role = elections[e].role /\ x.todo = elections[e].todo
          /\ x.then = elections[e].then /\ x.stop = elections[e].stop /\ x.missed = TRUE
          /\ x.after = elections[e].after
      BY <1>1 DEF Election
    <2>2. elections' = [elections EXCEPT ![e] = x]
      BY <1>2 DEF StopRequested
    <2> HIDE DEF x
    <2> QED
      BY <1>2, <2>1, <2>2, Turns
  <1>3. CASE ~ StopIsVoid(e)
    <2> DEFINE x == [elections[e] EXCEPT !.stop = TRUE, !.withdrawn = w]
    <2>1. /\ x \in Election /\ x.role = elections[e].role /\ x.todo = elections[e].todo
          /\ x.then = elections[e].then /\ x.stop = TRUE /\ x.withdrawn = w
          /\ x.after = elections[e].after /\ x.missed = elections[e].missed
      BY <1>1 DEF Election
    <2>2. elections' = [elections EXCEPT ![e] = x]
      BY <1>3 DEF StopRequested
    <2> HIDE DEF x
    <2> QED
      BY <1>3, <2>1, <2>2, Turns
  <1> QED
    BY <1>2, <1>3

LEMMA MakeDoes ==
    ASSUME TypeOK, MakeElection
    PROVE  /\ elections' \in Seq(Election) /\ current' \notin Made /\ current' \in Nat
           /\ Made' = Made \cup {current'} /\ current' = Len(elections')
           /\ elections'[current'] = NewElection
           /\ \A f \in Made : elections'[f] = elections[f] /\ f # Len(elections')
  <1>1. elections \in Seq(Election)
    BY DEF TypeOK
  <1> DEFINE n == Len(elections) + 1
  <1>2. elections' = Append(elections, NewElection) /\ current' = n
    BY DEF MakeElection
  <1>3. /\ elections' \in Seq(Election) /\ Len(elections) \in Nat
        /\ Len(elections) + 1 \notin DOMAIN elections
        /\ DOMAIN elections' = DOMAIN elections \cup {Len(elections) + 1}
        /\ elections'[Len(elections) + 1] = NewElection
        /\ Len(elections') = Len(elections) + 1
        /\ \A f \in DOMAIN elections : elections'[f] = elections[f]
    <2>1. elections' = Append(elections, NewElection)
      BY <1>2
    <2> QED
      BY <1>1, <2>1, NewIsElection
  <1>5. n \in Nat /\ n = Len(elections) + 1
    BY <1>3
  <1> HIDE DEF n
  <1>4. Made = DOMAIN elections /\ Made' = DOMAIN elections'
    BY DEF Made
  <1> QED
    BY <1>2, <1>3, <1>4, <1>5

-----------------------------------------------------------------------------
(* What callers and the node manager do to the elections.                    *)

(* No election turns: the ones there are may be asked to stop, and one that  *)
(* boots may be made.                                                        *)
Asked ==
    /\ elections' \in Seq(Election) /\ Made \subseteq Made'
    /\ \A f \in Made :
          /\ elections'[f].role = elections[f].role /\ elections'[f].todo = elections[f].todo
          /\ elections'[f].then = elections[f].then
          /\ elections[f].stop => elections'[f].stop
          /\ elections[f].missed => elections'[f].missed
          /\ ~ Alive(f) => elections'[f].stop = elections[f].stop
          /\ Alone(f)' => Alone(f) /\ Made' = Made
    /\ \A f \in Made' \ Made : elections'[f] = NewElection /\ Made' = Made \cup {f}

LEMMA SameIsAsked ==
    ASSUME TypeOK, UNCHANGED elections
    PROVE  Asked
  BY DEF TypeOK, Asked, Made, Alone

LEMMA RequestIsAsked ==
    ASSUME TypeOK, NEW e \in Made, NEW w \in BOOLEAN, elections' = StopRequested(e, w)
    PROVE  Asked
  <1>1. /\ Only(e) /\ elections'[e].role = elections[e].role
        /\ elections'[e].todo = elections[e].todo /\ elections'[e].then = elections[e].then
        /\ elections'[e].after = elections[e].after
        /\ StopIsVoid(e) => elections'[e].missed /\ elections'[e].stop = elections[e].stop
        /\ ~ StopIsVoid(e) => elections'[e].stop /\ elections'[e].missed = elections[e].missed
    BY RequestDoes
  <1>2. ~ Alive(e) => StopIsVoid(e)
    BY DEF Alive, StopIsVoid
  <1>3. Len(elections') = Len(elections)
    BY <1>1 DEF Only, TypeOK, Made
  <1>4. \A f \in Made : Alone(f)' => Alone(f)
    BY <1>1, <1>3 DEF Alone, Only
  <1> QED
    BY <1>1, <1>2, <1>4 DEF Asked, Only

LEMMA MakeIsAsked ==
    ASSUME TypeOK, MakeElection
    PROVE  Asked
  <1>1. /\ elections' \in Seq(Election) /\ Made' = Made \cup {current'}
        /\ elections'[current'] = NewElection
        /\ \A f \in Made : elections'[f] = elections[f] /\ f # Len(elections')
    BY MakeDoes
  <1> QED
    BY <1>1 DEF Asked, Alone

LEMMA SyncIsAsked ==
    ASSUME TypeOK, NEW s, SyncSurface(s)
    PROVE  Asked /\ current' \in Made' \cup {None}
  <1>1. CASE s # <<>> /\ current = None
    <2>1. MakeElection
      BY <1>1 DEF SyncSurface
    <2> QED
      BY <2>1, MakeDoes, MakeIsAsked
  <1>2. CASE s = <<>> /\ current # None
    <2>1. current \in Made /\ elections' = StopRequested(current, TRUE) /\ current' = None
      BY <1>2 DEF SyncSurface, WithdrawElection, TypeOK
    <2> QED
      BY <2>1, RequestIsAsked
  <1>3. CASE ~ (s # <<>> /\ current = None) /\ ~ (s = <<>> /\ current # None)
    <2>1. UNCHANGED <<elections, current>>
      BY <1>3 DEF SyncSurface
    <2> QED
      BY <2>1, SameIsAsked DEF TypeOK, Made
  <1> QED
    BY <1>1, <1>2, <1>3

LEMMA NotifyIsAsked ==
    ASSUME TypeOK, Notify
    PROVE  Asked /\ current' \in Made' \cup {None}
  <1>1. CASE manager = "on"
    BY <1>1, SyncIsAsked DEF Notify
  <1>2. CASE manager # "on"
    BY <1>2, SameIsAsked DEF Notify, TypeOK, Made
  <1> QED
    BY <1>1, <1>2

(* The node manager's own steps leave the registry and who reads alone.      *)
ManagerStep == StartManager \/ StopManager \/ ManagerStopped

LEMMA ManagerIsAsked ==
    ASSUME TypeOK, ManagerStep
    PROVE  /\ Asked /\ current' \in Made' \cup {None}
           /\ UNCHANGED <<surfaces, retiring, by, lost, turns>>
  <1>1. CASE StartManager
    BY <1>1, SyncIsAsked DEF StartManager
  <1>2. CASE StopManager
    <2>1. CASE current = None
      BY <1>2, <2>1, SameIsAsked DEF StopManager
    <2>2. CASE current # None
      <3>1. current \in Made /\ elections' = StopRequested(current, FALSE) /\ current' = current
        BY <1>2, <2>2 DEF StopManager, TypeOK
      <3>2. Asked
        BY <3>1, RequestIsAsked
      <3> QED
        BY <1>2, <3>1, <3>2 DEF StopManager, Asked
    <2> QED
      BY <2>1, <2>2
  <1>3. CASE ManagerStopped
    BY <1>3, SameIsAsked DEF ManagerStopped
  <1> QED
    BY <1>1, <1>2, <1>3 DEF ManagerStep

(* Nobody reads for a new election, and it holds nothing.                    *)
LEMMA NewOneHasNothing ==
    ASSUME TypeOK, Asked, UNCHANGED by, NEW e \in Made' \ Made
    PROVE  /\ \A x \in Consumer : by'[x] # e
           /\ elections'[e].role = "booting" /\ elections'[e].todo = <<>> /\ ~ elections'[e].stop
           /\ Alone(e)' => \A f \in Made : ~ Alive(f)
  <1>1. e # None
    BY RegistryAssumption DEF Asked, Made
  <1>2. elections'[e] = NewElection
    BY DEF Asked
  <1> QED
    BY <1>1, <1>2 DEF NewElection, TypeOK, Alone, Alive

-----------------------------------------------------------------------------
(* Types.                                                                    *)

LEMMA ReadersStay ==
    ASSUME TypeOK, Made \subseteq Made', UNCHANGED by
    PROVE  by' \in [Consumer -> Made' \cup {None}]
  BY DEF TypeOK

LEMMA RegisterTypes ==
    ASSUME TypeOK, NEW c \in Consumer, Register(c)
    PROVE  TypeOK'
  <1>1. surfaces' \in Seq(Consumer) /\ retiring' \in Seq(Consumer) /\ Range(retiring) \subseteq Consumer
    BY DEF TypeOK, Register, Range
  <1>2. Asked /\ current' \in Made' \cup {None}
    BY NotifyIsAsked DEF Register
  <1>3. lost' \subseteq Consumer
    BY <1>1 DEF TypeOK, Register, LetGo
  <1> QED
    BY <1>1, <1>2, <1>3, ReadersStay DEF TypeOK, Register, Asked

LEMMA UnregisterTypes ==
    ASSUME TypeOK, NEW c \in Consumer, Unregister(c)
    PROVE  TypeOK'
  <1>1. surfaces' \in Seq(Consumer)
    BY RemovedConsumer DEF TypeOK, Unregister, Without, Registered
  <1>2. retiring' \in Seq(Consumer)
    <2>1. retiring' \in {<<>>, surfaces, retiring}
      BY DEF Unregister, Retire
    <2>2. retiring \in Seq(Consumer) /\ surfaces \in Seq(Consumer)
      BY DEF TypeOK
    <2>3. <<>> \in Seq(Consumer)
      OBVIOUS
    <2> QED
      BY <2>1, <2>2, <2>3
  <1>3. Asked /\ current' \in Made' \cup {None}
    BY NotifyIsAsked DEF Unregister
  <1>4. lost' \subseteq Consumer
    BY DEF TypeOK, Unregister, LetGoFor, LetGo
  <1> QED
    BY <1>1, <1>2, <1>3, <1>4, ReadersStay DEF TypeOK, Unregister, Asked

(* An election that moves starts or stops at most the consumer at the head.  *)
LEMMA FirstTypes ==
    ASSUME TypeOK, NEW e \in Made, NEW t \in Seq(Consumer), StartFirst(e, t)
    PROVE  by' \in [Consumer -> Made \cup {None}]
  <1>1. t # <<>> => Head(t) \in Consumer
    BY TailOf
  <1> QED
    BY <1>1 DEF StartFirst, TypeOK

LEMMA ElectionTypes ==
    ASSUME TypeOK, NEW e \in Made, ElectionStep(e)
    PROVE  TypeOK'
  <1> USE DEF Keeps, Only
  <1>1. CASE Boot(e)
    BY <1>1, BootDoes DEF TypeOK
  <1>2. CASE Win(e)
    <2>1. turns' \in 0 .. MaxTurns
      BY <1>2, RegistryAssumption DEF Win, TypeOK
    <2> QED
      BY <1>2, <2>1, WinDoes DEF TypeOK
  <1>3. CASE StartSurface(e)
    <2>1. by' \in [Consumer -> Made \cup {None}]
      BY <1>3, StartSurfaceDoes, FirstTypes DEF TypeOK
    <2> QED
      BY <1>3, <2>1, StartSurfaceDoes DEF TypeOK
  <1>4. CASE Started(e)
    <2>1. elections'[e].todo \in Seq(Consumer)
      <3>1. elections'[e] \in Election
        BY <1>4, StartedDoes DEF Made
      <3> QED
        BY <3>1, ElectionFields
    <2>2. by' \in [Consumer -> Made \cup {None}]
      BY <1>4, <2>1, StartedDoes, FirstTypes
    <2> QED
      BY <1>4, <2>2, StartedDoes DEF TypeOK
  <1>5. CASE Stopped(e)
    <2>1. by' \in [Consumer -> Made \cup {None}]
      BY <1>5, StoppedDoes DEF TypeOK
    <2> QED
      BY <1>5, <2>1, StoppedDoes DEF TypeOK
  <1>6. CASE StandsDown(e)
    BY <1>6 DEF StandsDown, TypeOK
  <1>7. CASE Ends(e)
    <2>1. retiring' = <<>> /\ LetGo(Range(retiring)) => lost' \subseteq Consumer
      BY DEF TypeOK, LetGo, Range
    <2>2. retiring' \in Seq(Consumer) /\ lost' \subseteq Consumer
      <3>1. \/ retiring' = <<>> /\ LetGo(Range(retiring))
            \/ UNCHANGED <<retiring, lost>>
        BY <1>7, StopReturnsDoes DEF Ends
      <3>2. <<>> \in Seq(Consumer)
        OBVIOUS
      <3> QED
        BY <2>1, <3>1, <3>2 DEF TypeOK
    <2> QED
      BY <1>7, <2>2, StopReturnsDoes DEF Ends, TypeOK
  <1>8. CASE Resign(e) /\ elections[e].then # "stopped"
    BY <1>8, ResignDoes DEF TypeOK
  <1> QED
    BY <1>1, <1>2, <1>3, <1>4, <1>5, <1>6, <1>7, <1>8, ElectionStepIs

LEMMA ManagerTypes ==
    ASSUME TypeOK, ManagerStep
    PROVE  TypeOK'
  <1>1. manager' \in {"new", "on", "stopping", "off"}
    BY DEF ManagerStep, StartManager, StopManager, ManagerStopped
  <1> QED
    BY <1>1, ManagerIsAsked, ReadersStay DEF TypeOK, Asked

LEMMA Types == TypeOK /\ [Next]_vars => TypeOK'
  <1> SUFFICES ASSUME TypeOK, [Next]_vars PROVE TypeOK'
    OBVIOUS
  <1>1. CASE UNCHANGED vars
    BY <1>1 DEF TypeOK, Made, vars
  <1> QED
    BY <1>1, RegisterTypes, UnregisterTypes, ElectionTypes, ManagerTypes DEF Next, ManagerStep

LEMMA TypesAtFirst == Init => TypeOK
  BY RegistryAssumption DEF Init, TypeOK, Made

(* Registry, elections and manager keep their shape, whatever callers do.    *)
THEOREM TypeCorrect == Spec => []TypeOK
  BY TypesAtFirst, Types, PTL DEF Spec

-----------------------------------------------------------------------------
(* What can be reached from a list.                                          *)

LEMMA ReachAtFirst == Init => ReachOK
  BY DEF Init, ReachOK, Made, Distinct

(* A consumer is registered: what its surface still had to stop is lost.     *)
LEMMA RegisterReach ==
    ASSUME TypeOK, ReachOK, NEW c \in Consumer, Register(c)
    PROVE  ReachOK'
  <1>1. /\ surfaces \in Seq(Consumer) /\ c \notin Range(surfaces) /\ Distinct(surfaces)
        /\ surfaces' = Append(surfaces, c) /\ retiring' = <<>> /\ by' = by
        /\ LetGo(Range(retiring) \ {c})
    BY DEF TypeOK, ReachOK, Register, Registered
  <1>2. Distinct(surfaces)' /\ surfaces' # <<>> /\ Range(surfaces') = Range(surfaces) \cup {c}
    BY <1>1, Appended DEF Distinct
  <1>3. Asked
    BY NotifyIsAsked DEF Register
  <1>4. Found' = surfaces'
    BY <1>2 DEF Found
  <1>5. ASSUME NEW e \in Made', NEW x \in Consumer \ lost'
        PROVE  /\ Held(e)' /\ Has(e, x)' => x \in Range(surfaces')
               /\ by'[x] = e => Held(e)'
               /\ by'[x] = e /\ elections'[e].role = "resigning" => x \in Range(elections'[e].todo)
    <2>1. CASE e \in Made
      <3>1. x \in Consumer \ lost
        BY <1>1, <1>5 DEF LetGo
      <3>2. (Held(e)' <=> Held(e)) /\ (Has(e, x)' <=> Has(e, x)) /\ by'[x] = by[x]
            /\ elections'[e].todo = elections[e].todo /\ elections'[e].role = elections[e].role
        BY <1>1, <1>3, <2>1 DEF Asked, Held, Has
      <3>3. Held(e) /\ Has(e, x) => x \in Range(surfaces) \cup Range(retiring)
        BY <2>1, <3>1 DEF ReachOK, Found
      <3>4. Held(e) /\ Has(e, x) /\ x \in Range(retiring) => x = c
        BY <1>1, <1>5, <2>1 DEF LetGo, Has
      <3> QED
        BY <1>2, <2>1, <3>1, <3>2, <3>3, <3>4 DEF ReachOK
    <2>2. CASE e \notin Made
      BY <1>1, <1>3, <2>2, NewOneHasNothing DEF Held
    <2> QED
      BY <2>1, <2>2
  <1> QED
    BY <1>1, <1>2, <1>4, <1>5 DEF ReachOK

(* A consumer is unregistered: the last one retires, or is lost as any other.*)
LEMMA UnregisterReach ==
    ASSUME TypeOK, ReachOK, NEW c \in Consumer, Unregister(c)
    PROVE  ReachOK'
  <1>1. /\ surfaces \in Seq(Consumer) /\ c \in Range(surfaces) /\ Distinct(surfaces)
        /\ surfaces' = RemoveFirst(surfaces, c) /\ by' = by /\ LetGoFor(c)
        /\ retiring' = IF Len(surfaces) > 1 THEN retiring ELSE Retire
    BY DEF TypeOK, ReachOK, Unregister, Registered, Without
  <1>2. /\ surfaces' \in Seq(Consumer) /\ Len(surfaces') = Len(surfaces) - 1
        /\ Len(surfaces) \in Nat \ {0} /\ Distinct(surfaces)'
        /\ \A x \in Range(surfaces) \ {c} : x \in Range(surfaces')
    BY <1>1, RemovedConsumer DEF Distinct
  <1>3. surfaces # <<>> /\ Found = surfaces /\ retiring = <<>>
    BY <1>1 DEF ReachOK, Found, Range
  <1>4. Asked
    BY NotifyIsAsked DEF Unregister
  <1>5. surfaces' # <<>> => Len(surfaces) > 1 /\ retiring' = <<>> /\ Found' = surfaces'
    BY <1>1, <1>2, <1>3 DEF Found
  <1>6. surfaces' = <<>> => ~ (Len(surfaces) > 1) /\ Range(surfaces') = {} /\ Found' = retiring'
    <2>1. Len(<<>>) = 0 /\ Range(<<>>) = {}
      BY DEF Range
    <2>2. surfaces' = <<>> => Len(surfaces') = 0 /\ Range(surfaces') = {}
      BY <2>1
    <2>3. surfaces' = <<>> => Found' = retiring'
      BY DEF Found
    <2>4. Len(surfaces') = 0 => ~ (Len(surfaces) > 1)
      <3> DEFINE n == Len(surfaces)
                 m == Len(surfaces')
      <3>1. m = n - 1 /\ n \in Nat
        BY <1>2
      <3> HIDE DEF m, n
      <3>2. m = 0 => ~ (n > 1)
        BY <3>1
      <3> QED
        BY <3>2 DEF m, n
    <2> QED
      BY <2>2, <2>3, <2>4
  <1>7. lost \subseteq lost'
    BY <1>1 DEF LetGoFor, LetGo
  <1>8. ASSUME NEW e \in Made, NEW x \in Consumer \ lost', Held(e), Has(e, x)
        PROVE  x \in Range(Found)'
    <2>1. x \in Range(surfaces)
      BY <1>3, <1>7, <1>8 DEF ReachOK
    <2>2. CASE LetGo({c})
      <3>1. x # c
        BY <1>8, <2>2 DEF LetGo, Has
      <3> QED
        BY <1>2, <1>5, <1>6, <2>1, <3>1
    <2>3. CASE ~ (Len(surfaces) > 1 \/ (manager = "on" /\ StopIsVoid(current)))
      <3>1. Found' = surfaces
        BY <1>1, <1>5, <1>6, <2>3 DEF Retire
      <3> QED
        BY <2>1, <3>1
    <2> QED
      BY <1>1, <2>2, <2>3 DEF LetGoFor
  <1>9. ASSUME NEW e \in Made', NEW x \in Consumer \ lost'
        PROVE  /\ Held(e)' /\ Has(e, x)' => x \in Range(Found)'
               /\ by'[x] = e => Held(e)'
               /\ by'[x] = e /\ elections'[e].role = "resigning" => x \in Range(elections'[e].todo)
    <2>1. CASE e \in Made
      <3>1. x \in Consumer \ lost
        BY <1>7
      <3>2. (Held(e)' <=> Held(e)) /\ (Has(e, x)' <=> Has(e, x)) /\ by'[x] = by[x]
            /\ elections'[e].todo = elections[e].todo /\ elections'[e].role = elections[e].role
        BY <1>1, <1>4, <2>1 DEF Asked, Held, Has
      <3> QED
        BY <1>8, <2>1, <3>1, <3>2 DEF ReachOK
    <2>2. CASE e \notin Made
      BY <1>1, <1>4, <2>2, NewOneHasNothing DEF Held
    <2> QED
      BY <2>1, <2>2
  <1> QED
    BY <1>2, <1>5, <1>9 DEF ReachOK

LEMMA ManagerReach ==
    ASSUME TypeOK, ReachOK, ManagerStep
    PROVE  ReachOK'
  <1>1. Asked /\ UNCHANGED <<surfaces, retiring, by, lost>>
    BY ManagerIsAsked
  <1>2. ASSUME NEW e \in Made', NEW x \in Consumer \ lost
        PROVE  /\ Held(e)' /\ Has(e, x)' => x \in Range(Found)
               /\ by[x] = e => Held(e)'
               /\ by[x] = e /\ elections'[e].role = "resigning" => x \in Range(elections'[e].todo)
    <2>1. CASE e \in Made
      <3>1. (Held(e)' <=> Held(e)) /\ (Has(e, x)' <=> Has(e, x))
            /\ elections'[e].todo = elections[e].todo /\ elections'[e].role = elections[e].role
        BY <1>1, <2>1 DEF Asked, Held, Has
      <3> QED
        BY <2>1, <3>1 DEF ReachOK
    <2>2. CASE e \notin Made
      BY <1>1, <2>2, NewOneHasNothing DEF Held
    <2> QED
      BY <2>1, <2>2
  <1> QED
    BY <1>1, <1>2 DEF ReachOK, Found, Distinct

(* An election that has stopped what it had to reads with nobody that can be *)
(* found.                                                                    *)
LEMMA EndReadsNothing ==
    ASSUME TypeOK, ReachOK, NEW e \in Made,
           ~ Held(e) \/ (elections[e].role = "resigning" /\ elections[e].todo = <<>>)
    PROVE  \A x \in Consumer \ lost : by[x] # e
  <1>1. Range(<<>>) = {}
    BY DEF Range
  <1> QED
    BY <1>1 DEF ReachOK, Held

LEMMA StartSurfaceReach ==
    ASSUME TypeOK, ReachOK, NEW e \in Made, StartSurface(e)
    PROVE  ReachOK'
  <1>1. /\ Only(e) /\ ~ Held(e) /\ elections'[e].role = "master" /\ elections'[e].todo = surfaces
        /\ StartFirst(e, surfaces) /\ UNCHANGED <<surfaces, retiring, lost>>
    BY StartSurfaceDoes DEF Keeps, Held
  <1>2. \A x \in Consumer : by'[x] = by[x] \/ (by'[x] = e /\ x \in Range(surfaces))
    BY <1>1, TailOf DEF StartFirst, TypeOK
  <1>3. \A x \in Consumer \ lost : by[x] # e
    BY <1>1, EndReadsNothing
  <1>4. Range(surfaces) \subseteq Range(Found)
    BY DEF Found, Range
  <1>5. Found' = Found
    BY <1>1 DEF Found
  <1>6. ASSUME NEW f \in Made, NEW x \in Consumer \ lost
        PROVE  /\ Held(f)' /\ Has(f, x)' => x \in Range(Found)
               /\ by'[x] = f => Held(f)'
               /\ by'[x] = f /\ elections'[f].role = "resigning" => x \in Range(elections'[f].todo)
    <2>1. CASE f = e
      BY <1>1, <1>2, <1>3, <1>4, <2>1 DEF Held, Has
    <2>2. CASE f # e
      <3>1. elections'[f] = elections[f] /\ (by'[x] = f => by[x] = f)
        BY <1>1, <1>2, <2>2 DEF Only
      <3> QED
        BY <3>1 DEF ReachOK, Held, Has
    <2> QED
      BY <2>1, <2>2
  <1> QED
    BY <1>1, <1>5, <1>6 DEF ReachOK, Distinct, Only

LEMMA StartedReach ==
    ASSUME TypeOK, ReachOK, NEW e \in Made, Started(e)
    PROVE  ReachOK'
  <1> DEFINE t == elections[e].todo
  <1>1. /\ Only(e) /\ Held(e) /\ elections'[e].role = "master" /\ elections'[e].todo = Tail(t)
        /\ t # <<>> /\ t \in Seq(Consumer)
        /\ StartFirst(e, Tail(t)) /\ UNCHANGED <<surfaces, retiring, lost>>
    BY StartedDoes, ElectionOf, ElectionFields DEF Keeps, Held
  <1>2. Range(Tail(t)) \subseteq Range(t)
    BY <1>1, TailOf
  <1>3. \A x \in Consumer : by'[x] = by[x] \/ (by'[x] = e /\ x \in Range(Tail(t)))
    <2>1. Tail(t) # <<>> => Head(Tail(t)) \in Range(Tail(t))
      BY <1>1, TailOf
    <2> HIDE DEF t
    <2> QED
      BY <1>1, <2>1 DEF StartFirst, TypeOK
  <1>5. Found' = Found
    BY <1>1 DEF Found
  <1>6. ASSUME NEW f \in Made, NEW x \in Consumer \ lost
        PROVE  /\ Held(f)' /\ Has(f, x)' => x \in Range(Found)
               /\ by'[x] = f => Held(f)'
               /\ by'[x] = f /\ elections'[f].role = "resigning" => x \in Range(elections'[f].todo)
    <2>1. CASE f = e
      <3>1. Has(f, x)' => Has(f, x)
        BY <1>1, <1>2, <1>3, <2>1 DEF Has
      <3> QED
        BY <1>1, <2>1, <3>1 DEF Held, ReachOK
    <2>2. CASE f # e
      <3>1. elections'[f] = elections[f] /\ (by'[x] = f => by[x] = f)
        BY <1>1, <1>3, <2>2 DEF Only
      <3> QED
        BY <3>1 DEF ReachOK, Held, Has
    <2> QED
      BY <2>1, <2>2
  <1> QED
    BY <1>1, <1>5, <1>6 DEF ReachOK, Distinct, Only

LEMMA StandsDownReach ==
    ASSUME TypeOK, ReachOK, NEW e \in Made, StandsDown(e)
    PROVE  ReachOK'
  <1>1. /\ Only(e) /\ Held(e) /\ elections'[e].role = "resigning" /\ elections'[e].todo = ToStop
        /\ UNCHANGED <<surfaces, retiring, by, lost>>
    BY DEF StandsDown, Keeps, Held
  <1>2. Range(ToStop) = Range(Found) /\ Found' = Found
    BY <1>1, ToStopIsReverse DEF Found
  <1>3. ASSUME NEW f \in Made, NEW x \in Consumer \ lost
        PROVE  /\ Held(f)' /\ Has(f, x)' => x \in Range(Found)
               /\ by[x] = f => Held(f)'
               /\ by[x] = f /\ elections'[f].role = "resigning" => x \in Range(elections'[f].todo)
    <2>1. CASE f = e
      <3>1. by[x] = e => x \in Range(Found)
        BY <1>1 DEF ReachOK, Has
      <3> QED
        BY <1>1, <1>2, <2>1, <3>1 DEF Held, Has
    <2>2. CASE f # e
      BY <1>1, <2>2 DEF Only, ReachOK, Held, Has
    <2> QED
      BY <2>1, <2>2
  <1> QED
    BY <1>1, <1>2, <1>3 DEF ReachOK, Distinct, Only

LEMMA StoppedReach ==
    ASSUME TypeOK, ReachOK, NEW e \in Made, Stopped(e)
    PROVE  ReachOK'
  <1> DEFINE t == elections[e].todo
             c == Head(t)
  <1>1. /\ Only(e) /\ Held(e) /\ elections'[e].role = "resigning" /\ elections'[e].todo = Tail(t)
        /\ t # <<>> /\ t \in Seq(Consumer) /\ UNCHANGED <<surfaces, retiring>>
        /\ by' = [by EXCEPT ![c] = None] /\ lost \subseteq lost' \cup {c}
        /\ \A d \in Made : Held(d) /\ c \in Range(elections'[d].todo) => lost' = lost
    BY StoppedDoes, ElectionOf, ElectionFields DEF Keeps, Held
  <1>2. Range(t) = {c} \cup Range(Tail(t))
    BY <1>1, TailOf
  <1>3. Found' = Found
    BY <1>1 DEF Found
  <1>4. \A f \in Made : Held(f)' <=> Held(f)
    BY <1>1 DEF Only, Held
  <1>5. \A x \in Consumer : IF x = c THEN by'[x] = None ELSE by'[x] = by[x]
    BY <1>1 DEF TypeOK
  <1> HIDE DEF c
  <1>6. ASSUME NEW f \in Made, NEW x \in Consumer \ lost'
        PROVE  /\ Held(f)' /\ Has(f, x)' => x \in Range(Found)
               /\ by'[x] = f => Held(f)'
               /\ by'[x] = f /\ elections'[f].role = "resigning" => x \in Range(elections'[f].todo)
    <2>1. f # None
      BY NoneApart
    <2>2. CASE x \in lost
      <3>1. x = c /\ lost' # lost
        BY <1>1, <1>6, <2>2
      <3>2. by'[x] # f /\ ~ (Held(f)' /\ x \in Range(elections'[f].todo))
        BY <1>1, <1>4, <1>5, <2>1, <3>1
      <3> QED
        BY <3>2 DEF Has
    <2>3. CASE x \notin lost
      <3>1. by'[x] = f => x # c /\ by[x] = f
        BY <1>5, <2>1
      <3>2. CASE f = e
        <4>1. Has(f, x)' => Has(f, x)
          BY <1>1, <1>2, <3>1, <3>2 DEF Has
        <4>2. by[x] = f => x \in Range(t)
          BY <1>1, <1>6, <2>3, <3>2, StoppedDoes DEF ReachOK
        <4> QED
          BY <1>1, <1>2, <1>4, <1>6, <2>3, <3>1, <3>2, <4>1, <4>2 DEF ReachOK
      <3>3. CASE f # e
        <4>1. elections'[f] = elections[f]
          BY <1>1, <3>3 DEF Only
        <4> QED
          BY <1>4, <1>6, <2>3, <3>1, <4>1 DEF ReachOK, Has
      <3> QED
        BY <3>2, <3>3
    <2> QED
      BY <2>2, <2>3
  <1> QED
    BY <1>1, <1>3, <1>6 DEF ReachOK, Distinct, Only

LEMMA EndsReach ==
    ASSUME TypeOK, ReachOK, NEW e \in Made, Ends(e)
    PROVE  ReachOK'
  <1>1. /\ Only(e) /\ elections'[e].role = "stopped" /\ UNCHANGED <<surfaces, by>>
        /\ \/ retiring' = <<>> /\ LetGo(Range(retiring))
           \/ UNCHANGED <<retiring, lost>>
    BY StopReturnsDoes DEF Ends
  <1>2. \A x \in Consumer \ lost : by[x] # e
    BY EndReadsNothing DEF Ends
  <1>3. lost \subseteq lost'
    BY <1>1 DEF LetGo
  <1>4. ASSUME NEW f \in Made, NEW x \in Consumer \ lost'
        PROVE  /\ Held(f)' /\ Has(f, x)' => x \in Range(Found')
               /\ by[x] = f => Held(f)'
               /\ by[x] = f /\ elections'[f].role = "resigning" => x \in Range(elections'[f].todo)
    <2>1. CASE f = e
      BY <1>1, <1>2, <1>3, <2>1 DEF Held
    <2>2. CASE f # e
      <3>1. elections'[f] = elections[f] /\ x \notin lost
        BY <1>1, <1>3, <2>2 DEF Only
      <3>2. (Held(f)' <=> Held(f)) /\ (Has(f, x)' <=> Has(f, x))
        BY <1>1, <3>1 DEF Held, Has
      <3>3. Held(f) /\ Has(f, x) => x \in Range(Found)
        BY <3>1 DEF ReachOK
      <3>4. CASE surfaces # <<>> \/ retiring' = retiring
        BY <1>1, <3>1, <3>2, <3>3, <3>4 DEF ReachOK, Found
      <3>5. CASE surfaces = <<>> /\ LetGo(Range(retiring))
        <4>1. ~ (Held(f) /\ Has(f, x))
          BY <1>4, <3>1, <3>3, <3>5 DEF Found, LetGo, Has
        <4> QED
          BY <3>1, <3>2, <4>1 DEF ReachOK
      <3> QED
        BY <1>1, <3>4, <3>5
    <2> QED
      BY <2>1, <2>2
  <1> QED
    BY <1>1, <1>4 DEF ReachOK, Distinct, Only

(* The steps that neither give an election the surface nor read.             *)
LEMMA QuietReach ==
    ASSUME TypeOK, ReachOK, NEW e \in Made, Only(e), UNCHANGED <<surfaces, retiring, by, lost>>,
           ~ Held(e)', ~ Held(e) \/ (elections[e].role = "resigning" /\ elections[e].todo = <<>>)
    PROVE  ReachOK'
  <1>1. \A x \in Consumer \ lost : by[x] # e
    BY EndReadsNothing
  <1>2. Found' = Found
    BY DEF Found
  <1>3. ASSUME NEW f \in Made, NEW x \in Consumer \ lost
        PROVE  /\ Held(f)' /\ Has(f, x)' => x \in Range(Found)
               /\ by[x] = f => Held(f)'
               /\ by[x] = f /\ elections'[f].role = "resigning" => x \in Range(elections'[f].todo)
    <2>1. CASE f = e
      BY <1>1, <2>1
    <2>2. CASE f # e
      BY <2>2 DEF Only, ReachOK, Held, Has
    <2> QED
      BY <2>1, <2>2
  <1> QED
    BY <1>2, <1>3 DEF ReachOK, Distinct, Only

LEMMA ReachKept == TypeOK /\ ReachOK /\ [Next]_vars => ReachOK'
  <1> SUFFICES ASSUME TypeOK, ReachOK, [Next]_vars PROVE ReachOK'
    OBVIOUS
  <1>1. ASSUME NEW e \in Made, ElectionStep(e) PROVE ReachOK'
    <2>1. Boot(e) \/ Win(e) \/ (Resign(e) /\ elections[e].then # "stopped") => ReachOK'
      BY BootDoes, WinDoes, ResignDoes, QuietReach DEF Keeps, Held
    <2> QED
      BY <1>1, <2>1, ElectionStepIs, StartSurfaceReach, StartedReach, StandsDownReach,
         StoppedReach, EndsReach
  <1>2. CASE UNCHANGED vars
    BY <1>2 DEF ReachOK, Distinct, Made, Held, Has, Found, vars
  <1> QED
    BY <1>1, <1>2, RegisterReach, UnregisterReach, ManagerReach DEF Next, ManagerStep

(* What an election which has resigned had started is stopped, or was lost.  *)
THEOREM ResignIsMeant == Spec => []ResignIsTrue
  <1>1. TypeOK /\ ReachOK => ResignIsTrue
    BY DEF TypeOK, ReachOK, ResignIsTrue
  <1> QED
    BY <1>1, ReachAtFirst, ReachKept, TypeCorrect, PTL DEF Spec

-----------------------------------------------------------------------------
(* The elections the node manager answers for.                               *)

LEMMA KnownAtFirst == Init => KnownOK
  BY DEF Init, KnownOK, Made

(* What the registry listener leaves behind.                                 *)
LEMMA NotifyKnown ==
    ASSUME TypeOK, KnownOK, Notify, UNCHANGED manager,
           current = None => surfaces = <<>> \/ manager # "on",
           current # None /\ manager = "on" => surfaces # <<>>
    PROVE  KnownOK'
  <1>1. CASE manager = "on" /\ surfaces' # <<>> /\ current = None
    <2>1. MakeElection
      BY <1>1 DEF Notify, SyncSurface
    <2>2. /\ Made' = Made \cup {current'} /\ current' # None
          /\ elections'[current'] = NewElection
          /\ \A f \in Made : elections'[f] = elections[f] /\ f # None
      BY <2>1, MakeDoes, NoneApart, RegistryAssumption
    <2>3. ~ elections'[current'].stop /\ elections'[current'].role = "booting"
      BY <2>2 DEF NewElection
    <2> QED
      BY <1>1, <2>2, <2>3 DEF KnownOK, Alive
  <1>2. CASE manager = "on" /\ surfaces' = <<>> /\ current # None
    <2>1. current \in Made /\ elections' = StopRequested(current, TRUE) /\ current' = None
      BY <1>2 DEF Notify, SyncSurface, WithdrawElection, TypeOK
    <2>2. /\ Only(current) /\ elections'[current].role = elections[current].role
          /\ elections'[current].then = elections[current].then
          /\ StopIsVoid(current) => /\ elections'[current].missed
                                    /\ elections'[current].stop = elections[current].stop
          /\ ~ StopIsVoid(current) => elections'[current].stop /\ elections'[current].withdrawn
      BY <2>1, RequestDoes
    <2> QED
      BY <1>2, <2>1, <2>2 DEF KnownOK, Alive, Only
  <1>3. CASE manager # "on" \/ (surfaces' # <<>> <=> current # None)
    <2>1. UNCHANGED <<elections, current>>
      BY <1>3 DEF Notify, SyncSurface
    <2> QED
      BY <1>3, <2>1 DEF KnownOK, Alive, Made
  <1> QED
    BY <1>1, <1>2, <1>3

LEMMA CallerKnown ==
    ASSUME TypeOK, KnownOK, NEW c \in Consumer, Register(c) \/ Unregister(c)
    PROVE  KnownOK'
  BY NotifyKnown DEF KnownOK, Register, Unregister

LEMMA StartManagerKnown ==
    ASSUME TypeOK, KnownOK, StartManager
    PROVE  KnownOK'
  <1>1. elections = <<>> /\ Made = {} /\ current = None /\ manager' = "on" /\ surfaces' = surfaces
    BY DEF StartManager, KnownOK, Made
  <1>2. CASE surfaces # <<>>
    <2>1. MakeElection
      BY <1>1, <1>2 DEF StartManager, SyncSurface
    <2>2. Made' = {current'} /\ current' # None /\ elections'[current'] = NewElection
      BY <1>1, <2>1, MakeDoes, RegistryAssumption
    <2> QED
      BY <1>1, <1>2, <2>2 DEF KnownOK, NewElection
  <1>3. CASE surfaces = <<>>
    <2>1. UNCHANGED <<elections, current>>
      BY <1>1, <1>3 DEF StartManager, SyncSurface
    <2> QED
      BY <1>1, <1>3, <2>1 DEF KnownOK, Made
  <1> QED
    BY <1>2, <1>3

LEMMA StopManagerKnown ==
    ASSUME TypeOK, KnownOK, StopManager
    PROVE  KnownOK'
  <1>1. manager = "on" /\ manager' = "stopping" /\ current' = current
    BY DEF StopManager
  <1>2. CASE current = None
    BY <1>1, <1>2 DEF StopManager, KnownOK, Alive, Made
  <1>3. CASE current # None
    <2>1. current \in Made /\ elections' = StopRequested(current, FALSE)
      BY <1>3 DEF StopManager, TypeOK
    <2>2. /\ Only(current) /\ elections'[current].role = elections[current].role
          /\ elections'[current].then = elections[current].then
          /\ StopIsVoid(current) => /\ elections'[current].missed
                                    /\ elections'[current].stop = elections[current].stop
          /\ ~ StopIsVoid(current) => elections'[current].stop
      BY <2>1, RequestDoes
    <2> QED
      BY <1>1, <2>2 DEF KnownOK, Alive, Only
  <1> QED
    BY <1>2, <1>3

LEMMA ManagerStoppedKnown ==
    ASSUME TypeOK, KnownOK, ManagerStopped
    PROVE  KnownOK'
  <1>1. /\ manager = "stopping" /\ manager' = "off" /\ current' = None /\ UNCHANGED elections
        /\ current # None => current \in Made /\ ~ elections[current].stop
    BY DEF ManagerStopped, AllHaveStopped, TypeOK
  <1> QED
    BY <1>1 DEF KnownOK, Alive, Made

LEMMA ElectionKnown ==
    ASSUME TypeOK, KnownOK, NEW e \in Made, ElectionStep(e)
    PROVE  KnownOK'
  <1>1. ASSUME Only(e), UNCHANGED <<surfaces, current, manager>>, Alive(e)' => Alive(e),
               Alive(e)' => /\ elections'[e].stop = elections[e].stop
                            /\ elections'[e].withdrawn = elections[e].withdrawn,
               elections'[e].stop => elections[e].stop,
               elections'[e].missed = elections[e].missed,
               elections'[e].role = "resigning" /\ elections'[e].then = "stopped"
                   => elections'[e].stop
        PROVE  KnownOK'
    <2>1. \A f \in Made :
             /\ Alive(f)' => Alive(f) /\ elections'[f].stop = elections[f].stop
                                      /\ elections'[f].withdrawn = elections[f].withdrawn
             /\ elections'[f].stop => elections[f].stop
             /\ elections'[f].missed = elections[f].missed
      BY <1>1 DEF Only, Alive
    <2>2. \A f \in Made :
             /\ Alive(f)' /\ f # current =>
                   (elections'[f].withdrawn /\ elections'[f].stop) \/ elections'[f].missed
             /\ elections'[f].role = "resigning" /\ elections'[f].then = "stopped"
                   => elections'[f].stop
      BY <1>1, <2>1 DEF KnownOK, Only
    <2>3. manager = "on" /\ current # None => ~ elections'[current].stop
      BY <2>1 DEF KnownOK, TypeOK
    <2>4. manager = "stopping" /\ current # None =>
             elections'[current].stop \/ elections'[current].missed \/ ~ Alive(current)'
      BY <1>1, <2>1 DEF KnownOK, TypeOK
    <2>5. manager # "new" /\ Made' = Made
      BY <1>1 DEF KnownOK, Only, Made
    <2> QED
      BY <1>1, <2>2, <2>3, <2>4, <2>5 DEF KnownOK
  <1> USE DEF KnownOK, Keeps, Alive
  <1>2. CASE Boot(e) \/ Win(e) \/ StartSurface(e) \/ Started(e)
    BY <1>1, <1>2, BootDoes, WinDoes, StartSurfaceDoes, StartedDoes
  <1>3. CASE Stopped(e)
    BY <1>1, <1>3, StoppedDoes
  <1>4. CASE StandsDown(e)
    BY <1>1, <1>4 DEF StandsDown
  <1>5. CASE Resign(e) /\ elections[e].then # "stopped"
    BY <1>1, <1>5, ResignDoes
  <1>6. CASE Ends(e)
    <2>1. /\ Only(e) /\ elections'[e].role = "stopped" /\ ~ elections'[e].stop
          /\ elections'[e].missed = elections[e].missed
          /\ UNCHANGED <<surfaces, current, manager>>
      BY <1>6, StopReturnsDoes DEF Ends
    <2> QED
      BY <1>1, <2>1
  <1> QED
    BY <1>2, <1>3, <1>4, <1>5, <1>6, ElectionStepIs

LEMMA KnownKept == TypeOK /\ KnownOK /\ [Next]_vars => KnownOK'
  <1> SUFFICES ASSUME TypeOK, KnownOK, [Next]_vars PROVE KnownOK'
    OBVIOUS
  <1>1. CASE UNCHANGED vars
    BY <1>1 DEF KnownOK, Alive, Made, vars
  <1> QED
    BY <1>1, CallerKnown, ElectionKnown, StartManagerKnown, StopManagerKnown,
       ManagerStoppedKnown DEF Next

(* Once the manager has stopped, only those read that were lost or belong to *)
(* an election which it had withdrawn, or had stopped before its boot.       *)
THEOREM NothingIsLeftReading == Spec => []NothingOutlivesTheManager
  <1>1. TypeOK /\ ReachOK /\ KnownOK => NothingOutlivesTheManager
    <2> SUFFICES ASSUME TypeOK, ReachOK, KnownOK, manager = "off",
                        NEW c \in Consumer \ lost, by[c] # None
                 PROVE  elections[by[c]].withdrawn \/ elections[by[c]].missed
      BY DEF NothingOutlivesTheManager
    <2>1. by[c] \in Made /\ current = None /\ by[c] # current
      BY DEF TypeOK, KnownOK
    <2>2. Held(by[c])
      BY <2>1 DEF ReachOK
    <2> QED
      BY <2>1, <2>2 DEF KnownOK, Alive, Held
  <1> QED
    BY <1>1, ReachAtFirst, ReachKept, KnownAtFirst, KnownKept, TypeCorrect, PTL DEF Spec

-----------------------------------------------------------------------------
(* An election that came up alone.                                           *)

LEMMA AloneAtFirst == Init => AloneOK
  BY DEF Init, AloneOK, Made

LEMMA AskedAlone ==
    ASSUME TypeOK, AloneOK, Asked, UNCHANGED by
    PROVE  AloneOK'
  <1>1. \A e \in Made : Alive(e)' <=> Alive(e)
    BY DEF Asked, Alive
  <1>2. ASSUME NEW e \in Made', Alone(e)', NEW f \in Made' \ {e} PROVE ~ Alive(f)'
    <2>1. CASE e \in Made
      <3>1. Alone(e) /\ Made' = Made
        BY <1>2, <2>1 DEF Asked
      <3> QED
        BY <1>1, <1>2, <2>1, <3>1 DEF AloneOK
    <2>2. CASE e \notin Made
      <3>1. \A g \in Made : ~ Alive(g)
        BY <1>2, <2>2, NewOneHasNothing
      <3>2. f \in Made
        BY <2>2 DEF Asked
      <3> QED
        BY <1>1, <3>1, <3>2
    <2> QED
      BY <2>1, <2>2
  <1>3. ASSUME NEW e \in Made', ~ Alive(e)' PROVE ~ elections'[e].stop
    <2>1. CASE e \in Made
      BY <1>1, <1>3, <2>1 DEF Asked, AloneOK
    <2>2. CASE e \notin Made
      BY <2>2, NewOneHasNothing
    <2> QED
      BY <2>1, <2>2
  <1> QED
    BY <1>2, <1>3 DEF AloneOK

(* An election that takes a step has not stopped, and stays alone if it was. *)
LEMMA OnlyTheLiving ==
    ASSUME TypeOK, AloneOK, NEW e \in Made, ElectionStep(e)
    PROVE  /\ Alive(e) /\ Only(e)
           /\ \A f \in Made : (Alone(f)' <=> Alone(f)) /\ (Alone(f) => f = e)
  <1>1. Alive(e) /\ Only(e) /\ elections'[e].after = elections[e].after
    <2>1. CASE Boot(e) \/ Win(e) \/ StartSurface(e) \/ Started(e)
      BY <2>1, BootDoes, WinDoes, StartSurfaceDoes, StartedDoes DEF Alive, Keeps
    <2>2. CASE Stopped(e) \/ StandsDown(e) \/ (Resign(e) /\ elections[e].then # "stopped")
      BY <2>2, StoppedDoes, ResignDoes DEF StandsDown, Alive, Keeps
    <2>3. CASE Ends(e)
      BY <2>3, StopReturnsDoes DEF Ends, AloneOK, Alive
    <2> QED
      BY <2>1, <2>2, <2>3, ElectionStepIs
  <1>2. Len(elections') = Len(elections)
    BY <1>1 DEF Only, TypeOK, Made
  <1>3. \A f \in Made : Alone(f)' <=> Alone(f)
    BY <1>1, <1>2 DEF Alone, Only
  <1> QED
    BY <1>1, <1>3 DEF AloneOK

LEMMA ElectionAlone ==
    ASSUME TypeOK, AloneOK, NEW e \in Made, ElectionStep(e)
    PROVE  AloneOK'
  <1>1. /\ Alive(e) /\ Only(e)
        /\ \A f \in Made : (Alone(f)' <=> Alone(f)) /\ (Alone(f) => f = e)
    BY OnlyTheLiving
  <1>2. ~ Alive(e)' => ~ elections'[e].stop
    <2>1. CASE Ends(e)
      BY <2>1, StopReturnsDoes DEF Ends
    <2>2. CASE ~ Ends(e)
      BY <2>2, ElectionStepIs, BootDoes, WinDoes, StartSurfaceDoes, StartedDoes, StoppedDoes,
         ResignDoes DEF Alive, StandsDown
    <2> QED
      BY <2>1, <2>2
  <1> QED
    BY <1>1, <1>2 DEF AloneOK, Only, Alive

LEMMA AloneKept == TypeOK /\ AloneOK /\ [Next]_vars => AloneOK'
  <1> SUFFICES ASSUME TypeOK, AloneOK, [Next]_vars PROVE AloneOK'
    OBVIOUS
  <1>1. ASSUME NEW c \in Consumer, Register(c) \/ Unregister(c) PROVE AloneOK'
    BY <1>1, NotifyIsAsked, AskedAlone DEF Register, Unregister
  <1>2. CASE ManagerStep
    BY <1>2, ManagerIsAsked, AskedAlone
  <1>3. CASE UNCHANGED vars
    BY <1>3 DEF AloneOK, Alone, Alive, Made, vars
  <1> QED
    BY <1>1, <1>2, <1>3, ElectionAlone DEF Next, ManagerStep

-----------------------------------------------------------------------------
(* An election that holds the surface reads it.                              *)

LEMMA SeatAtFirst == Init => SeatOK
  BY DEF Init, SeatOK, Made

LEMMA AskedSeat ==
    ASSUME TypeOK, SeatOK, Asked, UNCHANGED by
    PROVE  SeatOK'
  <1> SUFFICES ASSUME NEW e \in Made', Alone(e)', elections'[e].role = "master",
                      ~ elections'[e].stop, ~ elections'[e].missed
               PROVE  \E c \in Consumer : by[c] = e
    BY DEF SeatOK
  <1>1. e \in Made
    BY NewOneHasNothing
  <1> QED
    BY <1>1 DEF SeatOK, Asked

(* The claim of an election that the manager knows finds a consumer.         *)
LEMMA ClaimFindsConsumer ==
    ASSUME TypeOK, KnownOK, NEW e \in Made, Alive(e),
           ~ elections[e].stop, ~ elections[e].missed
    PROVE  surfaces # <<>>
  <1>1. e = current /\ current # None
    BY NoneApart DEF KnownOK
  <1>2. manager = "on"
    BY <1>1 DEF KnownOK, TypeOK, Made
  <1> QED
    BY <1>1, <1>2 DEF KnownOK

LEMMA ElectionSeat ==
    ASSUME TypeOK, KnownOK, AloneOK, SeatOK, NEW e \in Made, ElectionStep(e)
    PROVE  SeatOK'
  <1>1. /\ Only(e) /\ \A f \in Made : (Alone(f)' <=> Alone(f)) /\ (Alone(f) => f = e)
    BY OnlyTheLiving
  <1> SUFFICES ASSUME Alone(e), elections'[e].role = "master",
                      ~ elections'[e].stop, ~ elections'[e].missed
               PROVE  \E c \in Consumer : by'[c] = e
    BY <1>1 DEF SeatOK, Only
  <1>2. CASE StartSurface(e)
    <2>1. StartFirst(e, surfaces) /\ Alive(e) /\ ~ elections[e].stop /\ ~ elections[e].missed
      BY <1>2, StartSurfaceDoes DEF Keeps, Alive
    <2>2. surfaces # <<>> /\ Head(surfaces) \in Consumer
      BY <2>1, ClaimFindsConsumer, TailOf DEF TypeOK
    <2> QED
      BY <2>1, <2>2 DEF StartFirst, TypeOK
  <1>3. CASE Started(e)
    <2>1. PICK c \in Consumer : by[c] = e
      BY <1>3, StartedDoes DEF SeatOK, Keeps
    <2>2. by'[c] = e
      BY <1>3, <2>1, StartedDoes DEF StartFirst, TypeOK
    <2> QED
      BY <2>2
  <1>4. StartSurface(e) \/ Started(e)
    BY ElectionStepIs, BootDoes, WinDoes, StoppedDoes, StopReturnsDoes, ResignDoes
       DEF StandsDown, Ends
  <1> QED
    BY <1>2, <1>3, <1>4

LEMMA SeatKept == TypeOK /\ KnownOK /\ AloneOK /\ SeatOK /\ [Next]_vars => SeatOK'
  <1> SUFFICES ASSUME TypeOK, KnownOK, AloneOK, SeatOK, [Next]_vars PROVE SeatOK'
    OBVIOUS
  <1>1. ASSUME NEW c \in Consumer, Register(c) \/ Unregister(c) PROVE SeatOK'
    BY <1>1, NotifyIsAsked, AskedSeat DEF Register, Unregister
  <1>2. CASE ManagerStep
    BY <1>2, ManagerIsAsked, AskedSeat
  <1>3. CASE UNCHANGED vars
    BY <1>3 DEF SeatOK, Alone, Made, vars
  <1> QED
    BY <1>1, <1>2, <1>3, ElectionSeat DEF Next, ManagerStep

(* An election which holds the surface, and was neither asked to stop nor    *)
(* came up beside another, reads it.                                         *)
THEOREM SeatsAreFilled == Spec => []HoldsNoEmptySeat
  <1>1. SeatOK => HoldsNoEmptySeat
    BY DEF SeatOK, HoldsNoEmptySeat
  <1> QED
    BY <1>1, SeatAtFirst, SeatKept, KnownAtFirst, KnownKept, AloneAtFirst, AloneKept,
       TypeCorrect, PTL DEF Spec

-----------------------------------------------------------------------------
(* The order among the registered consumers.                                 *)

LEMMA OrderAtFirst == Init => OrderOK
  BY DEF Init, OrderOK, Made

(* Of an election that takes no step, the order depends on the registry only.*)
LEMMA AskedOrder ==
    ASSUME TypeOK, OrderOK, Asked, UNCHANGED by,
           \A e \in Made : Alone(e) => \A i, j \in DOMAIN surfaces' :
              i < j /\ surfaces'[j] \notin lost' =>
                 \/ \E k, l \in DOMAIN surfaces : /\ k < l /\ surfaces[l] \notin lost
                                                  /\ surfaces[k] = surfaces'[i]
                                                  /\ surfaces[l] = surfaces'[j]
                 \/ surfaces'[j] \in Consumer /\ (Held(e) => ~ Has(e, surfaces'[j])),
           \A e \in Made : ~ Held(e) => \A c \in Range(surfaces') \ lost' : by[c] # e,
           Range(surfaces') \subseteq Consumer
    PROVE  OrderOK'
  <1>1. ASSUME NEW e \in Made', Alone(e)', elections'[e].role = "master", elections'[e].todo # <<>>
        PROVE  by'[elections'[e].todo[1]] = e
    <2>1. e \in Made
      BY <1>1, NewOneHasNothing
    <2> QED
      BY <1>1, <2>1 DEF OrderOK, Asked
  <1>2. ASSUME NEW e \in Made', Alone(e)', NEW i \in DOMAIN surfaces', NEW j \in DOMAIN surfaces',
               i < j, surfaces'[j] \notin lost'
        PROVE  Ordered(e, i, j)'
    <2> DEFINE x == surfaces'[i]
               y == surfaces'[j]
    <2>1. x \in Consumer /\ y \in Range(surfaces') /\ y \in Consumer
      BY DEF Range
    <2>2. CASE e \notin Made
      BY <2>1, <2>2, NewOneHasNothing DEF Ordered
    <2>3. CASE e \in Made
      <3>1. Alone(e) /\ elections'[e].role = elections[e].role /\ elections'[e].todo = elections[e].todo
        BY <1>2, <2>3 DEF Asked
      <3>2. ASSUME NEW k \in DOMAIN surfaces, NEW l \in DOMAIN surfaces, k < l,
                   surfaces[l] \notin lost, surfaces[k] = x, surfaces[l] = y
            PROVE  Ordered(e, i, j)'
        <4>1. Ordered(e, k, l)
          BY <2>3, <3>1, <3>2 DEF OrderOK
        <4> QED
          BY <3>1, <3>2, <4>1 DEF Ordered
      <3>3. ASSUME Held(e) => ~ Has(e, y)
            PROVE  Ordered(e, i, j)'
        <4>1. by[y] # e
          BY <1>2, <2>1, <2>3, <3>3 DEF Has
        <4>2. Held(e) => y \notin Range(elections[e].todo)
          BY <3>3 DEF Has
        <4>3. Held(e) => \A k \in DOMAIN elections[e].todo : elections[e].todo[k] # y
          BY <4>2 DEF Range
        <4> QED
          BY <3>1, <4>1, <4>3 DEF Ordered, Held
      <3> QED
        BY <1>2, <2>3, <3>1, <3>2, <3>3
    <2> QED
      BY <2>2, <2>3
  <1> QED
    BY <1>1, <1>2 DEF OrderOK

LEMMA RegisterOrder ==
    ASSUME TypeOK, ReachOK, OrderOK, NEW c \in Consumer, Register(c)
    PROVE  OrderOK'
  <1>1. /\ surfaces \in Seq(Consumer) /\ c \notin Range(surfaces) /\ Distinct(surfaces)
        /\ surfaces' = Append(surfaces, c) /\ by' = by /\ lost \subseteq lost'
    BY DEF TypeOK, ReachOK, Register, Registered, LetGo
  <1>2. /\ DOMAIN surfaces' = DOMAIN surfaces \cup {Len(surfaces) + 1}
        /\ \A i \in DOMAIN surfaces : i \in 1 .. Len(surfaces) /\ surfaces'[i] = surfaces[i]
        /\ surfaces'[Len(surfaces) + 1] = c /\ Range(surfaces') = Range(surfaces) \cup {c}
        /\ Len(surfaces) \in Nat
    BY <1>1, Appended
  <1>3. Asked
    BY NotifyIsAsked DEF Register
  <1>4. ASSUME NEW e \in Made, NEW i \in DOMAIN surfaces', NEW j \in DOMAIN surfaces',
               i < j, surfaces'[j] \notin lost'
        PROVE  \/ \E k, l \in DOMAIN surfaces : /\ k < l /\ surfaces[l] \notin lost
                                                /\ surfaces[k] = surfaces'[i]
                                                /\ surfaces[l] = surfaces'[j]
               \/ surfaces'[j] \in Consumer /\ (Held(e) => ~ Has(e, surfaces'[j]))
    <2>1. CASE j \in DOMAIN surfaces
      <3>1. i \in DOMAIN surfaces
        BY <1>2, <1>4, <2>1
      <3> QED
        BY <1>1, <1>2, <1>4, <2>1, <3>1
    <2>2. CASE j = Len(surfaces) + 1
      <3>1. surfaces'[j] = c /\ c \notin lost /\ i \in DOMAIN surfaces
        BY <1>1, <1>2, <1>4, <2>2
      <3>2. Found = surfaces
        BY <1>1, <3>1 DEF Found
      <3> QED
        BY <1>1, <3>1, <3>2 DEF ReachOK
    <2> QED
      BY <1>2, <2>1, <2>2
  <1>5. \A e \in Made : ~ Held(e) => \A x \in Range(surfaces') \ lost' : by[x] # e
    BY <1>1, <1>2 DEF ReachOK, Range
  <1>6. Range(surfaces') \subseteq Consumer
    BY <1>1, <1>2 DEF Range
  <1> QED
    BY <1>1, <1>3, <1>4, <1>5, <1>6, AskedOrder

LEMMA UnregisterOrder ==
    ASSUME TypeOK, ReachOK, OrderOK, NEW c \in Consumer, Unregister(c)
    PROVE  OrderOK'
  <1>1. /\ surfaces \in Seq(Consumer) /\ c \in Range(surfaces)
        /\ surfaces' = RemoveFirst(surfaces, c) /\ by' = by /\ lost \subseteq lost'
    BY DEF TypeOK, Unregister, Registered, Without, LetGoFor, LetGo
  <1>2. PICK at \in [DOMAIN surfaces' -> DOMAIN surfaces] :
           /\ \A j \in DOMAIN surfaces' : surfaces'[j] = surfaces[at[j]]
           /\ \A i, j \in DOMAIN surfaces' : i < j => at[i] < at[j]
    BY <1>1, RemovedConsumer
  <1>3. Asked
    BY NotifyIsAsked DEF Unregister
  <1>4. \A i, j \in DOMAIN surfaces' :
           i < j /\ surfaces'[j] \notin lost' =>
              \E k, l \in DOMAIN surfaces : /\ k < l /\ surfaces[l] \notin lost
                                            /\ surfaces[k] = surfaces'[i]
                                            /\ surfaces[l] = surfaces'[j]
    BY <1>1, <1>2
  <1>5. Range(surfaces') \subseteq Consumer
    BY <1>1, RemovedConsumer DEF Range
  <1>6. \A e \in Made : ~ Held(e) => \A x \in Range(surfaces') \ lost' : by[x] # e
    BY <1>1, <1>5 DEF ReachOK
  <1> QED
    BY <1>1, <1>3, <1>4, <1>5, <1>6, AskedOrder

LEMMA ManagerOrder ==
    ASSUME TypeOK, ReachOK, OrderOK, ManagerStep
    PROVE  OrderOK'
  <1>1. Asked /\ UNCHANGED <<surfaces, retiring, by, lost>>
    BY ManagerIsAsked
  <1>2. Range(surfaces) \subseteq Consumer
    BY DEF TypeOK, Range
  <1>3. \A e \in Made : ~ Held(e) => \A x \in Range(surfaces) \ lost : by[x] # e
    BY <1>2 DEF ReachOK
  <1>4. \A i, j \in DOMAIN surfaces' :
           i < j /\ surfaces'[j] \notin lost' =>
              \E k, l \in DOMAIN surfaces : /\ k < l /\ surfaces[l] \notin lost
                                            /\ surfaces[k] = surfaces'[i]
                                            /\ surfaces[l] = surfaces'[j]
    BY <1>1
  <1> QED
    BY <1>1, <1>2, <1>3, <1>4, AskedOrder

(* Of an election that takes a step only its own order is at stake.          *)
LEMMA OwnOrder ==
    ASSUME TypeOK, AloneOK, NEW e \in Made, ElectionStep(e),
           Alone(e) =>
             /\ elections'[e].role = "master" /\ elections'[e].todo # <<>>
                   => by'[elections'[e].todo[1]] = e
             /\ \A i, j \in DOMAIN surfaces : i < j /\ surfaces[j] \notin lost' => Ordered(e, i, j)'
    PROVE  OrderOK'
  <1>1. /\ Only(e) /\ \A f \in Made : (Alone(f)' <=> Alone(f)) /\ (Alone(f) => f = e)
    BY OnlyTheLiving
  <1>2. surfaces' = surfaces
    BY ElectionStepIs, BootDoes, WinDoes, StartSurfaceDoes, StartedDoes, StoppedDoes, ResignDoes
       DEF StandsDown, Ends
  <1> QED
    BY <1>1, <1>2 DEF OrderOK, Only

LEMMA StartSurfaceOrder ==
    ASSUME TypeOK, ReachOK, AloneOK, OrderOK, NEW e \in Made, StartSurface(e)
    PROVE  OrderOK'
  <1>1. /\ ~ Held(e) /\ elections'[e].role = "master" /\ elections'[e].todo = surfaces
        /\ StartFirst(e, surfaces) /\ UNCHANGED <<surfaces, lost>> /\ surfaces \in Seq(Consumer)
    BY StartSurfaceDoes DEF Held, TypeOK
  <1>2. surfaces # <<>> => /\ Head(surfaces) = surfaces[1] /\ surfaces[1] \in Consumer
                           /\ by' = [by EXCEPT ![surfaces[1]] = e]
    BY <1>1, TailOf DEF StartFirst
  <1>3. surfaces # <<>> => by'[surfaces[1]] = e
    BY <1>2 DEF TypeOK
  <1>4. ASSUME NEW i \in DOMAIN surfaces, NEW j \in DOMAIN surfaces, i < j, surfaces[j] \notin lost
        PROVE  Ordered(e, i, j)'
    <2>1. surfaces # <<>> /\ 1 \in DOMAIN surfaces /\ surfaces[j] \in Consumer /\ j # 1
      BY <1>1, <1>4
    <2>2. surfaces[j] # surfaces[1]
      BY <2>1 DEF ReachOK, Distinct
    <2>3. by'[surfaces[j]] = by[surfaces[j]]
      BY <1>2, <2>1, <2>2 DEF TypeOK
    <2>4. by'[surfaces[j]] # e
      BY <1>1, <1>4, <2>1, <2>3, EndReadsNothing
    <2>5. \A k \in DOMAIN surfaces : surfaces[k] = surfaces[j] => i < k
      BY <1>4 DEF ReachOK, Distinct
    <2> QED
      BY <1>1, <2>4, <2>5 DEF Ordered
  <1> QED
    BY <1>1, <1>3, <1>4, OwnOrder DEF ElectionStep

LEMMA StartedOrder ==
    ASSUME TypeOK, ReachOK, AloneOK, OrderOK, NEW e \in Made, Started(e)
    PROVE  OrderOK'
  <1> DEFINE t == elections[e].todo
             u == Tail(t)
  <1>1. /\ elections[e].role = "master" /\ elections'[e].role = "master"
        /\ elections'[e].todo = u /\ t # <<>> /\ t \in Seq(Consumer)
        /\ StartFirst(e, u) /\ UNCHANGED <<surfaces, lost>> /\ surfaces \in Seq(Consumer)
    BY StartedDoes, ElectionOf, ElectionFields DEF TypeOK
  <1>2. /\ u \in Seq(Consumer) /\ Len(t) \in Nat \ {0} /\ Len(u) = Len(t) - 1
        /\ \A k \in 1 .. Len(t) - 1 : u[k] = t[k + 1]
        /\ DOMAIN t = 1 .. Len(t) /\ DOMAIN u = 1 .. Len(t) - 1
    BY <1>1, TailOf
  <1> HIDE DEF u
  <1>3. u # <<>> => Head(u) = u[1] /\ u[1] \in Consumer /\ u[1] = t[2] /\ 2 \in DOMAIN t
    <2>1. u # <<>> => Head(u) = u[1] /\ u[1] \in Consumer /\ Len(u) > 0
      BY <1>2
    <2> QED
      BY <1>2, <2>1
  <1>4. \A x \in Consumer : by'[x] = by[x] \/ (by'[x] = e /\ u # <<>> /\ x = t[2])
    BY <1>1, <1>3 DEF StartFirst, TypeOK
  <1>5. \A x \in Consumer : by[x] = e => by'[x] = e
    BY <1>4
  <1>6. u # <<>> => by'[u[1]] = e
    BY <1>1, <1>3 DEF StartFirst, TypeOK
  <1>7. ASSUME Alone(e), NEW i \in DOMAIN surfaces, NEW j \in DOMAIN surfaces, i < j,
               surfaces[j] \notin lost
        PROVE  Ordered(e, i, j)'
    <2> DEFINE x == surfaces[i]
               y == surfaces[j]
    <2>1. x \in Consumer /\ y \in Consumer
      BY <1>1
    <2>2. /\ by[t[1]] = e
          /\ by[y] = e => by[x] = e
          /\ \A k \in DOMAIN t : t[k] = y => by[x] = e \/ \E m \in DOMAIN t : m < k /\ t[m] = x
      BY <1>1, <1>7 DEF OrderOK, Ordered
    <2> HIDE DEF x, y, t
    <2>3. ASSUME by'[y] = e PROVE by'[x] = e
      <3>1. CASE by[y] = e
        BY <1>5, <2>1, <2>2, <3>1
      <3>2. CASE y = t[2] /\ 2 \in DOMAIN t
        <4>1. by[x] = e \/ \E m \in DOMAIN t : m < 2 /\ t[m] = x
          BY <2>2, <3>2
        <4>2. \A m \in DOMAIN t : m < 2 => m = 1
          BY <1>2
        <4> QED
          BY <1>5, <2>1, <2>2, <4>1, <4>2
      <3> QED
        BY <1>3, <1>4, <2>1, <2>3, <3>1, <3>2
    <2>4. ASSUME NEW k \in DOMAIN u, u[k] = y
          PROVE  by'[x] = e \/ \E m \in DOMAIN u : m < k /\ u[m] = x
      <3>1. k + 1 \in DOMAIN t /\ t[k + 1] = y
        BY <1>2, <2>4
      <3>2. CASE by[x] = e
        BY <1>5, <2>1, <3>2
      <3>3. ASSUME NEW m \in DOMAIN t, m < k + 1, t[m] = x
            PROVE  by'[x] = e \/ \E n \in DOMAIN u : n < k /\ u[n] = x
        <4>1. CASE m = 1
          BY <1>5, <2>1, <2>2, <3>3, <4>1
        <4>2. CASE m # 1
          <5>1. m - 1 \in DOMAIN u /\ m - 1 < k /\ (m - 1) + 1 = m
            BY <1>2, <2>4, <3>3, <4>2
          <5>2. u[m - 1] = x
            BY <1>2, <3>3, <5>1
          <5> QED
            BY <5>1, <5>2
        <4> QED
          BY <4>1, <4>2
      <3> QED
        BY <2>2, <3>1, <3>2, <3>3
    <2> QED
      BY <1>1, <2>3, <2>4 DEF Ordered, x, y
  <1> QED
    BY <1>1, <1>6, <1>7, OwnOrder DEF ElectionStep

LEMMA StandsDownOrder ==
    ASSUME TypeOK, ReachOK, AloneOK, OrderOK, NEW e \in Made, ElectionStep(e), StandsDown(e)
    PROVE  OrderOK'
  <1>1. /\ elections'[e].role = "resigning" /\ elections'[e].todo = ToStop
        /\ UNCHANGED <<surfaces, by, lost>> /\ surfaces \in Seq(Consumer)
    BY DEF StandsDown, TypeOK
  <1>2. ASSUME Alone(e), NEW i \in DOMAIN surfaces, NEW j \in DOMAIN surfaces, i < j,
               surfaces[j] \notin lost
        PROVE  Ordered(e, i, j)'
    <2>1. by[surfaces[j]] = e => by[surfaces[i]] = e
      BY <1>2 DEF OrderOK, Ordered
    <2>2. Found = surfaces /\ Len(surfaces) \in Nat /\ DOMAIN surfaces = 1 .. Len(surfaces)
      BY <1>1, <1>2 DEF Found
    <2>3. /\ DOMAIN ToStop = 1 .. Len(surfaces)
          /\ \A k \in 1 .. Len(surfaces) : ToStop[k] = surfaces[Len(surfaces) - k + 1]
      BY <2>2, ToStopIsReverse
    <2>4. ASSUME NEW k \in DOMAIN ToStop, NEW m \in DOMAIN ToStop,
                 ToStop[k] = surfaces[i], ToStop[m] = surfaces[j]
          PROVE  m < k
      <3>1. /\ Len(surfaces) - k + 1 \in DOMAIN surfaces /\ Len(surfaces) - m + 1 \in DOMAIN surfaces
            /\ k \in Nat /\ m \in Nat
        BY <2>2, <2>3, <2>4
      <3>2. Len(surfaces) - k + 1 = i /\ Len(surfaces) - m + 1 = j
        BY <2>3, <2>4, <3>1 DEF ReachOK, Distinct
      <3> QED
        BY <1>2, <2>2, <3>1, <3>2
    <2> HIDE DEF ToStop
    <2> QED
      BY <1>1, <2>1, <2>4 DEF Ordered
  <1> QED
    BY <1>1, <1>2, OwnOrder

LEMMA StoppedOrder ==
    ASSUME TypeOK, ReachOK, AloneOK, OrderOK, NEW e \in Made, Stopped(e)
    PROVE  OrderOK'
  <1> DEFINE t == elections[e].todo
             u == Tail(t)
             c == Head(t)
  <1>1. /\ Held(e) /\ elections[e].role = "resigning" /\ elections'[e].role = "resigning"
        /\ elections'[e].todo = u /\ t # <<>> /\ t \in Seq(Consumer)
        /\ by' = [by EXCEPT ![c] = None] /\ lost' \subseteq lost /\ lost \subseteq lost' \cup {c}
        /\ (c \in Range(u) => lost' = lost)
        /\ surfaces' = surfaces /\ surfaces \in Seq(Consumer)
    BY StoppedDoes, ElectionOf, ElectionFields DEF TypeOK, Held
  <1>2. /\ u \in Seq(Consumer) /\ Len(t) \in Nat \ {0} /\ Len(u) = Len(t) - 1
        /\ \A k \in 1 .. Len(t) - 1 : u[k] = t[k + 1]
        /\ DOMAIN t = 1 .. Len(t) /\ DOMAIN u = 1 .. Len(t) - 1 /\ c = t[1] /\ c \in Consumer
    BY <1>1, TailOf
  <1> HIDE DEF u, c
  <1>3. by'[c] = None /\ e # None /\ \A x \in Consumer \ {c} : by'[x] = by[x]
    BY <1>1, <1>2, NoneApart DEF TypeOK
  <1>4. ASSUME Alone(e), NEW i \in DOMAIN surfaces, NEW j \in DOMAIN surfaces, i < j,
               surfaces[j] \notin lost'
        PROVE  Ordered(e, i, j)'
    <2> DEFINE x == surfaces[i]
               y == surfaces[j]
    <2>1. x \in Consumer /\ y \in Consumer
      BY <1>1
    <2>2. CASE y \in lost
      <3>1. y = c /\ c \notin Range(u)
        BY <1>1, <1>4, <2>2
      <3>2. \A m \in DOMAIN u : u[m] # y
        BY <3>1 DEF Range
      <3> QED
        BY <1>1, <1>3, <3>1, <3>2 DEF Ordered
    <2>3. CASE y \notin lost
      <3>1. /\ by[y] = e => by[x] = e
            /\ \A k, m \in DOMAIN t : t[k] = x /\ t[m] = y => m < k
        BY <1>1, <1>4, <2>3 DEF OrderOK, Ordered
      <3>2. by[y] = e => \E m \in DOMAIN t : t[m] = y
        BY <1>1, <2>1, <2>3 DEF ReachOK, Range
      <3> HIDE DEF x, y, t
      <3>3. ASSUME by'[y] = e PROVE by'[x] = e
        <4>1. by[y] = e /\ by[x] = e
          BY <1>3, <2>1, <3>1, <3>3
        <4>2. x # c
          BY <1>2, <3>1, <3>2, <4>1
        <4> QED
          BY <1>3, <2>1, <4>1, <4>2
      <3>4. ASSUME NEW k \in DOMAIN u, NEW m \in DOMAIN u, u[k] = x, u[m] = y PROVE m < k
        <4>1. k + 1 \in DOMAIN t /\ m + 1 \in DOMAIN t /\ t[k + 1] = x /\ t[m + 1] = y
          BY <1>2, <3>4
        <4>2. m + 1 < k + 1
          BY <3>1, <4>1
        <4> QED
          BY <1>2, <3>4, <4>2
      <3> QED
        BY <1>1, <3>3, <3>4 DEF Ordered, x, y
    <2> QED
      BY <2>2, <2>3
  <1> QED
    BY <1>1, <1>4, OwnOrder DEF ElectionStep

(* The steps after which an election neither starts nor stops anything.      *)
LEMMA QuietOrder ==
    ASSUME TypeOK, ReachOK, AloneOK, OrderOK, NEW e \in Made, ElectionStep(e),
           by' = by, lost \subseteq lost', ~ Held(e)', UNCHANGED surfaces
    PROVE  OrderOK'
  <1>1. ASSUME Alone(e), NEW i \in DOMAIN surfaces, NEW j \in DOMAIN surfaces, i < j,
               surfaces[j] \notin lost'
        PROVE  Ordered(e, i, j)'
    <2>1. Ordered(e, i, j)
      BY <1>1 DEF OrderOK
    <2> QED
      BY <2>1 DEF Ordered, Held
  <1> QED
    BY <1>1, OwnOrder DEF Held

LEMMA ElectionOrder ==
    ASSUME TypeOK, ReachOK, AloneOK, OrderOK, NEW e \in Made, ElectionStep(e)
    PROVE  OrderOK'
  <1>1. CASE Boot(e) \/ Win(e) \/ (Resign(e) /\ elections[e].then # "stopped")
    BY <1>1, BootDoes, WinDoes, ResignDoes, QuietOrder DEF Held
  <1>2. CASE Ends(e)
    <2>1. by' = by /\ surfaces' = surfaces /\ lost \subseteq lost' /\ ~ Held(e)'
      BY <1>2, StopReturnsDoes DEF Ends, LetGo, Held
    <2> QED
      BY <2>1, QuietOrder
  <1> QED
    BY <1>1, <1>2, ElectionStepIs, StartSurfaceOrder, StartedOrder, StandsDownOrder, StoppedOrder

LEMMA OrderKept == TypeOK /\ ReachOK /\ AloneOK /\ OrderOK /\ [Next]_vars => OrderOK'
  <1> SUFFICES ASSUME TypeOK, ReachOK, AloneOK, OrderOK, [Next]_vars PROVE OrderOK'
    OBVIOUS
  <1>1. CASE UNCHANGED vars
    BY <1>1 DEF OrderOK, Ordered, Alone, Made, vars
  <1> QED
    BY <1>1, RegisterOrder, UnregisterOrder, ElectionOrder, ManagerOrder DEF Next, ManagerStep

(* While an election that is alone reads a consumer which was not lost, it   *)
(* reads every consumer that was registered before it.                       *)
THEOREM OrderIsKept == Spec => []UpFirstDownLast
  <1>1. TypeOK /\ OrderOK => UpFirstDownLast
    BY DEF TypeOK, OrderOK, Ordered, UpFirstDownLast
  <1> QED
    BY <1>1, ReachAtFirst, ReachKept, AloneAtFirst, AloneKept, OrderAtFirst, OrderKept,
       TypeCorrect, PTL DEF Spec

=============================================================================
