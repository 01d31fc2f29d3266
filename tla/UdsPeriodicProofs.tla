------------------------- MODULE UdsPeriodicProofs -------------------------
(***************************************************************************)
(* Theorems about periodic transmission: the slot table of 0x2A and its    *)
(* scheduler.                                                              *)
(***************************************************************************)
EXTENDS UdsTimingProofs, FiniteSetTheorems

-----------------------------------------------------------------------------
(* Slots and loops *)

\* The first slot of a set of slots.
LEMMA FirstSlot ==
  ASSUME NEW S \in SUBSET Slot, S # {}
  PROVE  FirstOf(S) \in S
<1>1. S \subseteq Nat
  BY PeriodicAssumption DEF Slot
<1>2. \E x \in S : \A y \in S : x <= y
  BY <1>1, LeastNatural
<1> QED
  BY <1>2 DEF FirstOf

\* The loop over a list of identifiers to stop: what holds of the table before
\* it and is kept by each round holds after it.
LEMMA StopLoop ==
  ASSUME NEW p, NEW ids \in Seq(Nat), NEW S, p \in S,
         \A q \in S, i \in DOMAIN ids : StopOne(q, ids[i]) \in S
  PROVE  StopListed(p, ids) \in S
<1> DEFINE Rounds(f, n) ==
             f = [i \in 0 .. n |-> IF i = 0 THEN p ELSE StopOne(f[i - 1], ids[i])]
           N == {n \in Nat : \E f : Rounds(f, n)}
<1>1. 0 \in N
  <2> DEFINE f == [i \in 0 .. 0 |-> p]
  <2>1. Rounds(f, 0)
    OBVIOUS
  <2> QED
    BY <2>1
<1>2. ASSUME NEW n \in Nat, n \in N PROVE n + 1 \in N
  <2>1. PICK f : Rounds(f, n)
    BY <1>2
  <2> DEFINE g == [i \in 0 .. n + 1 |->
                     IF i = n + 1 THEN StopOne(f[n], ids[n + 1]) ELSE f[i]]
  <2>2. \A i \in 0 .. n : g[i] = f[i]
    OBVIOUS
  <2>3. g[n + 1] = StopOne(g[n], ids[n + 1])
    BY <2>2
  <2>4. \A i \in 0 .. n : f[i] = IF i = 0 THEN p ELSE StopOne(f[i - 1], ids[i])
    BY <2>1, Zenon
  <2>5. ASSUME NEW i \in 0 .. n + 1
        PROVE  g[i] = IF i = 0 THEN p ELSE StopOne(g[i - 1], ids[i])
    <3>1. CASE i = n + 1
      BY <2>3, <3>1
    <3>2. CASE i # n + 1
      <4>1. i \in 0 .. n /\ (i # 0 => i - 1 \in 0 .. n)
        BY <3>2
      <4>2. g[i] = f[i] /\ (i # 0 => g[i - 1] = f[i - 1])
        BY <2>2, <4>1
      <4> HIDE DEF g
      <4> QED
        BY <2>4, <4>1, <4>2
    <3> QED
      BY <3>1, <3>2
  <2>6. g = [i \in 0 .. n + 1 |-> g[i]]
    OBVIOUS
  <2> HIDE DEF g
  <2>7. Rounds(g, n + 1)
    BY <2>5, <2>6, Zenon
  <2>8. n + 1 \in Nat
    OBVIOUS
  <2>9. \E h : Rounds(h, n + 1)
    BY <2>7, Zenon
  <2> HIDE DEF Rounds
  <2> QED
    BY <2>8, <2>9
<1>3. Len(ids) \in N
  <2> HIDE DEF N
  <2>1. \A n \in Nat : n \in N
    BY <1>1, <1>2, NaturalSet
  <2> QED
    BY <2>1
<1>4. PICK f : StopListed(p, ids) = f[Len(ids)] /\ Rounds(f, Len(ids))
  <2>1. \E f : Rounds(f, Len(ids))
    BY <1>3
  <2> QED
    BY <2>1, Zenon DEF StopListed
<1>5. \A i \in 0 .. Len(ids) : f[i] = IF i = 0 THEN p ELSE StopOne(f[i - 1], ids[i])
  BY <1>4, Zenon
<1> DEFINE M == {i \in Nat : i <= Len(ids) => f[i] \in S}
<1>6. 0 \in M
  BY <1>5
<1>7. ASSUME NEW n \in Nat, n \in M PROVE n + 1 \in M
  <2> SUFFICES ASSUME n + 1 <= Len(ids) PROVE f[n + 1] \in S
    OBVIOUS
  <2>1. f[n] \in S /\ n + 1 \in DOMAIN ids /\ n + 1 \in 0 .. Len(ids) /\ n + 1 # 0
    BY <1>7
  <2>2. f[n + 1] = StopOne(f[n], ids[n + 1])
    BY <1>5, <2>1
  <2> QED
    BY <2>1, <2>2
<1>8. Len(ids) \in M
  <2> HIDE DEF M
  <2>1. \A n \in Nat : n \in M
    BY <1>6, <1>7, NaturalSet
  <2> QED
    BY <2>1
<1> QED
  BY <1>4, <1>8

\* The same of the loop over a list of identifiers to add.
LEMMA AddLoop ==
  ASSUME NEW p, NEW r \in Request, NEW t, NEW S, [p |-> p, full |-> FALSE] \in S,
         \A s \in S, i \in DOMAIN r.ids : AddOne(s, r.ids[i], Mode(r), t) \in S
  PROVE  AddAll(p, r, t) \in S
<1> DEFINE ids == r.ids
           first == [p |-> p, full |-> FALSE]
           Add(s, i) == AddOne(s, ids[i], Mode(r), t)
           Rounds(f, n) ==
             f = [i \in 0 .. n |-> IF i = 0 THEN first ELSE Add(f[i - 1], i)]
           N == {n \in Nat : \E f : Rounds(f, n)}
<1>0. ids \in Seq(Nat)
  BY DEF Request
<1>1. 0 \in N
  <2> DEFINE f == [i \in 0 .. 0 |-> first]
  <2>1. Rounds(f, 0)
    OBVIOUS
  <2> QED
    BY <2>1
<1>2. ASSUME NEW n \in Nat, n \in N PROVE n + 1 \in N
  <2>1. PICK f : Rounds(f, n)
    BY <1>2
  <2> DEFINE g == [i \in 0 .. n + 1 |->
                     IF i = n + 1 THEN Add(f[n], n + 1) ELSE f[i]]
  <2>2. \A i \in 0 .. n : g[i] = f[i]
    OBVIOUS
  <2>3. g[n + 1] = Add(g[n], n + 1)
    BY <2>2
  <2>4. \A i \in 0 .. n : f[i] = IF i = 0 THEN first ELSE Add(f[i - 1], i)
    BY <2>1, Zenon
  <2>5. ASSUME NEW i \in 0 .. n + 1
        PROVE  g[i] = IF i = 0 THEN first ELSE Add(g[i - 1], i)
    <3>1. CASE i = n + 1
      BY <2>3, <3>1
    <3>2. CASE i # n + 1
      <4>1. i \in 0 .. n /\ (i # 0 => i - 1 \in 0 .. n)
        BY <3>2
      <4>2. g[i] = f[i] /\ (i # 0 => g[i - 1] = f[i - 1])
        BY <2>2, <4>1
      <4> HIDE DEF g
      <4> QED
        BY <2>4, <4>1, <4>2
    <3> QED
      BY <3>1, <3>2
  <2>6. g = [i \in 0 .. n + 1 |-> g[i]]
    OBVIOUS
  <2> HIDE DEF g
  <2>7. Rounds(g, n + 1)
    BY <2>5, <2>6, Zenon
  <2> QED
    BY <2>7
<1>3. Len(ids) \in N
  <2> HIDE DEF N
  <2>1. \A n \in Nat : n \in N
    BY <1>1, <1>2, NaturalSet
  <2>2. Len(ids) \in Nat
    BY <1>0
  <2> QED
    BY <2>1, <2>2
<1>4. PICK f : AddAll(p, r, t) = f[Len(ids)] /\ Rounds(f, Len(ids))
  <2>1. \E f : Rounds(f, Len(ids))
    BY <1>3
  <2> QED
    BY <2>1, Zenon DEF AddAll
<1>5. \A i \in 0 .. Len(ids) : f[i] = IF i = 0 THEN first ELSE Add(f[i - 1], i)
  BY <1>4, Zenon
<1> DEFINE M == {i \in Nat : i <= Len(ids) => f[i] \in S}
<1>6. 0 \in M
  <2>1. 0 \in 0 .. Len(ids)
    BY <1>0
  <2>2. f[0] = first
    BY <1>5, <2>1
  <2> QED
    BY <2>2
<1>7. ASSUME NEW n \in Nat, n \in M PROVE n + 1 \in M
  <2> SUFFICES ASSUME n + 1 <= Len(ids) PROVE f[n + 1] \in S
    OBVIOUS
  <2>1. f[n] \in S /\ n + 1 \in DOMAIN ids /\ n + 1 \in 0 .. Len(ids) /\ n + 1 # 0
    BY <1>0, <1>7
  <2>2. f[n + 1] = Add(f[n], n + 1)
    BY <1>5, <2>1
  <2> QED
    BY <2>1, <2>2
<1>8. Len(ids) \in M
  <2> HIDE DEF M
  <2>1. \A n \in Nat : n \in M
    BY <1>6, <1>7, NaturalSet
  <2>2. Len(ids) \in Nat
    BY <1>0
  <2> QED
    BY <2>1, <2>2
<1> QED
  BY <1>4, <1>8

-----------------------------------------------------------------------------
(* The slot table *)

Active(p) == {j \in Slot : p.ids[j] # 0}

\* What makes a table sound: its types, its count and distinct identifiers.
SoundTable(p) ==
  /\ p \in Periodic
  /\ p.count = Cardinality(Active(p))
  /\ \A i, j \in Slot : p.ids[i] = p.ids[j] /\ p.ids[i] # 0 => i = j

\* The slots that are taken.
LEMMA ActiveSlots ==
  ASSUME NEW S \in SUBSET Slot
  PROVE  /\ IsFiniteSet(S) /\ Cardinality(S) \in 0 .. SLOTS
         /\ Cardinality(S) = SLOTS => S = Slot
<1>1. SLOTS \in Nat \ {0} /\ 1 \in Int /\ SLOTS \in Int
  BY PeriodicAssumption
<1>2. IsFiniteSet(Slot) /\ Cardinality(Slot) = SLOTS
  BY <1>1, FS_Interval DEF Slot
<1>3. /\ IsFiniteSet(S) /\ Cardinality(S) <= Cardinality(Slot)
      /\ Cardinality(Slot) = Cardinality(S) => Slot = S
  BY <1>2, FS_Subset
<1>4. Cardinality(S) \in Nat
  BY <1>3, FS_CardinalityType
<1> QED
  BY <1>1, <1>2, <1>3, <1>4

\* Stopping one identifier keeps the types, whatever the identifier.
LEMMA StopOneType ==
  ASSUME NEW p \in Periodic, NEW id
  PROVE  StopOne(p, id) \in Periodic
<1> DEFINE hit == {j \in Slot : p.ids[j] = id}
           ids == [j \in Slot |-> IF j \in hit THEN 0 ELSE p.ids[j]]
           count == (p.count - Cardinality(hit)) % COUNT_MOD
<1>1. StopOne(p, id) = [p EXCEPT !.ids = ids, !.count = count]
  BY DEF StopOne, Periodic
<1>2. ids \in [Slot -> Byte]
  BY DEF Periodic, Byte
<1>3. count \in 0 .. COUNT_MOD - 1
  <2>1. Cardinality(hit) \in Int
    BY ActiveSlots
  <2>2. p.count \in Int /\ COUNT_MOD \in Nat /\ COUNT_MOD > 0
    BY PeriodicAssumption DEF Periodic
  <2> QED
    BY <2>1, <2>2
<1> HIDE DEF ids, count
<1> QED
  BY <1>1, <1>2, <1>3 DEF Periodic

\* Stopping an identifier other than 0 keeps a table sound.
LEMMA StopOneSound ==
  ASSUME NEW p, SoundTable(p), NEW id, id # 0
  PROVE  SoundTable(StopOne(p, id))
<1> DEFINE hit == {j \in Slot : p.ids[j] = id}
           ids == [j \in Slot |-> IF j \in hit THEN 0 ELSE p.ids[j]]
           count == (p.count - Cardinality(hit)) % COUNT_MOD
           q == StopOne(p, id)
<1>1. p \in Periodic /\ p.count = Cardinality(Active(p))
  BY DEF SoundTable
<1>2. q \in Periodic
  BY <1>1, StopOneType
<1>3. q.ids = ids /\ q.count = count
  BY <1>1 DEF StopOne, Periodic
<1>4. Active(q) = Active(p) \ hit
  BY <1>3 DEF Active
<1>5. \A i, j \in Slot : q.ids[i] = q.ids[j] /\ q.ids[i] # 0 => i = j
  BY <1>3 DEF SoundTable
<1> HIDE DEF q
<1>6. IsFiniteSet(Active(p)) /\ p.count \in 0 .. SLOTS
  BY <1>1, ActiveSlots DEF Active
<1>7. count = Cardinality(Active(p) \ hit)
  <2>1. COUNT_MOD \in Nat /\ COUNT_MOD > SLOTS /\ SLOTS \in Nat \ {0}
    BY PeriodicAssumption
  <2>2. CASE hit = {}
    <3>1. Cardinality(hit) = 0
      BY <2>2, FS_EmptySet
    <3>2. Active(p) \ hit = Active(p)
      BY <2>2
    <3>3. (p.count - 0) % COUNT_MOD = p.count
      BY <1>6, <2>1
    <3> QED
      BY <1>1, <3>1, <3>2, <3>3
  <2>3. CASE hit # {}
    <3>1. PICK x \in Slot : p.ids[x] = id
      BY <2>3
    <3>2. hit = {x}
      BY <3>1 DEF SoundTable
    <3>3. Cardinality(hit) = 1
      BY <3>2, FS_Singleton
    <3>4. x \in Active(p)
      BY <3>1 DEF Active
    <3>5. Cardinality(Active(p) \ {x}) = p.count - 1
      BY <1>1, <1>6, <3>4, FS_RemoveElement
    <3>6. p.count # 0
      BY <1>1, <1>6, <3>4, FS_EmptySet
    <3>7. (p.count - 1) % COUNT_MOD = p.count - 1
      BY <1>6, <2>1, <3>6
    <3> QED
      BY <3>2, <3>3, <3>5, <3>7
  <2> QED
    BY <2>2, <2>3
<1> QED
  BY <1>2, <1>3, <1>4, <1>5, <1>7 DEF q, SoundTable

\* A table in the middle of an add request.
Adding == [p: Periodic, full: BOOLEAN]

\* What one round of the loop over an add request does, told apart by the
\* state of the table.
LEMMA AddOneCases ==
  ASSUME NEW s \in Adding, NEW id, NEW mode, NEW t
  PROVE  LET p == s.p
             u == AddOne(s, id, mode, t)
         IN  \/ u = s
             \/ \E i \in Slot : p.ids[i] = id
                  /\ u = [p |-> [p EXCEPT !.rates = [p.rates EXCEPT ![i] = mode]],
                          full |-> s.full]
             \/ u = [p |-> p, full |-> TRUE] /\ p.count >= SLOTS
             \/ /\ \A i \in Slot : p.ids[i] # id
                /\ \E i \in Slot : p.ids[i] = 0
                     /\ u = [p |-> [ids |-> [p.ids EXCEPT ![i] = id],
                                    rates |-> [p.rates EXCEPT ![i] = mode],
                                    timers |-> [p.timers EXCEPT ![i] = t],
                                    count |-> (p.count + 1) % COUNT_MOD],
                             full |-> s.full]
<1> DEFINE p == s.p
           u == AddOne(s, id, mode, t)
           known == {j \in Slot : p.ids[j] = id}
           free == {j \in Slot : p.ids[j] = 0}
           i == FirstOf(free)
           k == FirstOf(known)
           table == [ids |-> [p.ids EXCEPT ![i] = id],
                     rates |-> [p.rates EXCEPT ![i] = mode],
                     timers |-> [p.timers EXCEPT ![i] = t],
                     count |-> (p.count + 1) % COUNT_MOD]
<1>1. /\ known # {} => k \in known
      /\ free # {} => i \in free
  BY FirstSlot
<1>2. s = [p |-> p, full |-> s.full]
  BY DEF Adding
<1>3. CASE s.full
  BY <1>3 DEF AddOne
<1>4. CASE ~s.full /\ known # {}
  <2>1. u = [s EXCEPT !.p.rates[k] = mode]
    BY <1>4 DEF AddOne
  <2>2. [s EXCEPT !.p.rates[k] = mode] =
          [p |-> [p EXCEPT !.rates = [p.rates EXCEPT ![k] = mode]], full |-> s.full]
    BY <1>2 DEF Adding, Periodic
  <2>3. k \in Slot /\ p.ids[k] = id
    BY <1>1, <1>4
  <2> HIDE DEF u, k
  <2> QED
    BY <2>1, <2>2, <2>3 DEF u
<1>5. CASE ~s.full /\ known = {} /\ p.count >= SLOTS
  <2>1. u = [s EXCEPT !.full = TRUE]
    BY <1>5 DEF AddOne
  <2>2. u = [p |-> p, full |-> TRUE]
    BY <1>2, <2>1
  <2> QED
    BY <1>5, <2>2
<1>6. CASE ~s.full /\ known = {} /\ ~(p.count >= SLOTS) /\ free = {}
  BY <1>6 DEF AddOne
<1>7. CASE ~s.full /\ known = {} /\ ~(p.count >= SLOTS) /\ free # {}
  <2>1. u = [s EXCEPT !.p = table]
    BY <1>7 DEF AddOne
  <2>2. u = [p |-> table, full |-> s.full]
    BY <1>2, <2>1
  <2>3. i \in Slot /\ p.ids[i] = 0 /\ \A j \in Slot : p.ids[j] # id
    BY <1>1, <1>7
  <2> HIDE DEF u, i
  <2> QED
    BY <2>2, <2>3 DEF u
<1> QED
  BY <1>3, <1>4, <1>5, <1>6, <1>7

\* A round keeps the types.
LEMMA AddOneType ==
  ASSUME NEW s \in Adding, NEW id \in Byte, NEW mode \in 1 .. 3, NEW t \in Time
  PROVE  AddOne(s, id, mode, t) \in Adding
<1> DEFINE p == s.p
           u == AddOne(s, id, mode, t)
<1>1. /\ p \in Periodic /\ s.full \in BOOLEAN
      /\ p.ids \in [Slot -> Byte] /\ p.rates \in [Slot -> 0 .. 3]
      /\ p.timers \in [Slot -> Time] /\ p.count \in 0 .. COUNT_MOD - 1
  BY DEF Adding, Periodic
<1>2. (p.count + 1) % COUNT_MOD \in 0 .. COUNT_MOD - 1
  BY <1>1, PeriodicAssumption
<1>3. \A i \in Slot : /\ [p.ids EXCEPT ![i] = id] \in [Slot -> Byte]
                      /\ [p.rates EXCEPT ![i] = mode] \in [Slot -> 0 .. 3]
                      /\ [p.timers EXCEPT ![i] = t] \in [Slot -> Time]
  <2> TAKE i \in Slot
  <2>1. mode \in 0 .. 3
    OBVIOUS
  <2> HIDE DEF p
  <2> QED
    BY <1>1, <2>1
<1>4. CASE u = s
  BY <1>4
<1>5. CASE \E i \in Slot : u = [p |-> [p EXCEPT !.rates = [p.rates EXCEPT ![i] = mode]],
                                full |-> s.full]
  <2>1. PICK i \in Slot : u = [p |-> [p EXCEPT !.rates = [p.rates EXCEPT ![i] = mode]],
                               full |-> s.full]
    BY <1>5
  <2> DEFINE rates == [p.rates EXCEPT ![i] = mode]
  <2>2. rates \in [Slot -> 0 .. 3]
    BY <1>3
  <2>3. u = [p |-> [p EXCEPT !.rates = rates], full |-> s.full]
    BY <2>1
  <2> HIDE DEF rates, u, p
  <2>4. [p EXCEPT !.rates = rates] \in Periodic
    BY <1>1, <2>2 DEF Periodic
  <2> QED
    BY <1>1, <2>3, <2>4 DEF Adding, u
<1>6. CASE u = [p |-> p, full |-> TRUE]
  BY <1>1, <1>6 DEF Adding
<1>7. CASE \E i \in Slot : u = [p |-> [ids |-> [p.ids EXCEPT ![i] = id],
                                       rates |-> [p.rates EXCEPT ![i] = mode],
                                       timers |-> [p.timers EXCEPT ![i] = t],
                                       count |-> (p.count + 1) % COUNT_MOD],
                                full |-> s.full]
  <2> DEFINE Table(i) == [ids |-> [p.ids EXCEPT ![i] = id],
                          rates |-> [p.rates EXCEPT ![i] = mode],
                          timers |-> [p.timers EXCEPT ![i] = t],
                          count |-> (p.count + 1) % COUNT_MOD]
  <2>1. PICK i \in Slot : u = [p |-> Table(i), full |-> s.full]
    BY <1>7
  <2>2. Table(i) \in Periodic
    BY <1>2, <1>3 DEF Periodic
  <2> HIDE DEF Table, u
  <2> QED
    BY <1>1, <2>1, <2>2 DEF Adding, u
<1> HIDE DEF u
<1>8. \/ u = s
      \/ \E i \in Slot : u = [p |-> [p EXCEPT !.rates = [p.rates EXCEPT ![i] = mode]],
                              full |-> s.full]
      \/ u = [p |-> p, full |-> TRUE]
      \/ \E i \in Slot : u = [p |-> [ids |-> [p.ids EXCEPT ![i] = id],
                                     rates |-> [p.rates EXCEPT ![i] = mode],
                                     timers |-> [p.timers EXCEPT ![i] = t],
                                     count |-> (p.count + 1) % COUNT_MOD],
                              full |-> s.full]
  BY AddOneCases DEF u
<1> QED
  BY <1>4, <1>5, <1>6, <1>7, <1>8 DEF u

\* How far an add request has come, that began with the table p at the time t:
\* the table is sound, what was active has kept its slot and its deadline, what
\* is new is due now, and the table is full if it was found to be.
Grown(p, s, t) ==
  /\ s \in Adding /\ SoundTable(s.p)
  /\ \A j \in Slot : p.ids[j] # 0 =>
       s.p.ids[j] = p.ids[j] /\ s.p.timers[j] = p.timers[j]
  /\ \A j \in Slot : p.ids[j] = 0 /\ s.p.ids[j] # 0 => s.p.timers[j] = t
  /\ s.full => \A j \in Slot : s.p.ids[j] # 0

\* Each round keeps this.
LEMMA AddOneGrows ==
  ASSUME NEW p, NEW s, NEW id \in Byte \ {0}, NEW mode \in 1 .. 3, NEW t \in Time,
         Grown(p, s, t)
  PROVE  Grown(p, AddOne(s, id, mode, t), t)
<1> DEFINE q == s.p
           u == AddOne(s, id, mode, t)
<1> SUFFICES Grown(p, u, t)
  OBVIOUS
<1>1. /\ s \in Adding /\ SoundTable(q) /\ q \in Periodic /\ q.count = Cardinality(Active(q))
      /\ q.ids \in [Slot -> Byte] /\ q.timers \in [Slot -> Time]
  BY DEF Grown, SoundTable, Periodic
<1>2. u \in Adding /\ u.p \in Periodic
  BY <1>1, AddOneType DEF Adding
<1>3. /\ IsFiniteSet(Active(q)) /\ Cardinality(Active(q)) \in 0 .. SLOTS
      /\ Cardinality(Active(q)) = SLOTS => Active(q) = Slot
  BY ActiveSlots DEF Active
<1>4. SLOTS \in Nat \ {0} /\ COUNT_MOD \in Nat /\ COUNT_MOD > SLOTS
  BY PeriodicAssumption
<1>5. CASE u = s
  BY <1>5
<1>6. ASSUME u.p.ids = q.ids, u.p.timers = q.timers, u.p.count = q.count,
             u.full => \A j \in Slot : q.ids[j] # 0
      PROVE  Grown(p, u, t)
  <2>1. Active(u.p) = Active(q)
    BY <1>6 DEF Active
  <2> HIDE DEF u
  <2>2. SoundTable(u.p)
    BY <1>1, <1>2, <1>6, <2>1 DEF SoundTable
  <2> QED
    BY <1>2, <1>6, <2>2 DEF Grown
<1>7. CASE u = [p |-> q, full |-> TRUE] /\ q.count >= SLOTS
  <2>1. Active(q) = Slot
    BY <1>1, <1>3, <1>4, <1>7
  <2>2. \A j \in Slot : q.ids[j] # 0
    BY <2>1 DEF Active
  <2> QED
    BY <1>6, <1>7, <2>2
<1>8. CASE \E i \in Slot : q.ids[i] = id
             /\ u = [p |-> [q EXCEPT !.rates = [q.rates EXCEPT ![i] = mode]],
                     full |-> s.full]
  <2>1. PICK i \in Slot : u = [p |-> [q EXCEPT !.rates = [q.rates EXCEPT ![i] = mode]],
                               full |-> s.full]
    BY <1>8
  <2>2. /\ u.p = [q EXCEPT !.rates = [q.rates EXCEPT ![i] = mode]] /\ u.full = s.full
    BY <2>1
  <2> HIDE DEF u
  <2>3. u.p.ids = q.ids /\ u.p.timers = q.timers /\ u.p.count = q.count
    BY <1>1, <2>2 DEF Periodic
  <2> QED
    BY <1>6, <2>2, <2>3 DEF Grown, u
<1>9. ASSUME NEW i \in Slot, q.ids[i] = 0, \A j \in Slot : q.ids[j] # id,
             u = [p |-> [ids |-> [q.ids EXCEPT ![i] = id],
                         rates |-> [q.rates EXCEPT ![i] = mode],
                         timers |-> [q.timers EXCEPT ![i] = t],
                         count |-> (q.count + 1) % COUNT_MOD],
                  full |-> s.full]
      PROVE  Grown(p, u, t)
  <2>1. /\ u.p.ids = [q.ids EXCEPT ![i] = id] /\ u.p.timers = [q.timers EXCEPT ![i] = t]
        /\ u.p.count = (q.count + 1) % COUNT_MOD /\ u.full = s.full
    BY <1>9
  <2> HIDE DEF u
  <2>2. /\ u.p.ids[i] = id /\ u.p.timers[i] = t
        /\ \A j \in Slot : j # i => u.p.ids[j] = q.ids[j] /\ u.p.timers[j] = q.timers[j]
    BY <1>1, <2>1
  <2>3. Active(u.p) = Active(q) \cup {i} /\ i \notin Active(q)
    BY <1>9, <2>2 DEF Active
  <2>4. Cardinality(Active(u.p)) = q.count + 1
    BY <1>1, <1>3, <2>3, FS_AddElement, ZenonT(40)
  <2>5. Cardinality(Active(u.p)) \in 0 .. SLOTS
    BY ActiveSlots DEF Active
  <2>6. u.p.count = Cardinality(Active(u.p))
    BY <1>1, <1>3, <1>4, <2>1, <2>4, <2>5
  <2>7. \A k, j \in Slot : u.p.ids[k] = u.p.ids[j] /\ u.p.ids[k] # 0 => k = j
    BY <1>1, <1>9, <2>2 DEF SoundTable
  <2>8. SoundTable(u.p)
    BY <1>2, <2>6, <2>7 DEF SoundTable
  <2>9. \A j \in Slot : p.ids[j] # 0 =>
          j # i /\ u.p.ids[j] = p.ids[j] /\ u.p.timers[j] = p.timers[j]
    BY <1>9, <2>2 DEF Grown
  <2>10. \A j \in Slot : p.ids[j] = 0 /\ u.p.ids[j] # 0 => u.p.timers[j] = t
    BY <2>2 DEF Grown
  <2>11. ~u.full
    BY <1>9, <2>1 DEF Grown
  <2> QED
    BY <1>2, <2>8, <2>9, <2>10, <2>11 DEF Grown
<1>10. \/ u = s
       \/ \E i \in Slot : q.ids[i] = id
            /\ u = [p |-> [q EXCEPT !.rates = [q.rates EXCEPT ![i] = mode]],
                    full |-> s.full]
       \/ u = [p |-> q, full |-> TRUE] /\ q.count >= SLOTS
       \/ \E i \in Slot : q.ids[i] = 0 /\ (\A j \in Slot : q.ids[j] # id)
            /\ u = [p |-> [ids |-> [q.ids EXCEPT ![i] = id],
                           rates |-> [q.rates EXCEPT ![i] = mode],
                           timers |-> [q.timers EXCEPT ![i] = t],
                           count |-> (q.count + 1) % COUNT_MOD],
                    full |-> s.full]
  BY <1>1, AddOneCases
<1> HIDE DEF u
<1> QED
  BY <1>5, <1>7, <1>8, <1>9, <1>10

\* A 0x2A request that does not list identifier 0 keeps the table sound; what
\* stays active keeps its deadline, and what is new is due now.
LEMMA ReadSound ==
  ASSUME NEW p, SoundTable(p), NEW r \in Request, NEW t \in Time,
         \A i \in DOMAIN r.ids : r.ids[i] \in Byte \ {0}
  PROVE  LET q == handle_periodic_read(p, r, t)
         IN  /\ SoundTable(q)
             /\ \A j \in Slot : q.ids[j] # 0 =>
                  IF q.ids[j] = p.ids[j] THEN q.timers[j] = p.timers[j] ELSE q.timers[j] = t
             /\ Mode(r) \in 1 .. 3 => q = AddAll(p, r, t).p /\ Grown(p, AddAll(p, r, t), t)
<1> DEFINE q == handle_periodic_read(p, r, t)
<1>1. r.ids \in Seq(Nat) /\ p \in Periodic
  BY DEF Request, SoundTable
<1>2. CASE Mode(r) = STOP /\ r.len = 2
  <2> DEFINE ids == [j \in Slot |-> 0]
  <2>1. ids \in [Slot -> Byte] /\ 0 \in 0 .. COUNT_MOD - 1
    BY PeriodicAssumption DEF Byte
  <2>2. q = [p EXCEPT !.ids = ids, !.count = 0]
    BY <1>2 DEF handle_periodic_read, StopAll
  <2> HIDE DEF q
  <2>3. q.ids = ids /\ q.count = 0
    BY <1>1, <2>2 DEF Periodic
  <2>4. q \in Periodic
    <3> HIDE DEF ids
    <3> QED
      BY <1>1, <2>1, <2>2 DEF Periodic
  <2>5. Active(q) = {} /\ \A j \in Slot : q.ids[j] = 0
    BY <2>3 DEF Active
  <2>6. Cardinality(Active(q)) = 0
    BY <2>5, FS_EmptySet
  <2>7. SoundTable(q)
    BY <2>3, <2>4, <2>5, <2>6 DEF SoundTable
  <2>8. Mode(r) \notin 1 .. 3
    BY <1>2 DEF STOP
  <2> QED
    BY <2>5, <2>7, <2>8 DEF q
<1>3. CASE Mode(r) = STOP /\ r.len # 2
  <2> DEFINE Stopped(u) == /\ SoundTable(u) /\ u.timers = p.timers
                           /\ \A j \in Slot : u.ids[j] \in {0, p.ids[j]}
             S == {u \in Periodic : Stopped(u)}
  <2>1. p \in S
    BY <1>1
  <2>2. ASSUME NEW u \in S, NEW i \in DOMAIN r.ids PROVE StopOne(u, r.ids[i]) \in S
    <3>1. SoundTable(StopOne(u, r.ids[i])) /\ StopOne(u, r.ids[i]) \in Periodic
      BY StopOneSound DEF SoundTable
    <3>2. /\ StopOne(u, r.ids[i]).timers = u.timers
          /\ \A j \in Slot : StopOne(u, r.ids[i]).ids[j] \in {0, u.ids[j]}
      BY DEF StopOne, Periodic
    <3> QED
      BY <3>1, <3>2
  <2>3. StopListed(p, r.ids) \in S
    <3> HIDE DEF S
    <3> QED
      BY <1>1, <2>1, <2>2, StopLoop
  <2>4. q = StopListed(p, r.ids)
    BY <1>3 DEF handle_periodic_read
  <2>5. Mode(r) \notin 1 .. 3
    BY <1>3 DEF STOP
  <2> HIDE DEF q
  <2>6. Stopped(q)
    BY <2>3, <2>4
  <2>7. \A j \in Slot : q.ids[j] # 0 => q.ids[j] = p.ids[j] /\ q.timers[j] = p.timers[j]
    BY <2>6
  <2> QED
    BY <2>5, <2>6, <2>7 DEF q
<1>4. CASE Mode(r) # STOP /\ Mode(r) \in 1 .. 3
  <2> DEFINE S == {s \in Adding : Grown(p, s, t)}
             first == [p |-> p, full |-> FALSE]
  <2>1. first \in Adding /\ first.p = p /\ first.full = FALSE
    BY <1>1 DEF Adding
  <2>2. first \in S
    BY <2>1 DEF Grown
  <2>3. ASSUME NEW s \in S, NEW i \in DOMAIN r.ids
        PROVE  AddOne(s, r.ids[i], Mode(r), t) \in S
    <3>1. Grown(p, AddOne(s, r.ids[i], Mode(r), t), t)
      BY <1>4, AddOneGrows
    <3> QED
      BY <3>1 DEF Grown
  <2>4. AddAll(p, r, t) \in S
    <3> HIDE DEF S
    <3> QED
      BY <2>2, <2>3, AddLoop
  <2>5. q = AddAll(p, r, t).p
    BY <1>4 DEF handle_periodic_read
  <2> HIDE DEF q
  <2>6. \A j \in Slot : q.ids[j] # 0 =>
          IF q.ids[j] = p.ids[j] THEN q.timers[j] = p.timers[j] ELSE q.timers[j] = t
    BY <2>4, <2>5 DEF Grown
  <2> QED
    BY <2>4, <2>5, <2>6 DEF Grown, q
<1>5. CASE Mode(r) # STOP /\ Mode(r) \notin 1 .. 3
  <2>1. q = p
    BY <1>5 DEF handle_periodic_read
  <2> QED
    BY <1>5, <2>1
<1> QED
  BY <1>2, <1>3, <1>4, <1>5

\* The scheduler keeps the types and touches deadlines only.
LEMMA ScheduleKeeps ==
  ASSUME NEW p \in Periodic, NEW t \in Time
  PROVE  LET q == schedule(p, t)
         IN  /\ q \in Periodic /\ q.ids = p.ids /\ q.count = p.count
             /\ SoundTable(p) => SoundTable(q)
             /\ \A j \in Slot :
                  q.timers[j] = IF j \in Due(p, t)
                                THEN (t + IntervalOf(p.rates[j])) % TIME_MOD
                                ELSE p.timers[j]
<1> DEFINE q == schedule(p, t)
           timers == [j \in Slot |-> IF j \in Due(p, t)
                                     THEN (t + IntervalOf(p.rates[j])) % TIME_MOD
                                     ELSE p.timers[j]]
<1>1. q = [p EXCEPT !.timers = timers]
  BY DEF schedule
<1>2. timers \in [Slot -> Time]
  <2> SUFFICES ASSUME NEW j \in Slot
               PROVE  (t + IntervalOf(p.rates[j])) % TIME_MOD \in Time /\ p.timers[j] \in Time
    OBVIOUS
  <2>1. p.timers[j] \in Time
    BY DEF Periodic
  <2>2. IntervalOf(p.rates[j]) \in Nat
    BY PeriodicAssumption DEF IntervalOf
  <2>3. t \in Nat /\ TIME_MOD \in Nat \ {0}
    BY TimingAssumption DEF Time
  <2> QED
    BY <2>1, <2>2, <2>3 DEF Time
<1> HIDE DEF timers, q
<1>3. q \in Periodic /\ q.ids = p.ids /\ q.count = p.count /\ q.timers = timers
  BY <1>1, <1>2 DEF Periodic
<1>4. Active(q) = Active(p)
  BY <1>3 DEF Active
<1>5. SoundTable(p) => SoundTable(q)
  BY <1>3, <1>4 DEF SoundTable
<1> QED
  BY <1>3, <1>5 DEF q, timers

-----------------------------------------------------------------------------
(* Types, count and identifiers *)

\* No request lists identifier 0, which stands for a free slot: stopping it
\* would count down for every free slot (uds_service_data.c:163).
ListsNoZero ==
  \A r \in Requests : r.sid = READ_BY_PER_ID =>
    \A i \in DOMAIN r.ids : r.ids[i] \in Byte \ {0}

\* The steps, told apart by what they do to the table.
LEMMA TableSteps ==
  ASSUME IInv, [Next]_vars
  PROVE  \/ \E r \in Requests, a \in Answers :
              RunsPeriodic(ctx, r, a) /\ InputSdu(r, a) /\ ptx' = {}
                /\ per' = handle_periodic_read(per, r, now)
         \/ \E has \in BOOLEAN :
              /\ Process(has) /\ ~SkipsScheduler(ctx, now)
              /\ per' = schedule(per, now) /\ ptx' = periodic_tx(per, has, now)
         \/ per' = per /\ (ptx' = {} \/ ptx' = ptx)
         \/ per' = NoPeriodic /\ ptx' = {}
<1>1. ASSUME NEW r \in Requests, NEW a \in Answers, InputSdu(r, a)
      PROVE  /\ ptx' = {}
             /\ \/ RunsPeriodic(ctx, r, a) /\ per' = handle_periodic_read(per, r, now)
                \/ per' = per
  BY <1>1 DEF InputSdu
<1>2. ASSUME NEW has \in BOOLEAN, Process(has)
      PROVE  \/ /\ ~SkipsScheduler(ctx, now)
                /\ per' = schedule(per, now) /\ ptx' = periodic_tx(per, has, now)
             \/ per' = per /\ ptx' = {}
  BY <1>2 DEF Process
<1>3. ASSUME NEW sid, NEW len, AppRespond(sid, len) PROVE per' = per /\ ptx' = {}
  BY <1>3 DEF AppRespond
<1>4. ASSUME NEW sid, AppReject(sid) PROVE per' = per /\ ptx' = {}
  BY <1>4 DEF AppReject
<1>5. ASSUME NEW sid, ClientRequest(sid) PROVE per' = per /\ ptx' = {}
  BY <1>5 DEF ClientRequest
<1>6. CASE Restart
  BY <1>6 DEF Restart
<1>7. CASE Tick
  BY <1>7 DEF Tick
<1>8. CASE UNCHANGED vars
  BY <1>8 DEF vars
<1> QED
  BY <1>1, <1>2, <1>3, <1>4, <1>5, <1>6, <1>7, <1>8 DEF Next

\* The table that uds_init leaves.
LEMMA EmptyTable == SoundTable(NoPeriodic)
<1> DEFINE zeros == [j \in Slot |-> 0]
<1>1. /\ 0 \in Byte /\ 0 \in 0 .. 3 /\ 0 \in Time /\ 0 \in 0 .. COUNT_MOD - 1
  BY TimingAssumption, PeriodicAssumption DEF Byte, Time
<1>2. /\ zeros \in [Slot -> Byte] /\ zeros \in [Slot -> 0 .. 3] /\ zeros \in [Slot -> Time]
      /\ \A j \in Slot : zeros[j] = 0
  BY <1>1
<1>3. NoPeriodic = [ids |-> zeros, rates |-> zeros, timers |-> zeros, count |-> 0]
  BY DEF NoPeriodic
<1> HIDE DEF zeros
<1>4. NoPeriodic \in Periodic /\ NoPeriodic.ids = zeros /\ NoPeriodic.count = 0
  BY <1>1, <1>2, <1>3 DEF Periodic
<1>5. Active(NoPeriodic) = {}
  BY <1>2, <1>4 DEF Active
<1>6. Cardinality(Active(NoPeriodic)) = 0
  BY <1>5, FS_EmptySet
<1> QED
  BY <1>2, <1>4, <1>6 DEF SoundTable

\* Without identifier 0 every step keeps the table sound.
LEMMA SoundStep ==
  ASSUME ListsNoZero, IInv, SoundTable(per), [Next]_vars
  PROVE  SoundTable(per)'
<1>1. per \in Periodic /\ now \in Time
  BY DEF SoundTable, IInv, TypeOK
<1>2. SoundTable(per)' <=> SoundTable(per')
  BY DEF SoundTable, Active
<1>3. ASSUME NEW r \in Requests, NEW a \in Answers, RunsPeriodic(ctx, r, a)
      PROVE  SoundTable(handle_periodic_read(per, r, now))
  <2>1. r \in Request /\ \A i \in DOMAIN r.ids : r.ids[i] \in Byte \ {0}
    BY <1>3, EnvironmentAssumption DEF RunsPeriodic, ListsNoZero
  <2> QED
    BY <1>1, <2>1, ReadSound
<1>4. SoundTable(schedule(per, now))
  BY <1>1, ScheduleKeeps
<1> QED
  BY <1>2, <1>3, <1>4, EmptyTable, TableSteps

\* Sound tables only.
LEMMA TableSound == ListsNoZero => (Spec => []SoundTable(per))
<1> SUFFICES ASSUME ListsNoZero PROVE Spec => []SoundTable(per)
  OBVIOUS
<1>1. Init => SoundTable(per)
  BY EmptyTable DEF Init
<1>2. IInv /\ SoundTable(per) /\ [Next]_vars => SoundTable(per)'
  BY SoundStep
<1> QED
  BY <1>1, <1>2, Invariance, PTL DEF Spec

\* periodic_count is the number of active identifiers after every sequence of
\* add, stop and stop-all requests, with repeated and unknown identifiers and
\* with lists that overflow the table (handle_periodic_read).
THEOREM CountsMatch == ListsNoZero => (Spec => []CountMatches)
<1> SUFFICES ASSUME ListsNoZero PROVE Spec => []CountMatches
  OBVIOUS
<1>1. SoundTable(per) => CountMatches
  BY DEF SoundTable, CountMatches, Active
<1> QED
  BY <1>1, TableSound, PTL

\* No such sequence schedules an identifier twice.
THEOREM IdsAreDistinct == ListsNoZero => (Spec => []NoDuplicateIds)
<1> SUFFICES ASSUME ListsNoZero PROVE Spec => []NoDuplicateIds
  OBVIOUS
<1>1. SoundTable(per) => NoDuplicateIds
  BY DEF SoundTable, NoDuplicateIds
<1> QED
  BY <1>1, TableSound, PTL

\* 0x14 is sent when the loop has found the table full, and only then.
LEMMA TooLongIsFull ==
  ASSUME NEW c \in Ctx, NEW p, NEW r \in Request, NEW a \in Answer, NEW t \in Time,
         RunsPeriodic(c, r, a),
         HasSent(uds_input_sdu(c, p, r, a, t).out, READ_BY_PER_ID, RESPONSE_TOO_LONG)
  PROVE  AddAll(p, r, t).full
<1> DEFINE d == [[c EXCEPT !.last_msg_time = t] EXCEPT
                   !.p2_timer_start = t, !.p2_msg_pending = FALSE,
                   !.p2_star_active = FALSE, !.rcrrp_count = 0]
           e == find_service(r.sid)
           f == LatchSuppress(d, e, r)
           o == handle_periodic(f, p, r, t)
<1>1. /\ r.sid = READ_BY_PER_ID /\ r.len >= 2 /\ r.len # 0 /\ ~c.p2_msg_pending
      /\ ~IsResponse(c, r) /\ ~e.user /\ Gate(c, e, r, a) = 0
  BY DEF RunsPeriodic
<1>2. uds_input_sdu(c, p, r, a, t) = handle_request(d, p, r, a, t)
  BY <1>1 DEF uds_input_sdu
<1>3. d.active_session = c.active_session /\ d.security_level = c.security_level
  BY DEF Ctx
<1> HIDE DEF d
<1>4. Gate(d, e, r, a) = 0
  BY <1>1, <1>3 DEF Gate, is_session_supported
<1>5. Known(r.sid)
  <2>1. CoreService(READ_BY_PER_ID, 2, 1 .. 4) \in core_services
    BY DEF core_services
  <2>2. CoreService(READ_BY_PER_ID, 2, 1 .. 4).sid = READ_BY_PER_ID
    BY DEF CoreService
  <2> QED
    BY <1>1, <2>1, <2>2 DEF Known
<1> HIDE DEF e
<1>6. handle_request(d, p, r, a, t) = execute_handler(e, f, p, r, a, t)
  BY <1>4, <1>5 DEF handle_request, e
<1> HIDE DEF f
<1>7. core_handler(f, p, r, a, t) = o
  BY <1>1 DEF core_handler, SESSION_CONTROL, ECU_RESET, CLEAR_DTC, READ_DTC_INFO,
      READ_DATA_BY_ID, READ_MEM_BY_ADDR, SECURITY_ACCESS, COMM_CONTROL, AUTHENTICATION,
      READ_BY_PER_ID, WRITE_DATA_BY_ID, IO_CONTROL_BY_ID, ROUTINE_CONTROL,
      REQUEST_DOWNLOAD, REQUEST_UPLOAD, TRANSFER_DATA, TRANSFER_EXIT,
      WRITE_MEM_BY_ADDR, TESTER_PRESENT, CONTROL_DTC_SETTING
<1>8. o.ret = "done"
  BY DEF handle_periodic, uds_send_nrc, uds_send_response, Outcome
<1> HIDE DEF o
<1>9. execute_handler(e, f, p, r, a, t) = o
  BY <1>1, <1>7, <1>8 DEF execute_handler
<1>10. HasSent(o.out, READ_BY_PER_ID, RESPONSE_TOO_LONG)
  BY <1>2, <1>6, <1>9
<1>11. ~HasSent(uds_send_nrc(f, READ_BY_PER_ID, INCORRECT_LENGTH).out, READ_BY_PER_ID,
                RESPONSE_TOO_LONG)
  BY NrcSaid DEF INCORRECT_LENGTH, RESPONSE_TOO_LONG
<1>12. ~HasSent(uds_send_response(f, READ_BY_PER_ID, 1).out, READ_BY_PER_ID,
                RESPONSE_TOO_LONG)
  <2>1. uds_send_response(f, READ_BY_PER_ID, 1).out \in {<<>>, <<Pos(READ_BY_PER_ID)>>}
    BY DEF uds_send_response, Outcome
  <2>2. Pos(READ_BY_PER_ID) # Neg(READ_BY_PER_ID, RESPONSE_TOO_LONG)
    BY DEF Pos, Neg
  <2>3. \A i \in DOMAIN <<Pos(READ_BY_PER_ID)>> :
          <<Pos(READ_BY_PER_ID)>>[i] = Pos(READ_BY_PER_ID)
    OBVIOUS
  <2> QED
    BY <2>1, <2>2, <2>3 DEF HasSent
<1>13. /\ o = uds_send_nrc(f, READ_BY_PER_ID, PeriodicNrc(p, r, t))
       /\ PeriodicNrc(p, r, t) # 0
  BY <1>1, <1>10, <1>11, <1>12 DEF o, handle_periodic
<1>14. PeriodicNrc(p, r, t) = RESPONSE_TOO_LONG
  BY <1>10, <1>13, NrcSaid
<1> QED
  BY <1>14 DEF PeriodicNrc, RESPONSE_TOO_LONG, REQUEST_OUT_OF_RANGE

\* A request that adds identifiers displaces none, at whatever point of its
\* list the table fills up, and 0x14 means that it did (handle_periodic_read).
THEOREM AddsDisplaceNothing == ListsNoZero => (Spec => AddDisplacesNothing)
<1> SUFFICES ASSUME ListsNoZero PROVE Spec => AddDisplacesNothing
  OBVIOUS
<1> DEFINE Step ==
      \A r \in Requests, a \in Answers :
        RunsPeriodic(ctx, r, a) /\ Mode(r) \in 1 .. 3 /\ InputSdu(r, a) =>
          /\ \A j \in Slot : per.ids[j] # 0 =>
               per'.ids[j] = per.ids[j] /\ per'.timers[j] = per.timers[j]
          /\ HasSent(out', READ_BY_PER_ID, RESPONSE_TOO_LONG) =>
               \A j \in Slot : per'.ids[j] # 0
<1>1. IInv /\ SoundTable(per) => Step
  <2> SUFFICES ASSUME IInv, SoundTable(per), NEW r \in Requests, NEW a \in Answers,
                      RunsPeriodic(ctx, r, a), Mode(r) \in 1 .. 3, InputSdu(r, a)
               PROVE  /\ \A j \in Slot : per.ids[j] # 0 =>
                           per'.ids[j] = per.ids[j] /\ per'.timers[j] = per.timers[j]
                      /\ HasSent(out', READ_BY_PER_ID, RESPONSE_TOO_LONG) =>
                           \A j \in Slot : per'.ids[j] # 0
    OBVIOUS
  <2>1. r \in Request /\ a \in Answer /\ \A i \in DOMAIN r.ids : r.ids[i] \in Byte \ {0}
    BY EnvironmentAssumption DEF RunsPeriodic, ListsNoZero
  <2>2. ctx \in Ctx /\ now \in Time
    BY DEF IInv, TypeOK
  <2> DEFINE s == AddAll(per, r, now)
  <2>3. per' = handle_periodic_read(per, r, now) /\ out' = uds_input_sdu(ctx, per, r, a, now).out
    BY DEF InputSdu
  <2>4. per' = s.p /\ Grown(per, s, now)
    BY <2>1, <2>2, <2>3, ReadSound
  <2>5. HasSent(out', READ_BY_PER_ID, RESPONSE_TOO_LONG) => s.full
    BY <2>1, <2>2, <2>3, TooLongIsFull
  <2> HIDE DEF s
  <2> QED
    BY <2>4, <2>5 DEF Grown
<1>2. IInv /\ SoundTable(per) /\ [Next]_vars => [Step]_vars
  BY <1>1
<1>3. [][Step]_vars => AddDisplacesNothing
  BY DEF AddDisplacesNothing
<1> QED
  BY <1>2, <1>3, Invariance, TableSound, PTL DEF Spec

-----------------------------------------------------------------------------
(* The scheduler *)

\* The slow rate is the slowest, and the clock does not wrap: deadlines are
\* absolute times, and one from before the wrap would wait for a whole period
\* of the counter (uds_core.c:337).
RatesFit ==
  ~WRAP /\ Interval[1] <= Interval[3] /\ Interval[2] <= Interval[3]

\* The next call of uds_process may be the one that gives up on a request and
\* returns before the scheduler.
GivesUpNext(c) == c.p2_msg_pending /\ RcrrpExhausted(c)

\* Why slots are served in time: a deadline lies no further than the slowest
\* interval after the slot was armed or served; and a slot has waited for that
\* interval and the lag -- plus one more lap, if a call that gave up has just
\* passed it over.  After such a call the count of repetitions starts again, so
\* that two of them never follow each other without a round of the scheduler.
GapInv ==
  \A j \in Slot :
    /\ per.ids[j] = 0 => hist.gap[j] = 0
    /\ per.ids[j] # 0 =>
         /\ per.timers[j] + hist.gap[j] <= now + Interval[3]
         /\ hist.gap[j] <= Interval[3] + lag + (IF GivesUpNext(ctx) THEN 0 ELSE MAX_LAG)

\* Calls that do not run the scheduler leave its history alone.
LEMMA ObserveGap ==
  ASSUME NEW h \in HistType, NEW before, NEW c, NEW events
  PROVE  Observe(h, before, c, events).gap = h.gap
BY DEF Observe, HistType

\* A call that gives up starts the count again.
LEMMA GivenUp ==
  ASSUME NEW c \in Ctx, NEW t \in Time, SkipsScheduler(c, t)
  PROVE  ~GivesUpNext(uds_process(c, t).ctx)
<1> DEFINE d == revert_session(c, t)
           x == uds_send_nrc(d, d.pending_sid, CONDITIONS_NOT_CORRECT)
<1>1. d \in {c, [c EXCEPT !.active_session = DEFAULT, !.security_level = 0]}
  BY DEF revert_session
<1>2. /\ d \in Ctx /\ d.p2_msg_pending = c.p2_msg_pending
      /\ d.p2_timer_start = c.p2_timer_start /\ d.p2_star_active = c.p2_star_active
      /\ d.rcrrp_count = c.rcrrp_count /\ d.pending_sid \in Byte
  <2>1. DEFAULT \in Sessions /\ 0 \in 0 .. 63
    BY DEF DEFAULT, Sessions
  <2> HIDE DEF d
  <2> QED
    BY <1>1, <2>1 DEF Ctx
<1> HIDE DEF d
<1>3. P2Expired(d, t) /\ RcrrpExhausted(d)
  BY <1>2 DEF SkipsScheduler, P2Expired, RcrrpExhausted
<1>4. uds_process(c, t) = abort_pending(d)
  BY <1>3 DEF uds_process, d
<1>5. x \in OutcomeType
  BY <1>2, QuietNrc, Codes DEF Quiet, Calm
<1>6. abort_pending(d) = [x EXCEPT !.ctx = [x.ctx EXCEPT !.rcrrp_count = 0]]
  BY DEF abort_pending
<1> HIDE DEF x
<1>7. abort_pending(d).ctx.rcrrp_count = 0
  BY <1>5, <1>6 DEF OutcomeType, Ctx
<1>8. RCRRP_LIMIT \in Nat
  BY TimingAssumption
<1> QED
  BY <1>4, <1>7, <1>8 DEF GivesUpNext, RcrrpExhausted

\* Every step keeps it.
LEMMA GapStep ==
  ASSUME ListsNoZero, RatesFit, IInv, SoundTable(per), GapInv, [Next]_vars
  PROVE  GapInv'
<1>1. /\ ctx \in Ctx /\ now \in Time /\ now \in Nat /\ lag \in 0 .. MAX_LAG
      /\ hist \in HistType /\ per \in Periodic
      /\ hist.gap \in [Slot -> Nat] /\ per.timers \in [Slot -> Time]
  BY DEF IInv, TypeOK, SoundTable, Periodic, HistType, Time
<1>2. /\ Interval[3] \in Nat /\ MAX_LAG \in Nat /\ TIME_MOD \in Nat \ {0}
      /\ RCRRP_LIMIT \in Nat /\ SEC_DELAY \in Nat
  BY PeriodicAssumption, EnvironmentAssumption, TimingAssumption
<1>3. \A j \in Slot : per.timers[j] \in Nat /\ hist.gap[j] \in Nat
  BY <1>1 DEF Time
<1>4. ASSUME per' = per, hist'.gap = hist.gap, now' = now, lag' = lag,
             GivesUpNext(ctx') => GivesUpNext(ctx)
      PROVE  GapInv'
  BY <1>1, <1>2, <1>3, <1>4 DEF GapInv, GivesUpNext, RcrrpExhausted
<1>5. ASSUME Aside PROVE GivesUpNext(ctx') => GivesUpNext(ctx)
  BY <1>5 DEF Aside, GivesUpNext, RcrrpExhausted
<1>6. ASSUME NEW r \in Requests, NEW a \in Answers, InputSdu(r, a)
      PROVE  GapInv'
  <2> DEFINE o == uds_input_sdu(ctx, per, r, a, now)
             h == Observe(hist, ctx, o.ctx, o.out)
             gap == [j \in Slot |-> IF per'.ids[j] = 0 \/ per'.ids[j] # per.ids[j]
                                    THEN 0 ELSE h.gap[j]]
  <2>1. r \in Request /\ a \in Answer /\ o.ctx \in Ctx /\ o.out \in Seq(Event)
    BY <1>1, EnvironmentAssumption, SafeInput DEF Safe, OutcomeType
  <2>2. h \in HistType /\ h.gap = hist.gap
    BY <1>1, <2>1, ObserveType, ObserveGap
  <2>3. hist'.gap = gap /\ now' = now /\ lag' = lag
    BY <1>6 DEF InputSdu
  <2>4. \A j \in Slot : hist'.gap[j] =
          IF per'.ids[j] = 0 \/ per'.ids[j] # per.ids[j] THEN 0 ELSE hist.gap[j]
    BY <2>2, <2>3
  <2> HIDE DEF h, gap
  <2>5. GivesUpNext(ctx') => GivesUpNext(ctx)
    <3>1. ctx' = o.ctx /\ Timely(ctx, r, now, o)
      BY <1>6, InputFacts
    <3> HIDE DEF o
    <3> QED
      BY <1>2, <3>1 DEF Timely, GivesUpNext, RcrrpExhausted
  <2>6. \A j \in Slot : per'.ids[j] # 0 =>
          IF per'.ids[j] = per.ids[j] THEN per'.timers[j] = per.timers[j]
                                      ELSE per'.timers[j] = now
    <3>1. CASE RunsPeriodic(ctx, r, a)
      <4>1. \A i \in DOMAIN r.ids : r.ids[i] \in Byte \ {0}
        BY <3>1 DEF RunsPeriodic, ListsNoZero
      <4>2. per' = handle_periodic_read(per, r, now)
        BY <1>6, <3>1 DEF InputSdu
      <4> QED
        BY <1>1, <2>1, <4>1, <4>2, ReadSound
    <3>2. CASE ~RunsPeriodic(ctx, r, a)
      <4>1. per' = per
        BY <1>6, <3>2 DEF InputSdu
      <4> QED
        BY <4>1
    <3> QED
      BY <3>1, <3>2
  <2> HIDE DEF o
  <2>7. ASSUME NEW j \in Slot, per'.ids[j] # 0, per'.ids[j] = per.ids[j]
        PROVE  /\ per'.timers[j] + hist'.gap[j] <= now' + Interval[3]
               /\ hist'.gap[j] <= Interval[3] + lag' + (IF GivesUpNext(ctx') THEN 0 ELSE MAX_LAG)
    <3>1. per'.timers[j] = per.timers[j] /\ hist'.gap[j] = hist.gap[j]
      BY <2>4, <2>6, <2>7
    <3>2. /\ per.timers[j] + hist.gap[j] <= now + Interval[3]
          /\ hist.gap[j] <= Interval[3] + lag + (IF GivesUpNext(ctx) THEN 0 ELSE MAX_LAG)
      BY <2>7 DEF GapInv
    <3> QED
      BY <1>1, <1>2, <1>3, <2>3, <2>5, <3>1, <3>2
  <2>8. ASSUME NEW j \in Slot, per'.ids[j] # 0, per'.ids[j] # per.ids[j]
        PROVE  /\ per'.timers[j] + hist'.gap[j] <= now' + Interval[3]
               /\ hist'.gap[j] <= Interval[3] + lag' + (IF GivesUpNext(ctx') THEN 0 ELSE MAX_LAG)
    BY <1>1, <1>2, <2>3, <2>4, <2>6, <2>8
  <2> QED
    BY <2>4, <2>7, <2>8 DEF GapInv, GivesUpNext, RcrrpExhausted
<1>7. ASSUME NEW has \in BOOLEAN, Process(has)
      PROVE  GapInv'
  <2> DEFINE o == uds_process(ctx, now)
             h == Observe(hist, ctx, o.ctx, o.out)
             gap == [j \in Slot |-> IF j \in Due(per, now) /\ ~SkipsScheduler(ctx, now)
                                    THEN 0 ELSE h.gap[j]]
  <2>1. hist'.gap = gap /\ h.gap = hist.gap
    <3>1. hist' = [h EXCEPT !.gap = gap]
      BY <1>7 DEF Process
    <3>2. h = [hist EXCEPT !.idle = h.idle, !.quiet = h.quiet, !.n78 = h.n78,
                           !.lock = h.lock, !.asked = h.asked, !.sid = h.sid, !.due = h.due]
      BY <1>1 DEF Observe, HistType
    <3> HIDE DEF h, gap
    <3>3. DOMAIN h = DOMAIN hist
      BY <3>2
    <3>4. "gap" \in DOMAIN h
      BY <1>1, <3>3 DEF HistType
    <3>5. h.gap = hist.gap
      BY <1>1, ObserveGap DEF h
    <3> QED
      BY <3>1, <3>4, <3>5
  <2>2. \A j \in Slot : hist'.gap[j] =
          IF j \in Due(per, now) /\ ~SkipsScheduler(ctx, now) THEN 0 ELSE hist.gap[j]
    BY <2>1
  <2>3. ctx' = o.ctx /\ now' = now /\ lag' = 0
    BY <1>7 DEF Process
  <2> HIDE DEF h, gap
  <2>4. CASE SkipsScheduler(ctx, now)
    <3>1. per' = per
      BY <1>7, <2>4 DEF Process
    <3>2. ~GivesUpNext(ctx')
      BY <1>1, <2>3, <2>4, GivenUp
    <3>3. GivesUpNext(ctx)
      BY <2>4 DEF SkipsScheduler, P2Expired, GivesUpNext
    <3>4. \A j \in Slot : hist'.gap[j] = hist.gap[j]
      BY <2>2, <2>4
    <3>5. ASSUME NEW j \in Slot, per.ids[j] # 0
          PROVE  /\ per.timers[j] + hist.gap[j] <= now + Interval[3]
                 /\ hist.gap[j] <= Interval[3] + 0 + MAX_LAG
      <4>1. /\ per.timers[j] + hist.gap[j] <= now + Interval[3]
            /\ hist.gap[j] <= Interval[3] + lag + 0
        BY <3>3, <3>5 DEF GapInv
      <4> QED
        BY <1>1, <1>2, <1>3, <4>1
    <3> HIDE DEF o
    <3> QED
      BY <2>3, <3>1, <3>2, <3>4, <3>5 DEF GapInv, GivesUpNext, RcrrpExhausted
  <2>5. CASE ~SkipsScheduler(ctx, now)
    <3>1. per' = schedule(per, now)
      BY <1>7, <2>5 DEF Process
    <3>2. /\ per'.ids = per.ids
          /\ \A j \in Slot : per'.timers[j] =
               IF j \in Due(per, now) THEN (now + IntervalOf(per.rates[j])) % TIME_MOD
               ELSE per.timers[j]
      BY <1>1, <3>1, ScheduleKeeps
    <3>3. ASSUME NEW j \in Slot, per.ids[j] # 0
          PROVE  /\ per'.timers[j] + hist'.gap[j] <= now + Interval[3]
                 /\ hist'.gap[j] <= Interval[3]
      <4>1. per.count > 0
        <5>1. j \in Active(per) /\ IsFiniteSet(Active(per))
          BY <3>3, ActiveSlots DEF Active
        <5>2. Cardinality(Active(per)) # 0
          BY <5>1, FS_EmptySet
        <5>3. per.count = Cardinality(Active(per)) /\ per.count \in Nat
          BY <1>1 DEF SoundTable, Periodic
        <5> QED
          BY <5>2, <5>3
      <4>2. CASE j \in Due(per, now)
        <5> DEFINE i == IntervalOf(per.rates[j])
        <5>1. i \in Nat /\ i <= Interval[3]
          BY PeriodicAssumption DEF IntervalOf, RatesFit
        <5>2. per'.timers[j] = (now + i) % TIME_MOD /\ hist'.gap[j] = 0
          BY <2>2, <2>5, <3>2, <4>2
        <5> HIDE DEF i
        <5>3. (now + i) % TIME_MOD <= now + i /\ (now + i) % TIME_MOD \in Nat
          <6>1. \A n \in Nat, m \in Nat \ {0} : n % m <= n /\ n % m \in Nat
            OBVIOUS
          <6>2. now + i \in Nat
            BY <1>1, <5>1
          <6> QED
            BY <1>2, <6>1, <6>2
        <5> QED
          BY <1>1, <1>2, <5>1, <5>2, <5>3
      <4>3. CASE j \notin Due(per, now)
        <5>1. now < per.timers[j]
          BY <1>1, <1>3, <3>3, <4>1, <4>3 DEF Due
        <5>2. per.timers[j] + hist.gap[j] <= now + Interval[3]
          BY <3>3 DEF GapInv
        <5>3. per'.timers[j] = per.timers[j] /\ hist'.gap[j] = hist.gap[j]
          BY <2>2, <3>2, <4>3
        <5> QED
          BY <1>1, <1>2, <1>3, <5>1, <5>2, <5>3
      <4> QED
        BY <4>2, <4>3
    <3>4. ASSUME NEW j \in Slot, per.ids[j] = 0 PROVE hist'.gap[j] = 0
      BY <2>2, <3>4 DEF GapInv
    <3>5. \A j \in Slot : hist'.gap[j] \in Nat
      BY <1>3, <2>2
    <3> HIDE DEF o
    <3> QED
      BY <1>2, <2>3, <3>2, <3>3, <3>4, <3>5 DEF GapInv, GivesUpNext, RcrrpExhausted
  <2> QED
    BY <2>4, <2>5
<1>8. ASSUME NEW sid \in jobs,
             AppReject(sid) \/ \E len \in {2, TX_SIZE + 1} : AppRespond(sid, len)
      PROVE  GapInv'
  <2>1. Aside
    BY <1>8, AnswerFacts
  <2>2. per' = per /\ now' = now /\ lag' = lag /\ hist'.gap = hist.gap
    BY <1>1, <1>8, ObserveGap DEF AppReject, AppRespond
  <2> QED
    BY <1>4, <1>5, <2>1, <2>2
<1>9. ASSUME NEW sid \in ClientSids, ClientRequest(sid)
      PROVE  GapInv'
  <2>1. Aside
    BY <1>9, AskFacts
  <2>2. per' = per /\ now' = now /\ lag' = lag /\ hist'.gap = hist.gap
    BY <1>1, <1>9, ObserveGap DEF ClientRequest
  <2> QED
    BY <1>4, <1>5, <2>1, <2>2
<1>10. CASE Restart
  <2>1. per' = NoPeriodic /\ hist'.gap = NoHistory.gap
    BY <1>10 DEF Restart, NoHistory
  <2>2. \A j \in Slot : per'.ids[j] = 0 /\ hist'.gap[j] = 0
    BY <2>1 DEF NoPeriodic, NoHistory
  <2> QED
    BY <2>2 DEF GapInv
<1>11. CASE Tick
  <2> DEFINE gap == [j \in Slot |-> IF per.ids[j] = 0 THEN 0
                                    ELSE Capped(hist.gap[j] + 1, MaxGap + 1)]
  <2>1. /\ ctx' = ctx /\ now' = (now + 1) % TIME_MOD /\ lag' = lag + 1
        /\ now + 1 + SEC_DELAY < TIME_MOD
    BY <1>11, TickFacts DEF RatesFit
  <2>2. per' = per /\ hist'.gap = gap
    BY <1>1, <1>11 DEF Tick, HistType
  <2>3. now' = now + 1
    BY <1>1, <1>2, <2>1
  <2>4. MaxGap \in Nat
    BY <1>2 DEF MaxGap
  <2>5. \A j \in Slot : hist'.gap[j] \in Nat /\ hist'.gap[j] <= hist.gap[j] + 1
    BY <1>3, <2>2, <2>4 DEF Capped
  <2>6. \A j \in Slot : per.ids[j] = 0 => hist'.gap[j] = 0
    BY <2>2
  <2> HIDE DEF gap
  <2>7. ASSUME NEW j \in Slot, per.ids[j] # 0
        PROVE  /\ per.timers[j] + hist'.gap[j] <= now' + Interval[3]
               /\ hist'.gap[j] <= Interval[3] + lag' + (IF GivesUpNext(ctx) THEN 0 ELSE MAX_LAG)
    <3>1. /\ per.timers[j] + hist.gap[j] <= now + Interval[3]
          /\ hist.gap[j] <= Interval[3] + lag + (IF GivesUpNext(ctx) THEN 0 ELSE MAX_LAG)
      BY <2>7 DEF GapInv
    <3> QED
      BY <1>1, <1>2, <1>3, <2>1, <2>3, <2>5, <3>1
  <2> QED
    BY <2>1, <2>2, <2>6, <2>7 DEF GapInv, GivesUpNext, RcrrpExhausted
<1>12. CASE UNCHANGED vars
  BY <1>4, <1>12 DEF vars
<1> QED
  BY <1>6, <1>7, <1>8, <1>9, <1>10, <1>11, <1>12 DEF Next

\* An active identifier is served within the slowest interval and two laps of
\* the main loop, although one call of uds_process may return before the
\* scheduler: it cannot happen twice in a row (uds_process).
THEOREM PeriodicInTime ==
  ListsNoZero /\ RatesFit => (Spec => []PeriodicOnTime)
<1> SUFFICES ASSUME ListsNoZero, RatesFit PROVE Spec => []PeriodicOnTime
  OBVIOUS
<1>1. Init => GapInv
  BY DEF Init, GapInv, NoPeriodic, NoHistory
<1>2. IInv /\ SoundTable(per) /\ GapInv /\ [Next]_vars => GapInv'
  BY GapStep
<1>3. IInv /\ GapInv => PeriodicOnTime
  <2> SUFFICES ASSUME IInv, GapInv, NEW j \in Slot PROVE hist.gap[j] <= MaxGap
    BY DEF PeriodicOnTime
  <2>1. /\ Interval[3] \in Nat /\ MAX_LAG \in Nat /\ lag \in 0 .. MAX_LAG
        /\ hist.gap[j] \in Nat
    BY PeriodicAssumption, EnvironmentAssumption DEF IInv, TypeOK, HistType
  <2>2. \/ hist.gap[j] = 0
        \/ hist.gap[j] <= Interval[3] + lag + 0
        \/ hist.gap[j] <= Interval[3] + lag + MAX_LAG
    BY DEF GapInv
  <2> QED
    BY <2>1, <2>2 DEF MaxGap
<1> QED
  BY <1>1, <1>2, <1>3, Invariance, TableSound, PTL DEF Spec

=============================================================================
