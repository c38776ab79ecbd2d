------------------------------ MODULE MacroProofs ------------------------------
(* The macros of a window keep their secrets, and a command that waits for its *)
(* dialog changes the macro it was opened for: MacroStore, for any number of   *)
(* macros, ids, commands, failures and crashes.                                *)
(*                                                                             *)
(* The invariant looks at one macro (soul) that is neither dropped nor excused,*)
(* and says of each place that holds a list (the disk, the list shown, the     *)
(* list being written, the lists waiting to be) what it has of that macro.     *)
EXTENDS MacroStore, FiniteSetTheorems, SequenceTheorems, TLAPS

------------------------------------------------------------------------------
(* Types *)

Lists == Seq(MacroRecords)
Kinds == {"none", "write", "clear", "sweep", "known", "absorb"}
Calls == [kind : {"save", "clear"}, list : Lists]
Jobs == [kind : Kinds, stores : SUBSET Nat, disk : Lists, committed : BOOLEAN,
         deletes : SUBSET Ids, list : Lists]
Refs == [id : 0..MaxIds, index : Nat, when : {"absent", "unique", "ambiguous"}]
Prompts == [op : {"none", "remove", "paste", "form"}, soul : 0..MaxSouls, sole : BOOLEAN, ref : Refs]
Mems == [list : Lists, unresolved : SUBSET Ids]
Counts == [souls : Nat, ids : 0..MaxIds, edits : Nat, outages : Nat, legacy : BOOLEAN]
NoMem == [list |-> <<>>, unresolved |-> {}]

Types ==
  /\ disk \in Lists /\ vault \in [Ids -> Texts] /\ legacy \in BOOLEAN
  /\ phase \in {"down", "starting", "up"}
  /\ mem \in Mems /\ tail \in Seq(Calls) /\ job \in Jobs /\ prompt \in Prompts
  /\ dropped \in SUBSET (1..MaxSouls) /\ excused \in SUBSET (1..MaxSouls) /\ used \in Counts

\* Which of them there are when: nothing is known of a window that is not up.
Phases ==
  /\ phase # "up" => tail = <<>> /\ prompt = NoPrompt /\ mem = NoMem /\ job.kind \in {"none", "absorb"}
  /\ phase = "up" => job.kind # "absorb"
  /\ phase = "down" => job = NoJob
  /\ job.kind = "none" => job = NoJob
  /\ \A k \in DOMAIN tail : tail[k].kind = "clear" => tail[k].list = <<>>

\* Ids and souls come from counters: what is new is not in any list.
IdsUsed(list, least) == \A m \in Members(list) : least <= m.id /\ m.id <= used.ids
Counters ==
  /\ IdsUsed(disk, 1) /\ IdsUsed(mem.list, 1) /\ IdsUsed(job.list, 1)
  /\ \A k \in DOMAIN tail : IdsUsed(tail[k].list, 0)
  /\ \A x \in mem.unresolved : x <= used.ids
  /\ prompt # NoPrompt => 1 <= prompt.ref.id /\ prompt.ref.id <= used.ids

SoulsUsed(list) == \A m \in Members(list) : m.soul <= used.souls \/ m.soul = LegacySoul
Souls ==
  /\ used.souls < LegacySoul
  /\ SoulsUsed(disk) /\ SoulsUsed(mem.list) /\ SoulsUsed(job.list)
  /\ \A k \in DOMAIN tail : SoulsUsed(tail[k].list)

------------------------------------------------------------------------------
(* Lists *)

LEMMA MacroNumbers ==
  /\ MaxSouls \in Nat /\ MaxIds \in Nat /\ MaxEdits \in Nat /\ MaxOutages \in Nat
  /\ Ids = 1..MaxIds /\ LegacySoul = MaxSouls
BY MacroAssumption DEF Ids, LegacySoul

LEMMA TextFacts ==
  /\ Nil \in Texts /\ Blank \in Texts /\ Nil # Blank
  /\ \A s \in 1..MaxSouls :
       /\ <<s, 1>> \in Texts \ {Nil} /\ <<s, 1>> # Blank /\ <<s, 1>>[1] = s
       /\ <<s, 2>> \in Texts \ {Nil} /\ <<s, 2>> # Blank /\ <<s, 2>>[1] = s
BY DEF Texts, Nil, Blank

LEMMA MemberTypes ==
  ASSUME NEW list \in Lists
  PROVE  /\ \A m \in Members(list) : m \in MacroRecords
         /\ DOMAIN list = 1..Len(list) /\ Len(list) \in Nat
         /\ \A i \in 1..Len(list) : list[i] \in Members(list)
BY DEF Members, Lists

LEMMA RecordFields ==
  ASSUME NEW m \in MacroRecords
  PROVE  /\ m.soul \in 1..MaxSouls /\ m.id \in 0..MaxIds /\ m.secret \in BOOLEAN
         /\ m.text \in Texts /\ m.text # Nil /\ m.had \in BOOLEAN
BY DEF MacroRecords

LEMMA EmptyList == <<>> \in Lists /\ Members(<<>>) = {} /\ SoulsOf(<<>>) = {} /\ IdsOf(<<>>) = {}
BY DEF Lists, Members, SoulsOf, IdsOf

LEMMA AppendMembers ==
  ASSUME NEW list \in Lists, NEW m \in MacroRecords
  PROVE  /\ Append(list, m) \in Lists /\ Members(Append(list, m)) = Members(list) \cup {m}
         /\ Len(Append(list, m)) = Len(list) + 1
         /\ Append(list, m)[Len(list) + 1] = m
         /\ \A i \in 1..Len(list) : Append(list, m)[i] = list[i]
BY DEF Lists, Members

LEMMA ToDiskFacts ==
  ASSUME NEW m \in MacroRecords
  PROVE  /\ ToDisk(m) \in MacroRecords /\ ToDisk(m).soul = m.soul /\ ToDisk(m).id = m.id
         /\ ToDisk(m).secret = m.secret /\ ToDisk(m).had = m.had
BY TextFacts DEF ToDisk, MacroRecords

OfDisk(list) == [i \in DOMAIN list |-> ToDisk(list[i])]

LEMMA OfDiskFacts ==
  ASSUME NEW list \in Lists
  PROVE  /\ OfDisk(list) \in Lists /\ Len(OfDisk(list)) = Len(list)
         /\ \A i \in 1..Len(list) : OfDisk(list)[i] = ToDisk(list[i])
BY MemberTypes, ToDiskFacts DEF Lists, OfDisk

\* What assignMacroIds() makes of a list: the same macros, with ids of their
\* own, old ones or new ones; a secret whose text is not known keeps its id when
\* no other secret wants it.
Dealt(list, new) ==
  /\ new \in Lists /\ Len(new) = Len(list)
  /\ \A i \in 1..Len(list) :
       /\ new[i].soul = list[i].soul /\ new[i].secret = list[i].secret
       /\ new[i].text = list[i].text /\ new[i].had = list[i].had
       /\ new[i].id \in 1..(used.ids + Cardinality(Fresh(list)))
       /\ new[i].id = list[i].id \/ new[i].id > used.ids
       /\ (/\ list[i].secret /\ list[i].text = Blank /\ list[i].id \in mem.unresolved
           /\ \A j \in 1..Len(list) : list[j].id = list[i].id /\ j # i => ~list[j].secret)
          => new[i].id = list[i].id
  /\ \A i, j \in 1..Len(list) : new[i].id = new[j].id => i = j

LEMMA FreshIsFinite ==
  ASSUME NEW list \in Lists
  PROVE  /\ Fresh(list) \subseteq 1..Len(list) /\ IsFiniteSet(Fresh(list)) /\ Cardinality(Fresh(list)) \in Nat
<1>1. Fresh(list) \subseteq 1..Len(list) /\ Len(list) \in Nat
  BY DEF Fresh, Lists
<1>2. IsFiniteSet(1..Len(list))
  BY <1>1, FS_Interval
<1> QED
  BY <1>1, <1>2, FS_Subset, FS_CardinalityType

Rank(list, i) == Cardinality({j \in Fresh(list) : j <= i})

\* New ids count the positions that need one.
LEMMA Ranks ==
  ASSUME NEW list \in Lists
  PROVE  /\ \A i \in Fresh(list) : Rank(list, i) \in 1..Cardinality(Fresh(list))
         /\ \A i, j \in Fresh(list) : Rank(list, i) = Rank(list, j) => i = j
<1> DEFINE Upto(i) == {j \in Fresh(list) : j <= i}
<1>1. /\ Fresh(list) \subseteq Nat /\ IsFiniteSet(Fresh(list)) /\ Cardinality(Fresh(list)) \in Nat
  BY FreshIsFinite, MemberTypes
<1>2. \A i \in Fresh(list) : IsFiniteSet(Upto(i)) /\ Cardinality(Upto(i)) \in Nat
                             /\ Cardinality(Upto(i)) <= Cardinality(Fresh(list))
  BY <1>1, FS_Subset, FS_CardinalityType
<1>3. \A i \in Fresh(list) : Cardinality(Upto(i)) # 0
  BY <1>1, <1>2, FS_EmptySet
<1>4. ASSUME NEW i \in Fresh(list), NEW j \in Fresh(list), i < j
      PROVE  Cardinality(Upto(i)) < Cardinality(Upto(j))
  <2>1. Upto(i) \subseteq Upto(j) /\ j \in Upto(j) /\ j \notin Upto(i)
    BY <1>1, <1>4
  <2>2. Upto(i) # Upto(j)
    BY <2>1
  <2> QED
    BY <1>2, <2>1, <2>2, FS_Subset
<1>5. \A i \in Fresh(list) : Rank(list, i) = Cardinality(Upto(i))
  BY DEF Rank
<1> HIDE DEF Upto
<1>6. \A i \in Fresh(list) : Rank(list, i) \in 1..Cardinality(Fresh(list))
  BY <1>1, <1>2, <1>3, <1>5
<1>7. ASSUME NEW i \in Fresh(list), NEW j \in Fresh(list), Rank(list, i) = Rank(list, j)
      PROVE  i = j
  BY <1>1, <1>2, <1>4, <1>5, <1>7
<1> QED
  BY <1>6, <1>7

LEMMA IdsDealt ==
  ASSUME Types, Counters, NEW list \in Lists, IdsUsed(list, 0),
         used.ids + Cardinality(Fresh(list)) <= MaxIds
  PROVE  Dealt(list, AssignMacroIds(list))
<1> DEFINE new == AssignMacroIds(list)
<1> DEFINE n == Cardinality(Fresh(list))
<1>1. /\ used.ids \in 0..MaxIds /\ MaxIds \in Nat /\ n \in Nat /\ used.ids + n <= MaxIds
      /\ mem.unresolved \subseteq 1..MaxIds /\ \A x \in mem.unresolved : x <= used.ids
  BY MacroNumbers, FreshIsFinite DEF Types, Counts, Mems, Counters
<1>2. /\ DOMAIN list = 1..Len(list) /\ Len(list) \in Nat /\ \A i \in 1..Len(list) : list[i] \in MacroRecords
      /\ \A i \in 1..Len(list) : list[i].id <= used.ids
  BY MemberTypes DEF IdsUsed
<1>3. \A i \in 1..Len(list) : new[i] = IF Keeps(list, i) THEN list[i]
                                       ELSE [list[i] EXCEPT !.id = used.ids + Rank(list, i)]
  BY <1>2 DEF AssignMacroIds, Rank
<1>4. \A i \in 1..Len(list) : i \in Fresh(list) <=> ~Keeps(list, i)
  BY <1>2 DEF Fresh
<1>5. ASSUME NEW i \in 1..Len(list), Keeps(list, i)
      PROVE  list[i].id \in 1..used.ids
  BY <1>2, RecordFields, <1>1, <1>5 DEF Keeps, Pinned, CannotCarrySecret
<1>6. ASSUME NEW i \in 1..Len(list), ~Keeps(list, i)
      PROVE  /\ Rank(list, i) \in 1..n /\ used.ids + Rank(list, i) \in 1..(used.ids + n)
             /\ used.ids + Rank(list, i) > used.ids /\ used.ids + Rank(list, i) \in 0..MaxIds
  BY <1>4, <1>6, Ranks, <1>1
<1>7. ASSUME NEW i \in 1..Len(list)
      PROVE  /\ new[i] \in MacroRecords
             /\ new[i].soul = list[i].soul /\ new[i].secret = list[i].secret
             /\ new[i].text = list[i].text /\ new[i].had = list[i].had
             /\ new[i].id \in 1..(used.ids + n)
             /\ Keeps(list, i) => new[i].id = list[i].id /\ new[i].id <= used.ids
             /\ ~Keeps(list, i) => new[i].id = used.ids + Rank(list, i) /\ new[i].id > used.ids
  <2>1. list[i] \in MacroRecords
    BY <1>2
  <2>2. CASE Keeps(list, i)
    <3>1. new[i] = list[i] /\ list[i].id \in 1..used.ids
      BY <1>3, <1>5, <2>2
    <3> QED
      BY <1>1, <2>1, <2>2, <3>1
  <2>3. CASE ~Keeps(list, i)
    BY <1>3, <2>3, <1>6, <2>1 DEF MacroRecords
  <2> QED
    BY <2>2, <2>3
<1>8. new \in Lists /\ Len(new) = Len(list)
  BY <1>2, <1>7 DEF AssignMacroIds, Lists
<1>9. ASSUME NEW i \in 1..Len(list), list[i].secret, list[i].text = Blank, list[i].id \in mem.unresolved,
             \A j \in 1..Len(list) : list[j].id = list[i].id /\ j # i => ~list[j].secret
      PROVE  Keeps(list, i)
  BY <1>9, <1>2 DEF CannotCarrySecret, Pinned, Keeps
<1>10. ASSUME NEW i \in 1..Len(list), NEW j \in 1..Len(list), Keeps(list, i), Keeps(list, j),
              list[i].id = list[j].id
       PROVE  i = j
  BY <1>2, <1>10 DEF Pinned, Keeps
<1> HIDE DEF new
<1>11. ASSUME NEW i \in 1..Len(list), NEW j \in 1..Len(list), new[i].id = new[j].id
       PROVE  i = j
  <2>1. new[i].id \in Nat /\ new[j].id \in Nat /\ used.ids \in Nat
    BY <1>1, <1>7
  <2>2. CASE Keeps(list, i) /\ Keeps(list, j)
    BY <1>7, <1>10, <1>11, <2>2
  <2>3. CASE Keeps(list, i) /\ ~Keeps(list, j)
    BY <1>7, <1>11, <2>1, <2>3
  <2>4. CASE ~Keeps(list, i) /\ Keeps(list, j)
    BY <1>7, <1>11, <2>1, <2>4
  <2>5. CASE ~Keeps(list, i) /\ ~Keeps(list, j)
    BY <1>4, <1>6, <1>7, <1>11, <2>5, <2>1, Ranks
  <2> QED
    BY <2>2, <2>3, <2>4, <2>5
<1>12. \A i \in 1..Len(list) : new[i].id = list[i].id \/ new[i].id > used.ids
  BY <1>7
<1> QED
  BY <1>7, <1>8, <1>9, <1>11, <1>12 DEF Dealt, new

------------------------------------------------------------------------------
(* What a command may save *)

\* The list has the macro once at most.
Single(list, s) == \A i, j \in DOMAIN list : list[i].soul = s /\ list[j].soul = s => i = j

\* A macro that was given a text, and whose twins are excused; and a new one.
Edited(b, ex) ==
  /\ b.had /\ b.text = <<b.soul, 2>>
  /\ \E a \in Members(mem.list) : a.soul = b.soul /\ a.id = b.id
  /\ \A r \in Members(mem.list) : r.id = b.id /\ r.soul # b.soul => r.soul \in ex
Newborn(b) ==
  /\ b.soul = used.souls + 1 /\ b.soul < LegacySoul /\ b.id = 0 /\ b.secret
  /\ b.had => b.text = <<b.soul, 1>>
  /\ ~b.had => b.text = Blank

\* What is saved comes from the list shown.
Saves(list, ex) ==
  /\ list \in Lists
  /\ \A b \in Members(list) : b \in Members(mem.list) \/ Edited(b, ex) \/ Newborn(b)
  /\ \A s \in 1..MaxSouls : Single(mem.list, s) => Single(list, s)

LEMMA SameRecords ==
  ASSUME Types, NEW list \in Lists, Members(list) \subseteq Members(mem.list), NEW ex,
         \A s \in 1..MaxSouls : Single(mem.list, s) => Single(list, s)
  PROVE  Saves(list, ex)
BY DEF Saves

LEMMA RemovedList ==
  ASSUME Types, NEW k \in DOMAIN mem.list, NEW ex
  PROVE  Saves(RemoveAt(mem.list, k), ex)
<1> DEFINE old == mem.list
<1> DEFINE new == RemoveAt(old, k)
<1> DEFINE At(i) == IF i < k THEN i ELSE i + 1
<1>1. /\ old \in Lists /\ DOMAIN old = 1..Len(old) /\ Len(old) \in Nat /\ k \in 1..Len(old)
      /\ \A i \in 1..Len(old) : old[i] \in MacroRecords
  BY MemberTypes DEF Types, Mems
<1> HIDE DEF old
<1>2. /\ SubSeq(old, 1, k - 1) \in Seq(MacroRecords) /\ SubSeq(old, k + 1, Len(old)) \in Seq(MacroRecords)
      /\ Len(SubSeq(old, 1, k - 1)) = k - 1 /\ Len(SubSeq(old, k + 1, Len(old))) = Len(old) - k
      /\ \A i \in 1..(k - 1) : SubSeq(old, 1, k - 1)[i] = old[i]
      /\ \A i \in 1..(Len(old) - k) : SubSeq(old, k + 1, Len(old))[i] = old[k + i]
  <2>1. /\ SubSeq(old, 1, k - 1) \in Seq(MacroRecords) /\ Len(SubSeq(old, 1, k - 1)) = k - 1
        /\ \A i \in 1..(k - 1) : SubSeq(old, 1, k - 1)[i] = old[i]
    BY <1>1, SubSeqProperties
  <2>2. /\ SubSeq(old, k + 1, Len(old)) \in Seq(MacroRecords)
        /\ Len(SubSeq(old, k + 1, Len(old))) = Len(old) - k
        /\ \A i \in 1..(Len(old) - k) : SubSeq(old, k + 1, Len(old))[i] = old[k + i]
    BY <1>1, SubSeqProperties
  <2> QED  BY <2>1, <2>2
<1>3. /\ new \in Seq(MacroRecords) /\ Len(new) = Len(old) - 1 /\ DOMAIN new = 1..(Len(old) - 1)
      /\ \A i \in 1..(Len(old) - 1) : new[i] = old[At(i)]
  <2> DEFINE front == SubSeq(old, 1, k - 1)
  <2> DEFINE back == SubSeq(old, k + 1, Len(old))
  <2>1. new = front \o back /\ k \in Nat
    BY <1>1 DEF RemoveAt
  <2>2. /\ front \in Seq(MacroRecords) /\ back \in Seq(MacroRecords)
        /\ Len(front) = k - 1 /\ Len(back) = Len(old) - k
        /\ \A i \in 1..(k - 1) : front[i] = old[i]
        /\ \A i \in 1..(Len(old) - k) : back[i] = old[k + i]
    BY <1>2
  <2> HIDE DEF front, back, new
  <2>3. /\ new \in Seq(MacroRecords) /\ Len(new) = Len(old) - 1 /\ DOMAIN new = 1..(Len(old) - 1)
        /\ \A i \in 1..(Len(old) - 1) : new[i] = IF i <= k - 1 THEN front[i] ELSE back[i - (k - 1)]
    <3>1. /\ Len(old) \in Nat /\ k \in 1..Len(old) /\ Len(front) + Len(back) = Len(old) - 1
      BY <1>1, <2>2
    <3>2. /\ front \o back \in Seq(MacroRecords) /\ Len(front \o back) = Len(front) + Len(back)
          /\ \A i \in 1..(Len(front) + Len(back)) :
               (front \o back)[i] = IF i <= Len(front) THEN front[i] ELSE back[i - Len(front)]
      BY <2>2, ConcatProperties
    <3> QED
      BY <2>1, <2>2, <3>1, <3>2
  <2>4. ASSUME NEW i \in 1..(Len(old) - 1)
        PROVE  new[i] = old[At(i)]
    <3>1. CASE i <= k - 1
      <4>1. At(i) = i /\ i \in 1..(k - 1)
        BY <1>1, <2>1, <3>1
      <4> HIDE DEF At
      <4>2. new[i] = front[i] /\ front[i] = old[i]
        BY <2>2, <2>3, <3>1, <4>1
      <4> QED
        BY <4>1, <4>2
    <3>2. CASE ~(i <= k - 1)
      <4>1. i - (k - 1) \in 1..(Len(old) - k) /\ k + (i - (k - 1)) = i + 1 /\ At(i) = i + 1
        BY <1>1, <3>2
      <4> HIDE DEF At
      <4>2. new[i] = back[i - (k - 1)] /\ back[i - (k - 1)] = old[k + (i - (k - 1))]
        BY <2>2, <2>3, <3>2, <4>1
      <4> QED
        BY <4>1, <4>2
    <3> QED
      BY <3>1, <3>2
  <2> QED
    BY <2>3, <2>4
<1>4. /\ \A i \in 1..(Len(old) - 1) : At(i) \in 1..Len(old)
      /\ \A i, j \in 1..(Len(old) - 1) : At(i) = At(j) => i = j
  BY <1>1
<1> HIDE DEF new, At
<1>5. Members(new) \subseteq Members(old)
  BY <1>1, <1>3, <1>4 DEF Members
<1>6. \A s \in 1..MaxSouls : Single(old, s) => Single(new, s)
  BY SMTT(30), <1>1, <1>3, <1>4 DEF Single
<1> QED
  BY <1>3, <1>5, <1>6, SameRecords DEF new, old, Lists

LEMMA MovedList ==
  ASSUME Types, NEW k \in 2..Len(mem.list), NEW ex
  PROVE  Saves([mem.list EXCEPT ![k] = mem.list[k - 1], ![k - 1] = mem.list[k]], ex)
<1> DEFINE old == mem.list
<1> DEFINE new == [old EXCEPT ![k] = old[k - 1], ![k - 1] = old[k]]
<1> DEFINE At(i) == IF i = k THEN k - 1 ELSE IF i = k - 1 THEN k ELSE i
<1>1. /\ old \in Lists /\ DOMAIN old = 1..Len(old) /\ Len(old) \in Nat /\ k \in 1..Len(old) /\ k - 1 \in 1..Len(old)
      /\ \A i \in 1..Len(old) : old[i] \in MacroRecords
  BY MemberTypes DEF Types, Mems
<1> HIDE DEF old
<1>3. /\ new \in Seq(MacroRecords) /\ DOMAIN new = 1..Len(old)
      /\ \A i \in 1..Len(old) : new[i] = old[At(i)]
  BY <1>1 DEF Lists
<1>4. /\ \A i \in 1..Len(old) : At(i) \in 1..Len(old)
      /\ \A i, j \in 1..Len(old) : At(i) = At(j) => i = j
  BY <1>1
<1> HIDE DEF new, At
<1>5. Members(new) \subseteq Members(old)
  BY <1>1, <1>3, <1>4 DEF Members
<1>6. \A s \in 1..MaxSouls : Single(old, s) => Single(new, s)
  BY SMTT(30), <1>1, <1>3, <1>4 DEF Single
<1> QED
  BY <1>3, <1>5, <1>6, SameRecords DEF new, old, Lists

TypedList(k, secret) ==
  [mem.list EXCEPT ![k].text = <<mem.list[k].soul, 2>>, ![k].secret = secret, ![k].had = TRUE]
Twins(k) == {mem.list[i].soul : i \in Holders(mem.list, mem.list[k].id) \ {k}}

LEMMA EditedList ==
  ASSUME Types, NEW k \in DOMAIN mem.list, NEW secret \in BOOLEAN, NEW ex, Twins(k) \subseteq ex
  PROVE  Saves(TypedList(k, secret), ex)
<1> DEFINE old == mem.list
<1> DEFINE new == TypedList(k, secret)
<1>1. /\ old \in Lists /\ DOMAIN old = 1..Len(old) /\ Len(old) \in Nat /\ k \in 1..Len(old)
      /\ \A i \in 1..Len(old) : old[i] \in MacroRecords
  BY MemberTypes DEF Types, Mems
<1>2. new = [old EXCEPT ![k] = [old[k] EXCEPT !.text = <<old[k].soul, 2>>, !.secret = secret, !.had = TRUE]]
  BY <1>1 DEF TypedList, MacroRecords
<1> DEFINE b == [old[k] EXCEPT !.text = <<old[k].soul, 2>>, !.secret = secret, !.had = TRUE]
<1>3. /\ b \in MacroRecords /\ b.soul = old[k].soul /\ b.id = old[k].id /\ b.had /\ b.text = <<b.soul, 2>>
  <2>1. old[k] \in MacroRecords /\ old[k].soul \in 1..MaxSouls
    BY <1>1, RecordFields
  <2>2. <<old[k].soul, 2>> \in Texts \ {Nil}
    BY <2>1, TextFacts
  <2> QED
    BY <2>1, <2>2 DEF MacroRecords
<1>4. new = [old EXCEPT ![k] = b]
  BY <1>2
<1>5. \A r \in Members(old) : r.id = b.id /\ r.soul # b.soul => r.soul \in ex
  BY <1>1, <1>3 DEF Members, Twins, Holders
<1> HIDE DEF b, new, old
<1>6. /\ new \in Seq(MacroRecords) /\ DOMAIN new = 1..Len(old)
      /\ \A i \in 1..Len(old) : new[i] = IF i = k THEN b ELSE old[i]
  BY <1>1, <1>3, <1>4 DEF Lists
<1>7. \A m \in Members(new) : m \in Members(old) \/ m = b
  BY <1>1, <1>6 DEF Members
<1>8. \A i \in 1..Len(old) : new[i].soul = old[i].soul
  BY <1>1, <1>3, <1>6
<1>9. \A s \in 1..MaxSouls : Single(old, s) => Single(new, s)
  BY <1>1, <1>6, <1>8 DEF Single
<1>10. old[k] \in Members(old)
  BY <1>1 DEF Members
<1>11. Edited(b, ex)
  BY <1>3, <1>5, <1>10 DEF Edited, old
<1> QED
  BY <1>6, <1>7, <1>9, <1>11 DEF Saves, new, old, Lists

LEMMA EmptySaved ==
  ASSUME NEW ex
  PROVE  Saves(<<>>, ex)
BY EmptyList DEF Saves, Single

LEMMA GrownList ==
  ASSUME Types, SoulsUsed(mem.list), used.souls + 1 < LegacySoul, NEW ex
  PROVE  Saves(Append(mem.list, Macro(used.souls + 1, 0, TRUE, Blank)), ex)
<1> DEFINE old == mem.list
<1>0. PICK s0 : s0 = used.souls + 1
  OBVIOUS
<1> DEFINE b == Macro(s0, 0, TRUE, Blank)
<1> DEFINE new == Append(old, b)
<1>1. /\ old \in Lists /\ DOMAIN old = 1..Len(old) /\ Len(old) \in Nat
      /\ s0 \in 1..MaxSouls /\ 0 \in 0..MaxIds /\ used.souls \in Nat /\ LegacySoul \in Nat
      /\ used.souls < s0 /\ s0 # LegacySoul
  BY <1>0, MacroNumbers, MemberTypes DEF Types, Mems, Counts
<1>2. /\ b \in MacroRecords /\ b.soul = s0 /\ b.id = 0 /\ b.secret /\ b.text = Blank /\ ~b.had
  BY TextFacts, <1>1 DEF Macro, MacroRecords
<1>3. Newborn(b)
  BY <1>0, <1>2 DEF Newborn
<1> HIDE DEF b
<1>4. \A i \in 1..Len(old) : old[i].soul # b.soul
  BY SMTT(30), <1>1, MemberTypes, RecordFields, <1>2 DEF SoulsUsed
<1> HIDE DEF b, old
<1>5. /\ new \in Lists /\ Members(new) = Members(old) \cup {b} /\ DOMAIN new = 1..(Len(old) + 1)
      /\ new[Len(old) + 1] = b /\ \A i \in 1..Len(old) : new[i] = old[i]
  BY <1>1, <1>2, AppendMembers, MemberTypes
<1> HIDE DEF new
<1>6. ASSUME NEW s \in 1..MaxSouls, Single(old, s)
      PROVE  Single(new, s)
  BY <1>1, <1>4, <1>5, <1>6 DEF Single
<1> QED
  BY <1>0, <1>3, <1>5, <1>6 DEF Saves, new, old, b

LEMMA ReplacedList ==
  ASSUME Types, used.souls + 1 < LegacySoul, NEW ex
  PROVE  Saves(<<Macro(used.souls + 1, 0, TRUE, <<used.souls + 1, 1>>)>>, ex)
<1>0. PICK s0 : s0 = used.souls + 1
  OBVIOUS
<1> DEFINE b == Macro(s0, 0, TRUE, <<s0, 1>>)
<1>1. s0 \in 1..MaxSouls /\ 0 \in 0..MaxIds
  BY <1>0, MacroNumbers DEF Types, Counts
<1>2. /\ b \in MacroRecords /\ b.soul = s0 /\ b.id = 0 /\ b.secret
      /\ b.text = <<s0, 1>> /\ b.had
  BY <1>1, TextFacts DEF Macro, MacroRecords
<1>3. Newborn(b)
  BY <1>0, <1>2 DEF Newborn
<1> HIDE DEF b
<1>4. <<b>> \in Lists /\ Members(<<b>>) = {b} /\ DOMAIN <<b>> = {1}
  BY <1>2 DEF Lists, Members
<1> QED
  BY <1>0, <1>3, <1>4 DEF Saves, Single, b

------------------------------------------------------------------------------
(* The commands, as saves of a list and as changes of the prompt *)

SaveOf(kind, list) ==
  /\ phase = "up" /\ kind \in {"save", "clear"} /\ (kind = "clear" => list = <<>>)
  /\ Saves(list, excused')
  /\ tail' = Append(tail, [kind |-> kind, list |-> list])
  /\ excused \cup Overtaken \subseteq excused' /\ excused' \in SUBSET (1..MaxSouls)
  /\ prompt' = prompt \/ prompt' = NoPrompt
  /\ used' \in Counts /\ used'.ids = used.ids /\ used'.legacy = used.legacy
  /\ used.souls <= used'.souls /\ used'.souls < LegacySoul
  /\ \A b \in Members(list) : b.soul <= used'.souls \/ b.soul = LegacySoul
  /\ UNCHANGED <<disk, vault, legacy, phase, mem, job, dropped>>

PromptStep ==
  /\ \/ prompt' = NoPrompt
     \/ /\ phase = "up"
        /\ \E op \in {"remove", "paste", "form"}, i \in DOMAIN mem.list, index \in Nat : prompt' = Prompt(op, i, index)
  /\ used' \in Counts /\ used'.ids = used.ids /\ used'.souls = used.souls /\ used'.legacy = used.legacy
  /\ UNCHANGED <<disk, vault, legacy, phase, mem, tail, job, dropped, excused>>

LEMMA UnseenAreSouls ==
  ASSUME NEW list \in Lists
  PROVE  Unseen(list) \in SUBSET (1..MaxSouls)
BY MemberTypes, RecordFields DEF Unseen

LEMMA TailTypes ==
  ASSUME Types
  PROVE  /\ DOMAIN tail = 1..Len(tail) /\ Len(tail) \in Nat
         /\ \A k \in 1..Len(tail) : tail[k] \in Calls /\ tail[k].list \in Lists /\ tail[k].kind \in {"save", "clear"}
<1>1. tail \in Seq(Calls)
  BY DEF Types
<1>2. DOMAIN tail = 1..Len(tail) /\ Len(tail) \in Nat /\ \A k \in 1..Len(tail) : tail[k] \in Calls
  BY <1>1
<1> QED
  BY <1>2 DEF Calls

LEMMA OvertakenAreSouls ==
  ASSUME Types
  PROVE  Overtaken \in SUBSET (1..MaxSouls)
BY TailTypes, UnseenAreSouls DEF Types, Jobs, Overtaken

LEMMA SavedSouls ==
  ASSUME Types, Souls, NEW list \in Lists, NEW ex, Saves(list, ex), NEW b \in Members(list), ~Newborn(b)
  PROVE  b.soul <= used.souls \/ b.soul = LegacySoul
BY DEF Saves, Souls, SoulsUsed, Edited

\* The list of a command on one macro.
LEMMA TargetIsThere ==
  ASSUME Types, Target # 0
  PROVE  Target \in DOMAIN mem.list
BY FS_EmptySet DEF Holders, Target, ResolveMacroTarget

LEMMA TargetHoldsId ==
  ASSUME Types, Target # 0
  PROVE  mem.list[Target].id = prompt.ref.id
<1> DEFINE H == Holders(mem.list, prompt.ref.id)
<1>1. \A i \in H : mem.list[i].id = prompt.ref.id
  BY DEF Holders
<1>2. CASE prompt.ref.index \in H
  BY <1>1, <1>2 DEF Target, ResolveMacroTarget
<1>3. CASE prompt.ref.index \notin H
  BY <1>3, FS_EmptySet, <1>1 DEF Target, ResolveMacroTarget
<1> QED
  BY <1>2, <1>3

LEMMA ClosingSave ==
  ASSUME Types, Souls, phase = "up", Closed, NEW list, NEW twins \in SUBSET (1..MaxSouls),
         Save("save", list, twins), Saves(list, excused'), \A b \in Members(list) : ~Newborn(b)
  PROVE  SaveOf("save", list)
<1>1. excused' = excused \cup Overtaken \cup twins
  BY DEF Save
<1>2. excused' \in SUBSET (1..MaxSouls) /\ excused \cup Overtaken \subseteq excused'
  BY <1>1, OvertakenAreSouls DEF Types
<1>3. list \in Lists
  BY DEF Saves
<1>4. \A b \in Members(list) : b.soul <= used.souls \/ b.soul = LegacySoul
  BY <1>3, SavedSouls
<1>5. used' = used /\ used \in Counts /\ used.souls < LegacySoul /\ used.souls \in Nat
  BY DEF Closed, Types, Counts, Souls
<1> QED
  BY <1>2, <1>4, <1>5 DEF SaveOf, Save, Closed

\* Records that are already there, and edited ones, are not new.
LEMMA NotNewborn ==
  ASSUME Types, Souls, NEW b \in MacroRecords, NEW a \in Members(mem.list), a.soul = b.soul
  PROVE  ~Newborn(b)
BY MacroNumbers DEF Souls, SoulsUsed, Newborn, Types, Counts

LEMMA RemovedStep ==
  ASSUME Types, Souls, phase = "up", Closed, Removed
  PROVE  SaveOf("save", RemoveAt(mem.list, Target))
<1>1. Target \in DOMAIN mem.list
  BY TargetIsThere DEF Removed
<1>2. PICK k \in DOMAIN mem.list : k = Target
  BY <1>1
<1>3. Saves(RemoveAt(mem.list, k), excused')
  BY RemovedList
<1>4. \A b \in Members(RemoveAt(mem.list, k)) : b \in Members(mem.list)
  <2>1. /\ mem.list \in Lists /\ DOMAIN mem.list = 1..Len(mem.list) /\ Len(mem.list) \in Nat
    BY MemberTypes DEF Types, Mems
  <2> DEFINE old == mem.list
  <2> HIDE DEF old
  <2>2. /\ SubSeq(old, 1, k - 1) \in Seq(Members(old)) /\ SubSeq(old, k + 1, Len(old)) \in Seq(Members(old))
    BY <2>1 DEF Members, old, Lists
  <2>3. RemoveAt(old, k) \in Seq(Members(old))
    BY <2>2, ConcatProperties DEF RemoveAt
  <2> QED
    BY <2>3 DEF Members, old
<1>5. \A b \in Members(RemoveAt(mem.list, k)) : ~Newborn(b)
  BY MemberTypes, <1>4, NotNewborn DEF Types, Mems
<1>6. Save("save", RemoveAt(mem.list, k), {})
  BY <1>2 DEF Removed
<1>7. SaveOf("save", RemoveAt(mem.list, k))
  BY <1>3, <1>5, <1>6, ClosingSave
<1> QED
  BY <1>2, <1>7

LEMMA TypedStep ==
  ASSUME Types, Souls, phase = "up", Closed, NEW secret \in BOOLEAN, Typed(secret)
  PROVE  SaveOf("save", TypedList(Target, secret))
<1>1. PICK k \in DOMAIN mem.list : k = Target
  BY TargetIsThere DEF Typed
<1>2. Save("save", TypedList(k, secret), Twins(k)) /\ Twins(k) \subseteq excused'
  BY <1>1 DEF Typed, TypedList, Twins, Save
<1>3. Saves(TypedList(k, secret), excused')
  BY <1>2, EditedList
<1>4. /\ mem.list \in Lists /\ DOMAIN mem.list = 1..Len(mem.list)
      /\ \A i \in 1..Len(mem.list) : mem.list[i] \in MacroRecords /\ mem.list[i] \in Members(mem.list)
  BY MemberTypes DEF Types, Mems
<1>5. Twins(k) \in SUBSET (1..MaxSouls)
  BY <1>4, RecordFields DEF Twins, Holders
<1>6. \A b \in Members(TypedList(k, secret)) : b \in MacroRecords /\ \E a \in Members(mem.list) : a.soul = b.soul
  <2>1. /\ TypedList(k, secret) \in Lists
        /\ DOMAIN TypedList(k, secret) = 1..Len(mem.list)
    BY <1>3, <1>4 DEF Saves, TypedList
  <2>2. \A i \in 1..Len(mem.list) : TypedList(k, secret)[i].soul = mem.list[i].soul
    BY <1>4 DEF TypedList, MacroRecords
  <2> QED
    BY <1>4, <2>1, <2>2, MemberTypes DEF Members
<1>7. \A b \in Members(TypedList(k, secret)) : ~Newborn(b)
  BY <1>6, NotNewborn
<1>8. SaveOf("save", TypedList(k, secret))
  BY <1>2, <1>3, <1>5, <1>7, ClosingSave
<1> QED
  BY <1>1, <1>8

LEMMA OpenSave ==
  ASSUME Types, Souls, phase = "up", NEW kind \in {"save", "clear"}, NEW list, kind = "clear" => list = <<>>,
         Save(kind, list, {}), Saves(list, excused'),
         used' = [OneEdit EXCEPT !.souls = @ + 1] \/ used' = OneEdit,
         \A b \in Members(list) : Newborn(b) => used' = [OneEdit EXCEPT !.souls = @ + 1],
         used' = [OneEdit EXCEPT !.souls = @ + 1] => used.souls + 1 < LegacySoul,
         UNCHANGED <<disk, vault, legacy, phase, mem, job, prompt, dropped>>
  PROVE  SaveOf(kind, list)
<1>1. excused' = excused \cup Overtaken
  BY DEF Save
<1>2. excused' \in SUBSET (1..MaxSouls) /\ excused \cup Overtaken \subseteq excused'
  BY <1>1, OvertakenAreSouls DEF Types
<1>3. list \in Lists
  BY DEF Saves
<1>4. used \in Counts /\ used.souls \in Nat /\ used.souls < LegacySoul /\ LegacySoul \in Nat
  BY MacroNumbers DEF Types, Counts, Souls
<1>5. /\ used' \in Counts /\ used'.ids = used.ids /\ used'.legacy = used.legacy
      /\ used.souls <= used'.souls /\ used'.souls < LegacySoul
      /\ used' = [OneEdit EXCEPT !.souls = @ + 1] => used'.souls = used.souls + 1
  <2>1. OneEdit \in Counts /\ OneEdit.ids = used.ids /\ OneEdit.legacy = used.legacy /\ OneEdit.souls = used.souls
    BY <1>4 DEF OneEdit, Counts
  <2>2. CASE used' = OneEdit /\ used' # [OneEdit EXCEPT !.souls = @ + 1]
    BY <1>4, <2>1, <2>2
  <2>3. CASE used' = [OneEdit EXCEPT !.souls = @ + 1]
    BY <2>3, <1>4, <2>1 DEF Counts
  <2> QED
    BY <2>2, <2>3
<1>6. ASSUME NEW b \in Members(list)
      PROVE  b.soul <= used'.souls \/ b.soul = LegacySoul
  <2>1. CASE Newborn(b)
    BY <1>4, <1>5, <2>1 DEF Newborn
  <2>2. CASE ~Newborn(b)
    BY <1>3, MemberTypes, RecordFields, <2>2, SavedSouls, <1>5, <1>4 DEF Counts
  <2> QED
    BY <2>1, <2>2
<1> QED
  BY <1>2, <1>5, <1>6 DEF SaveOf, Save

Command == PromptStep \/ \E kind \in {"save", "clear"}, list \in Lists : SaveOf(kind, list)

LEMMA SavingCommand ==
  ASSUME NEW kind \in {"save", "clear"}, NEW list, SaveOf(kind, list)
  PROVE  Command
BY DEF SaveOf, Saves, Command

LEMMA MacroCommands ==
  ASSUME Types, Souls, Phases,
         \/ PointAtRow \/ OpenForm \/ MacroRemove \/ PasteSecret \/ EditorSave \/ EditorDelete \/ Dismiss
         \/ AddFromTemplate \/ MoveMacro \/ MoveToFolder \/ ReplaceAll \/ ClearAll
  PROVE  Command
<1>1. used \in Counts /\ OneEdit \in Counts /\ OneEdit.ids = used.ids /\ OneEdit.souls = used.souls
      /\ OneEdit.legacy = used.legacy
  BY DEF Types, Counts, OneEdit
<1>2. prompt.op # "none" => phase = "up"
  BY DEF Phases, NoPrompt
<1>3. ASSUME Closed, NoTarget
      PROVE  Command
  BY <1>1, <1>3 DEF Closed, NoTarget, PromptStep, Command
<1>4. ASSUME phase = "up", Closed, Removed
      PROVE  Command
  BY <1>4, RemovedStep, SavingCommand
<1>5. ASSUME phase = "up", Closed, NEW secret \in BOOLEAN, Typed(secret)
      PROVE  Command
  BY <1>5, TypedStep, SavingCommand
<1>6. CASE PointAtRow
  BY <1>6, MemberTypes, <1>1 DEF PointAtRow, Types, Mems, PromptStep, Command, Edits
<1>7. CASE OpenForm
  BY <1>7, <1>1 DEF OpenForm, PromptStep, Command, Edits
<1>8. CASE MacroRemove
  BY <1>2, <1>3, <1>4, <1>8 DEF MacroRemove
<1>9. CASE PasteSecret
  BY <1>1, <1>9, <1>2, <1>5, <1>3 DEF PasteSecret, Closed, PromptStep, Command
<1>10. CASE EditorSave
  BY <1>2, <1>3, <1>5, <1>10 DEF EditorSave
<1>11. CASE EditorDelete
  BY <1>2, <1>3, <1>4, <1>11 DEF EditorDelete
<1>12. CASE Dismiss
  BY <1>1, <1>12 DEF Dismiss, PromptStep, Command
<1>13. \A b \in Members(mem.list) : ~Newborn(b)
  BY NotNewborn, MemberTypes DEF Types, Mems
<1>14. CASE AddFromTemplate
  BY <1>14, GrownList, OpenSave, SavingCommand DEF AddFromTemplate, Edits, Souls
<1>15. CASE MoveMacro
  <2>1. PICK i \in 2..Len(mem.list) :
          Save("save", [mem.list EXCEPT ![i] = mem.list[i - 1], ![i - 1] = mem.list[i]], {})
    BY <1>15 DEF MoveMacro
  <2> DEFINE new == [mem.list EXCEPT ![i] = mem.list[i - 1], ![i - 1] = mem.list[i]]
  <2>2. Saves(new, excused')
    BY MovedList
  <2>3. \A b \in Members(new) : b \in Members(mem.list)
    BY MemberTypes DEF Types, Mems, Members
  <2> HIDE DEF new
  <2>4. phase = "up" /\ Save("save", new, {}) /\ used' = OneEdit
        /\ UNCHANGED <<disk, vault, legacy, phase, mem, job, prompt, dropped>>
    BY <1>15, <2>1 DEF MoveMacro, Edits, new
  <2>5. used' = [OneEdit EXCEPT !.souls = @ + 1] => FALSE
    BY <1>1, <2>4 DEF Counts
  <2>6. SaveOf("save", new)
    BY <1>13, <2>2, <2>3, <2>4, <2>5, OpenSave
  <2> QED
    BY <2>6, SavingCommand
<1>16. used' = OneEdit => used' # [OneEdit EXCEPT !.souls = @ + 1]
  BY <1>1 DEF Counts
<1>17. CASE MoveToFolder
  BY <1>17, <1>13, <1>16, OpenSave, SavingCommand DEF MoveToFolder, Edits, Saves, Types, Mems
<1>18. CASE ReplaceAll
  BY <1>18, ReplacedList, OpenSave, SavingCommand DEF ReplaceAll, Edits
<1>19. CASE ClearAll
  BY <1>19, EmptySaved, EmptyList, <1>16, OpenSave, SavingCommand DEF ClearAll, Edits
<1> QED
  BY <1>6, <1>7, <1>8, <1>9, <1>10, <1>11, <1>12, <1>14, <1>15, <1>17, <1>18, <1>19

------------------------------------------------------------------------------
(* Types, phases and counters *)

Basics == Types /\ Phases /\ Counters /\ Souls

\* The next call, and what is left of the queue.
LEMMA NextCall ==
  ASSUME Types, tail # <<>>
  PROVE  /\ 1 \in 1..Len(tail) /\ Head(tail) = tail[1] /\ tail[1] \in Calls
         /\ Tail(tail) \in Seq(Calls) /\ Len(Tail(tail)) = Len(tail) - 1 /\ DOMAIN Tail(tail) = 1..(Len(tail) - 1)
         /\ \A k \in 1..(Len(tail) - 1) : k + 1 \in 1..Len(tail) /\ Tail(tail)[k] = tail[k + 1]
BY DEF Types

LEMMA WriteFacts ==
  ASSUME Types, NEW list \in Lists, NEW new, new = AssignMacroIds(list), new \in Lists,
         \A m \in Members(new) : m.id # 0
  PROVE  /\ WriteOf(list) \in Jobs /\ WriteOf(list).kind = "write" /\ ~WriteOf(list).committed
         /\ WriteOf(list).list = new /\ WriteOf(list).disk = OfDisk(new)
         /\ WriteOf(list).stores = {i \in DOMAIN new : new[i].secret /\ ~Silent(list, i)}
         /\ \A x \in WriteOf(list).deletes : (\E m \in Members(new) : m.id = x /\ ~m.secret) \/ x \notin IdsOf(new)
BY MemberTypes, RecordFields, MacroNumbers, OfDiskFacts DEF Types, Mems, IdsOf, WriteOf, OfDisk, Jobs, Kinds

\* What StartJob does with a call.
Starts(call) ==
  /\ phase = "up" /\ job = NoJob /\ tail # <<>> /\ call = tail[1]
  /\ tail' = Tail(tail)
  /\ used' \in Counts /\ used'.ids \in Nat /\ used.ids <= used'.ids
  /\ used'.souls = used.souls /\ used'.legacy = used.legacy
  /\ UNCHANGED <<disk, vault, legacy, phase, mem, prompt, dropped, excused>>

ClearBegins == job' \in Jobs /\ job' = ClearOf

WriteBegins(list, new) ==
  /\ Dealt(list, new) /\ \A m \in Members(new) : 1 <= m.id /\ m.id <= used'.ids
  /\ job' \in Jobs /\ job'.kind = "write" /\ ~job'.committed /\ job'.list = new /\ job'.disk = OfDisk(new)
  /\ job'.stores = {i \in DOMAIN new : new[i].secret /\ ~Silent(list, i)}
  /\ \A x \in job'.deletes : (\E m \in Members(new) : m.id = x /\ ~m.secret) \/ x \notin IdsOf(new)

LEMMA JobBegins ==
  ASSUME Basics, StartJob
  PROVE  \E call \in Calls : /\ Starts(call)
                             /\ \/ ClearBegins
                                \/ call.kind = "save" /\ \E new \in Lists : WriteBegins(call.list, new)
<1>1. PICK call \in Calls : call = tail[1] /\ Head(tail) = call
  BY NextCall DEF StartJob, Basics
<1>2. call.list \in Lists /\ call.kind \in {"save", "clear"}
  BY DEF Calls
<1> DEFINE n == Cardinality(Fresh(call.list))
<1>3. n \in Nat
  BY <1>2, FreshIsFinite
<1>4. /\ used.ids + n <= MaxIds /\ used' = [used EXCEPT !.ids = @ + n]
      /\ job' = IF call.kind = "clear" THEN ClearOf ELSE WriteOf(call.list)
  BY <1>1 DEF StartJob
<1> HIDE DEF n
<1>5. used \in Counts /\ MaxIds \in Nat /\ used.ids \in 0..MaxIds
  BY MacroNumbers DEF Basics, Types, Counts
<1>6. /\ used' \in Counts /\ used'.ids \in Nat /\ used.ids <= used'.ids /\ used'.ids = used.ids + n
      /\ used'.souls = used.souls /\ used'.legacy = used.legacy
  BY <1>3, <1>4, <1>5 DEF Counts
<1>7. Starts(call)
  BY <1>1, <1>6 DEF Starts, StartJob
<1>8. CASE call.kind = "clear"
  BY <1>4, <1>8, EmptyList, <1>7 DEF ClearOf, NoJob, Jobs, Kinds, Basics, Types, Mems, ClearBegins
<1>9. CASE call.kind = "save"
  <2>1. IdsUsed(call.list, 0)
    BY NextCall, TailTypes, <1>1 DEF StartJob, Basics, Counters
  <2>2. Dealt(call.list, AssignMacroIds(call.list))
    BY <1>2, <1>4, <2>1, IdsDealt DEF Basics, n
  <2>3. PICK new \in Lists : new = AssignMacroIds(call.list)
    BY <2>2 DEF Dealt
  <2>4. Dealt(call.list, new)
    BY <2>2, <2>3
  <2>5. \A m \in Members(new) : 1 <= m.id /\ m.id <= used'.ids /\ m.id # 0
    BY <1>2, <2>4, MemberTypes, <1>6 DEF Dealt, n, Members
  <2>6. job' = WriteOf(call.list)
    BY <1>4, <1>9
  <2>7. WriteBegins(call.list, new)
    BY <1>2, <2>3, <2>4, <2>5, <2>6, WriteFacts DEF WriteBegins, Basics
  <2> QED
    BY <1>7, <1>9, <2>7
<1> QED
  BY <1>2, <1>8, <1>9

LEMMA BasicsStart ==
  ASSUME Basics, NEW call \in Calls, Starts(call),
         ClearBegins \/ \E new \in Lists : WriteBegins(call.list, new)
  PROVE  Basics'
<1>1. /\ Tail(tail) \in Seq(Calls) /\ DOMAIN Tail(tail) = 1..(Len(tail) - 1) /\ DOMAIN tail = 1..Len(tail)
      /\ \A k \in 1..(Len(tail) - 1) : k + 1 \in 1..Len(tail) /\ Tail(tail)[k] = tail[k + 1]
      /\ 1 \in 1..Len(tail)
  BY NextCall, TailTypes DEF Starts, Basics
<1>2. job' \in Jobs /\ job'.kind \in {"write", "clear"}
  BY DEF ClearBegins, ClearOf, WriteBegins, NoJob
<1>3. Types'
  BY <1>1, <1>2 DEF Starts, Basics, Types
<1>4. Phases'
  BY <1>1, <1>2 DEF Starts, Basics, Phases
<1>5. used.ids \in Nat /\ used'.ids \in Nat /\ used.ids <= used'.ids
  BY DEF Starts, Basics, Types, Counts
<1>6. \A list \in Lists : (IdsUsed(list, 1) => IdsUsed(list, 1)') /\ (IdsUsed(list, 0) => IdsUsed(list, 0)')
  BY RecordFields, MacroNumbers, <1>5, MemberTypes DEF IdsUsed
<1>7. IdsUsed(job.list, 1)' /\ SoulsUsed(job.list)'
  <2>1. CASE ClearBegins
    <3>1. job'.list = mem.list /\ mem' = mem /\ mem.list \in Lists
      BY <2>1 DEF ClearBegins, ClearOf, NoJob, Starts, Basics, Types, Mems
    <3>2. IdsUsed(mem.list, 1)' /\ SoulsUsed(mem.list)'
      BY <1>6, <3>1 DEF Basics, Counters, Souls, SoulsUsed, Starts
    <3> QED
      BY <3>1, <3>2
  <2>2. ASSUME NEW new \in Lists, WriteBegins(call.list, new)
        PROVE  IdsUsed(job.list, 1)' /\ SoulsUsed(job.list)'
    <3>1. job'.list = new /\ \A m \in Members(new) : 1 <= m.id /\ m.id <= used'.ids
      BY <2>2 DEF WriteBegins
    <3>2. /\ DOMAIN new = 1..Len(new) /\ Len(new) = Len(call.list) /\ call.list \in Lists
          /\ DOMAIN call.list = 1..Len(call.list)
          /\ \A i \in 1..Len(call.list) : new[i].soul = call.list[i].soul
      BY <2>2, MemberTypes DEF WriteBegins, Dealt, Calls
    <3>3. SoulsUsed(call.list)
      BY <1>1 DEF Starts, Basics, Souls
    <3>4. \A m \in Members(new) : \E c \in Members(call.list) : c.soul = m.soul
      BY <3>2 DEF Members
    <3> QED
      BY <3>1, <3>3, <3>4 DEF IdsUsed, SoulsUsed, Starts
  <2> QED
    BY <2>1, <2>2
<1>8. Counters'
  <2>1. disk \in Lists /\ mem.list \in Lists /\ \A k \in 1..Len(tail) : tail[k].list \in Lists
    BY TailTypes DEF Basics, Types, Mems
  <2>2. IdsUsed(disk, 1)' /\ IdsUsed(mem.list, 1)'
    BY <1>6, <2>1 DEF Basics, Counters, Starts, IdsUsed
  <2>4. \A x \in mem.unresolved : x \in Nat
    BY MacroNumbers DEF Basics, Types, Mems
  <2>5. prompt.ref.id \in Nat
    BY MacroNumbers DEF Basics, Types, Prompts, Refs
  <2>6. ASSUME NEW k \in DOMAIN tail'
        PROVE  IdsUsed(tail[k].list, 0)'
    BY <1>1, <2>1, <1>6 DEF Starts, Basics, Counters, IdsUsed
  <2> QED
    BY <1>5, <1>7, <2>2, <2>4, <2>5, <2>6 DEF Counters, Starts, Basics, IdsUsed
<1>9. Souls'
  BY <1>1, <1>7 DEF Souls, SoulsUsed, Starts, Basics
<1> QED
  BY <1>3, <1>4, <1>8, <1>9 DEF Basics

LEMMA SetIds ==
  ASSUME NEW list \in Lists, IdsUsed(list, 1)
  PROVE  \A m \in Members(list) : m.id \in Ids
BY MemberTypes, RecordFields, MacroNumbers DEF IdsUsed

LEMMA BasicsStore ==
  ASSUME Basics, StoreStep, job.stores \subseteq DOMAIN job.list
  PROVE  Basics'
<1>1. PICK i \in job.stores :
        /\ vault' = [vault EXCEPT ![job.list[i].id] = job.list[i].text]
        /\ mem' = [mem EXCEPT !.unresolved = @ \ {job.list[i].id}]
        /\ job' = [job EXCEPT !.stores = @ \ {i}]
  BY DEF StoreStep
<1>2. job.list[i] \in Members(job.list) /\ job.list[i] \in MacroRecords /\ job.list \in Lists
  BY MemberTypes DEF Members, Basics, Types, Jobs
<1>3. vault' \in [Ids -> Texts]
  BY <1>1, <1>2, RecordFields DEF Basics, Types
<1>4. /\ mem' \in Mems /\ mem'.list = mem.list /\ mem'.unresolved \subseteq mem.unresolved
      /\ job' \in Jobs /\ job'.kind = job.kind /\ job'.list = job.list /\ job'.disk = job.disk
  BY <1>1 DEF Basics, Types, Mems, Jobs
<1>5. job.kind # "none" /\ phase # "down"
  BY <1>1 DEF NoJob, Basics, Phases
<1>6. phase # "up" => mem' = NoMem
  <2>1. PICK x : mem' = [mem EXCEPT !.unresolved = @ \ {x}]
    BY <1>1
  <2>2. {} \ {x} = {}
    OBVIOUS
  <2>3. mem' = [list |-> mem.list, unresolved |-> mem.unresolved \ {x}]
    BY <2>1 DEF Basics, Types, Mems
  <2>4. NoMem.unresolved = {} /\ NoMem.list = <<>>
    BY DEF NoMem
  <2>5. mem = NoMem => mem' = [list |-> <<>>, unresolved |-> {}]
    BY <2>2, <2>3, <2>4
  <2> QED
    BY <2>5 DEF Basics, Phases, NoMem
<1>7. Types'
  BY <1>3, <1>4 DEF StoreStep, Basics, Types
<1>8. Phases'
  BY <1>4, <1>5, <1>6 DEF StoreStep, Basics, Phases
<1>9. Counters' /\ Souls'
  BY <1>4 DEF StoreStep, Basics, Counters, Souls, IdsUsed, SoulsUsed
<1> QED
  BY <1>7, <1>8, <1>9 DEF Basics

LEMMA BasicsCommit ==
  ASSUME Basics, CommitStep, IdsUsed(job.disk, 1), SoulsUsed(job.disk)
  PROVE  Basics'
<1>1. /\ job' = [job EXCEPT !.committed = TRUE] /\ disk' = job.disk /\ job # NoJob
      /\ mem' = mem \/ (job.kind = "clear" /\ mem' = NoMem)
  BY DEF CommitStep, Committing, NoMem
<1>2. /\ job' \in Jobs /\ job'.kind = job.kind /\ job'.list = job.list /\ job.disk \in Lists
  BY <1>1 DEF Basics, Types, Jobs
<1>3. NoMem \in Mems /\ Members(NoMem.list) = {} /\ NoMem.unresolved = {} /\ NoMem.list \in Lists
  BY EmptyList DEF NoMem, Mems
<1>4. mem' \in Mems
  BY <1>1, <1>3 DEF Basics, Types
<1>5. dropped' \in SUBSET (1..MaxSouls)
  BY MemberTypes, RecordFields DEF SoulsOf, Basics, Types, Mems, CommitStep
<1>6. Types'
  BY <1>1, <1>2, <1>4, <1>5 DEF CommitStep, Basics, Types
<1>7. Phases'
  BY <1>1, <1>2 DEF CommitStep, Basics, Phases
<1>8. Counters' /\ Souls'
  BY <1>1, <1>2, <1>3 DEF CommitStep, Basics, Counters, Souls, IdsUsed, SoulsUsed
<1> QED
  BY <1>6, <1>7, <1>8 DEF Basics

LEMMA BasicsEnumerate ==
  ASSUME Basics, EnumerateKeys
  PROVE  Basics'
<1>1. /\ job.kind = "clear" /\ used' \in {used, OneOutage}
      /\ \/ job' = [job EXCEPT !.kind = "sweep", !.deletes = IdsOf(job.list) \cup VaultEntries]
         \/ job' = [job EXCEPT !.kind = "known", !.deletes = IdsOf(job.list)]
  BY DEF EnumerateKeys
<1>2. IdsOf(job.list) \in SUBSET Ids /\ VaultEntries \in SUBSET Ids
  BY SetIds DEF IdsOf, VaultEntries, Basics, Types, Jobs, Counters
<1>3. /\ job' \in Jobs /\ job'.kind \in {"sweep", "known"} /\ job'.list = job.list /\ job'.disk = job.disk
  BY ZenonT(30), <1>1, <1>2 DEF Basics, Types, Jobs, Kinds
<1>4. used' \in Counts /\ used'.ids = used.ids /\ used'.souls = used.souls /\ used'.legacy = used.legacy
  BY <1>1 DEF OneOutage, Basics, Types, Counts
<1>5. Types'
  BY <1>3, <1>4 DEF EnumerateKeys, Basics, Types
<1>6. Phases'
  BY <1>1, <1>3 DEF EnumerateKeys, Basics, Phases
<1>7. Counters' /\ Souls'
  BY <1>3, <1>4 DEF EnumerateKeys, Basics, Counters, Souls, IdsUsed, SoulsUsed
<1> QED
  BY <1>5, <1>6, <1>7 DEF Basics

LEMMA BasicsDelete ==
  ASSUME Basics, DeleteStep
  PROVE  Basics'
<1>1. PICK x \in job.deletes :
        /\ vault' = [vault EXCEPT ![x] = Nil]
        /\ mem' = [mem EXCEPT !.unresolved = @ \ {x}]
        /\ job' = [job EXCEPT !.deletes = @ \ {x}]
  BY DEF DeleteStep
<1>2. job.kind \in {"write", "sweep", "known"}
  BY DEF DeleteStep, Deleting
<1>3. vault' \in [Ids -> Texts]
  BY <1>1, TextFacts DEF Basics, Types
<1>4. /\ mem' \in Mems /\ mem'.list = mem.list /\ mem'.unresolved \subseteq mem.unresolved
      /\ job' \in Jobs /\ job'.kind = job.kind /\ job'.list = job.list /\ job'.disk = job.disk
  BY <1>1 DEF Basics, Types, Mems, Jobs
<1>5. Types'
  BY <1>3, <1>4 DEF DeleteStep, Basics, Types
<1>6. Phases'
  BY <1>2, <1>4 DEF DeleteStep, Basics, Phases
<1>7. Counters' /\ Souls'
  BY <1>4 DEF DeleteStep, Basics, Counters, Souls, IdsUsed, SoulsUsed
<1> QED
  BY <1>5, <1>6, <1>7 DEF Basics

LEMMA NoJobFacts ==
  /\ NoJob \in Jobs /\ NoJob.kind = "none" /\ Members(NoJob.list) = {} /\ NoJob.list = <<>> /\ NoJob.disk = <<>>
  /\ NoJob.stores = {} /\ NoJob.deletes = {} /\ ~NoJob.committed
BY EmptyList DEF NoJob, Jobs, Kinds

LEMMA BasicsFinish ==
  ASSUME Basics, FinishJob
  PROVE  Basics'
<1>1. /\ job' = NoJob /\ phase' = phase /\ job.kind \in {"write", "sweep", "known"}
      /\ mem' = mem \/ (job.kind = "write" /\ mem' = [mem EXCEPT !.list = job.list])
  BY DEF FinishJob, Deleting
<1>2. phase = "up"
  BY <1>1 DEF Basics, Phases, Types
<1>3. mem' \in Mems /\ mem'.unresolved = mem.unresolved /\ mem'.list \in {mem.list, job.list}
  BY <1>1 DEF Basics, Types, Mems, Jobs
<1>4. Types'
  BY <1>1, <1>3, NoJobFacts DEF FinishJob, Basics, Types
<1>5. Phases'
  BY <1>1, <1>2, NoJobFacts DEF FinishJob, Basics, Phases
<1>6. Counters' /\ Souls'
  BY <1>1, <1>3, NoJobFacts DEF FinishJob, Basics, Counters, Souls, IdsUsed, SoulsUsed
<1> QED
  BY <1>4, <1>5, <1>6 DEF Basics

LEMMA OutageCounts ==
  ASSUME Types
  PROVE  /\ OneOutage \in Counts /\ OneOutage.ids = used.ids /\ OneOutage.souls = used.souls
         /\ OneOutage.legacy = used.legacy
BY DEF OneOutage, Types, Counts

LEMMA BasicsFails ==
  ASSUME Basics, CallFails
  PROVE  Basics'
<1>1. job' = NoJob /\ used' = OneOutage /\ excused' = excused \cup Unseen(job.list)
  BY DEF CallFails
<1>2. excused' \in SUBSET (1..MaxSouls)
  BY <1>1, UnseenAreSouls DEF Basics, Types, Jobs
<1>3. Types'
  BY <1>1, <1>2, NoJobFacts, OutageCounts DEF CallFails, Basics, Types
<1>4. Phases'
  BY <1>1, NoJobFacts DEF CallFails, Basics, Phases
<1>5. Counters' /\ Souls'
  BY <1>1, NoJobFacts, OutageCounts DEF CallFails, Basics, Counters, Souls, IdsUsed, SoulsUsed
<1> QED
  BY <1>3, <1>4, <1>5 DEF Basics

LEMMA BasicsClearSettings ==
  ASSUME Basics, ClearSettings
  PROVE  Basics'
BY NoJobFacts, OutageCounts DEF ClearSettings, Basics, Types, Phases, Counters, Souls, IdsUsed, SoulsUsed

LEMMA BasicsDies ==
  ASSUME Basics, Dies
  PROVE  Basics'
<1>1. /\ phase' = "down" /\ mem' = NoMem /\ tail' = <<>> /\ job' = NoJob /\ prompt' = NoPrompt
      /\ used' = OneOutage
  BY DEF Dies, NoMem
<1>2. /\ NoMem \in Mems /\ Members(NoMem.list) = {} /\ NoMem.unresolved = {}
      /\ <<>> \in Seq(Calls) /\ DOMAIN <<>> = {} /\ NoPrompt \in Prompts
  BY EmptyList, MacroNumbers DEF NoMem, Mems, NoPrompt, Prompts, Refs
<1>3. Types'
  BY <1>1, <1>2, NoJobFacts, OutageCounts DEF Dies, Basics, Types
<1>4. Phases'
  BY <1>1, <1>2, NoJobFacts DEF Phases
<1>5. Counters' /\ Souls'
  BY <1>1, <1>2, NoJobFacts, OutageCounts DEF Dies, Basics, Counters, Souls, IdsUsed, SoulsUsed
<1> QED
  BY <1>3, <1>4, <1>5 DEF Basics

\* What initialize() starts with.
LEMMA AbsorbedFacts ==
  ASSUME Basics, used.ids < MaxIds
  PROVE  /\ Absorbed(used.ids + 1) \in Lists /\ Len(Absorbed(used.ids + 1)) = Len(disk) + 1
         /\ \A i \in 1..Len(disk) : Absorbed(used.ids + 1)[i] = disk[i]
         /\ Absorbed(used.ids + 1)[Len(disk) + 1].soul = LegacySoul
         /\ Absorbed(used.ids + 1)[Len(disk) + 1].id = used.ids + 1
         /\ Absorbed(used.ids + 1)[Len(disk) + 1].secret
         /\ Absorbed(used.ids + 1)[Len(disk) + 1].text = <<LegacySoul, 1>>
         /\ Absorbed(used.ids + 1)[Len(disk) + 1].had
         /\ \A m \in Members(Absorbed(used.ids + 1)) :
              m \in Members(disk) \/ (m.soul = LegacySoul /\ m.id = used.ids + 1)
<1>1. PICK x : x = used.ids + 1
  OBVIOUS
<1>2. x \in 0..MaxIds /\ LegacySoul \in 1..MaxSouls
  BY <1>1, MacroNumbers DEF Basics, Types, Counts, Souls
<1> DEFINE b == Macro(LegacySoul, x, TRUE, <<LegacySoul, 1>>)
<1>3. /\ b \in MacroRecords /\ b.soul = LegacySoul /\ b.id = x /\ b.secret
      /\ b.text = <<LegacySoul, 1>> /\ b.had
  BY <1>2, TextFacts DEF Macro, MacroRecords
<1>4. Absorbed(x) = Append(disk, b) /\ disk \in Lists
  BY DEF Absorbed, Basics, Types
<1> HIDE DEF b
<1>5. PICK new : new = Absorbed(x)
  OBVIOUS
<1>6. /\ new \in Lists /\ Members(new) = Members(disk) \cup {b} /\ Len(new) = Len(disk) + 1
      /\ new[Len(disk) + 1] = b /\ \A i \in 1..Len(disk) : new[i] = disk[i]
  BY <1>3, <1>4, <1>5, AppendMembers
<1>7. \A m \in Members(new) : m \in Members(disk) \/ (m.soul = LegacySoul /\ m.id = x)
  BY <1>3, <1>6
<1> QED
  BY <1>1, <1>3, <1>5, <1>6, <1>7

\* The three ways of absorbLegacySettingsIfPresent().
Absorbs(list) ==
  /\ legacy /\ ~Recognised /\ used.ids < MaxIds
  /\ list \in Lists /\ Len(list) = Len(disk) + 1
  /\ \A i \in 1..Len(disk) : list[i] = disk[i]
  /\ list[Len(list)].soul = LegacySoul /\ list[Len(list)].id = used.ids + 1 /\ list[Len(list)].secret
  /\ list[Len(list)].text = <<LegacySoul, 1>> /\ list[Len(list)].had
  /\ \A m \in Members(list) : m \in Members(disk) \/ (m.soul = LegacySoul /\ m.id = used.ids + 1)
  /\ job' \in Jobs /\ job'.kind = "absorb" /\ job'.list = list /\ job'.disk = OfDisk(list)
  /\ job'.stores = {Len(list)} /\ ~job'.committed /\ job'.deletes = {}
  /\ used' \in Counts /\ used'.ids = used.ids + 1
  /\ excused' = excused \cup (SoulsOf(disk) \cap {LegacySoul})

StartsWith ==
  /\ phase = "down" /\ phase' = "starting" /\ used'.souls = used.souls /\ used'.legacy = used.legacy
  /\ UNCHANGED <<disk, vault, legacy, mem, tail, prompt, dropped>>
  /\ \/ ~legacy /\ UNCHANGED <<job, used, excused>>
     \/ /\ legacy /\ Recognised /\ UNCHANGED <<used, excused>>
        /\ job' = [NoJob EXCEPT !.kind = "absorb", !.committed = TRUE]
     \/ \E list \in Lists : Absorbs(list)

LEMMA StartBegins ==
  ASSUME Basics, Start
  PROVE  StartsWith
<1>1. CASE /\ legacy /\ ~Recognised
           /\ used.ids < MaxIds
           /\ LET list == Absorbed(used.ids + 1) IN
              job' = [NoJob EXCEPT !.kind = "absorb", !.stores = {Len(list)}, !.list = list,
                                   !.disk = [i \in DOMAIN list |-> ToDisk(list[i])]]
           /\ used' = [used EXCEPT !.ids = @ + 1]
           /\ excused' = excused \cup (SoulsOf(disk) \cap {LegacySoul})
  <2>1. Absorbed(used.ids + 1) \in Lists
    BY <1>1, AbsorbedFacts
  <2>2. PICK list \in Lists : list = Absorbed(used.ids + 1)
    BY <2>1
  <2>3. /\ Len(list) = Len(disk) + 1 /\ \A i \in 1..Len(disk) : list[i] = disk[i]
        /\ list[Len(list)].soul = LegacySoul /\ list[Len(list)].id = used.ids + 1 /\ list[Len(list)].secret
        /\ list[Len(list)].text = <<LegacySoul, 1>> /\ list[Len(list)].had
        /\ \A m \in Members(list) : m \in Members(disk) \/ (m.soul = LegacySoul /\ m.id = used.ids + 1)
    BY <1>1, <2>2, AbsorbedFacts
  <2>4. job' = [NoJob EXCEPT !.kind = "absorb", !.stores = {Len(list)}, !.list = list, !.disk = OfDisk(list)]
    BY <1>1, <2>2 DEF OfDisk
  <2>5. OfDisk(list) \in Lists /\ Len(list) \in Nat
    BY OfDiskFacts, MemberTypes
  <2>6. /\ job' \in Jobs /\ job'.kind = "absorb" /\ job'.list = list /\ job'.disk = OfDisk(list)
        /\ job'.stores = {Len(list)} /\ ~job'.committed /\ job'.deletes = {}
    BY <2>4, <2>5 DEF Jobs, Kinds, NoJob
  <2>7. used' \in Counts /\ used'.ids = used.ids + 1 /\ used'.souls = used.souls /\ used'.legacy = used.legacy
    BY SMTT(30), <1>1, MacroNumbers DEF Basics, Types, Counts
  <2>8. Absorbs(list)
    BY <1>1, <2>3, <2>6, <2>7 DEF Absorbs
  <2> QED
    BY <1>1, <2>7, <2>8 DEF Start, StartsWith
<1>2. CASE ~legacy /\ UNCHANGED <<job, used, excused>>
  BY <1>2 DEF Start, StartsWith
<1>3. CASE /\ legacy /\ Recognised
           /\ job' = [NoJob EXCEPT !.kind = "absorb", !.committed = TRUE]
           /\ UNCHANGED <<used, excused>>
  BY <1>3 DEF Start, StartsWith
<1> QED
  BY <1>1, <1>2, <1>3 DEF Start

LEMMA BasicsBegin ==
  ASSUME Basics, StartsWith
  PROVE  Basics'
<1>1. mem = NoMem /\ tail = <<>> /\ prompt = NoPrompt /\ job = NoJob /\ used.ids \in Nat
  BY MacroNumbers DEF StartsWith, Basics, Phases, Types, Counts
<1>2. CASE ~legacy /\ UNCHANGED <<job, used, excused>>
  BY <1>1, <1>2, NoJobFacts DEF StartsWith, Basics, Types, Phases, Counters, Souls, IdsUsed, SoulsUsed
<1>3. CASE /\ legacy /\ Recognised /\ UNCHANGED <<used, excused>>
           /\ job' = [NoJob EXCEPT !.kind = "absorb", !.committed = TRUE]
  <2>1. job' \in Jobs /\ job'.kind = "absorb" /\ job'.list = NoJob.list
    BY <1>3, NoJobFacts DEF Jobs, Kinds
  <2>2. Types' /\ Phases'
    BY <1>1, <1>3, <2>1 DEF StartsWith, Basics, Types, Phases
  <2>3. Counters' /\ Souls'
    BY <1>1, <1>3, <2>1 DEF StartsWith, Basics, Counters, Souls, IdsUsed, SoulsUsed
  <2> QED
    BY <2>2, <2>3 DEF Basics
<1>4. ASSUME NEW list \in Lists, Absorbs(list)
      PROVE  Basics'
  <2>1. /\ job' \in Jobs /\ job'.kind = "absorb" /\ job'.list = list /\ used' \in Counts
        /\ used'.ids = used.ids + 1 /\ used'.souls = used.souls
        /\ excused' = excused \cup (SoulsOf(disk) \cap {LegacySoul})
    BY <1>4 DEF Absorbs, StartsWith
  <2>2. excused' \in SUBSET (1..MaxSouls)
    BY <2>1, MacroNumbers, MemberTypes, RecordFields DEF Basics, Types, SoulsOf
  <2>3. Types' /\ Phases'
    BY <1>1, <2>1, <2>2 DEF StartsWith, Basics, Types, Phases
  <2>4. \A m \in Members(disk) : 1 <= m.id /\ m.id <= used'.ids
    BY MemberTypes, RecordFields, MacroNumbers, <1>1, <2>1 DEF Basics, Counters, IdsUsed, Types
  <2>5. IdsUsed(job.list, 1)' /\ IdsUsed(disk, 1)'
    BY <1>1, <1>4, <2>1, <2>4 DEF Absorbs, StartsWith, IdsUsed
  <2>6. SoulsUsed(job.list)' /\ SoulsUsed(disk)'
    BY <1>4, <2>1 DEF Absorbs, StartsWith, SoulsUsed, Basics, Souls
  <2>7. Members(<<>>) = {} /\ NoMem.list = <<>> /\ NoMem.unresolved = {}
    BY EmptyList DEF NoMem
  <2>8. Counters' /\ Souls'
    BY <1>1, <2>1, <2>5, <2>6, <2>7 DEF StartsWith, Basics, Counters, Souls, IdsUsed, SoulsUsed
  <2> QED
    BY <2>3, <2>8 DEF Basics
<1> QED
  BY <1>2, <1>3, <1>4 DEF StartsWith

\* reloadFromState()
Loaded(silent) ==
  [i \in DOMAIN disk |->
     IF ~disk[i].secret THEN disk[i]
     ELSE [disk[i] EXCEPT !.text = IF disk[i].id \in silent THEN Blank ELSE vault[disk[i].id]]]

Loads(list, silent) ==
  /\ phase = "starting" /\ job = NoJob /\ phase' = "up"
  /\ mem' = [list |-> list, unresolved |-> silent] /\ mem' \in Mems
  /\ Len(list) = Len(disk)
  /\ \A x \in silent : \E m \in Members(disk) : m.secret /\ m.id = x
  /\ \A i \in 1..Len(disk) :
       /\ list[i].soul = disk[i].soul /\ list[i].id = disk[i].id
       /\ list[i].secret = disk[i].secret /\ list[i].had = disk[i].had
       /\ disk[i].secret /\ disk[i].id \notin silent => list[i].text = vault[disk[i].id]
       /\ disk[i].secret /\ disk[i].id \in silent => list[i].text = Blank
  /\ used' \in Counts /\ used'.ids = used.ids /\ used'.souls = used.souls /\ used'.legacy = used.legacy
  /\ UNCHANGED <<disk, vault, legacy, tail, job, prompt, dropped, excused>>

LEMMA LoadReads ==
  ASSUME Basics, Load
  PROVE  \E silent \in SUBSET Ids : \E list \in Lists : Loads(list, silent)
<1> DEFINE secrets == {m.id : m \in {m \in Members(disk) : m.secret}}
<1>1. PICK deaf \in {{}} \cup (IF Outage THEN {secrets} ELSE {}) :
        /\ mem' = [list |-> Loaded(deaf \cup {x \in secrets : vault[x] = Nil}),
                   unresolved |-> deaf \cup {x \in secrets : vault[x] = Nil}]
        /\ used' = IF deaf = {} THEN used ELSE OneOutage
  BY DEF Load, Loaded
<1>2. PICK silent : silent = deaf \cup {x \in secrets : vault[x] = Nil}
  OBVIOUS
<1>3. deaf \subseteq secrets
  BY <1>1
<1>4. secrets \in SUBSET Ids /\ \A x \in secrets : \E m \in Members(disk) : m.secret /\ m.id = x
  BY SetIds DEF Basics, Types, Counters
<1>5. /\ disk \in Lists /\ DOMAIN disk = 1..Len(disk) /\ Len(disk) \in Nat
      /\ \A i \in 1..Len(disk) : disk[i] \in MacroRecords /\ disk[i] \in Members(disk)
  BY MemberTypes DEF Basics, Types
<1>6. silent \in SUBSET Ids /\ silent \subseteq secrets
  BY <1>2, <1>3, <1>4
<1>7. ASSUME NEW i \in 1..Len(disk), disk[i].secret, disk[i].id \notin silent
      PROVE  vault[disk[i].id] \in Texts \ {Nil}
  BY <1>5, <1>7, <1>2, <1>4 DEF Basics, Types
<1>8. Blank \in Texts \ {Nil}
  BY TextFacts
<1>9. ASSUME NEW i \in 1..Len(disk)
      PROVE  /\ Loaded(silent)[i] \in MacroRecords
             /\ Loaded(silent)[i].soul = disk[i].soul /\ Loaded(silent)[i].id = disk[i].id
             /\ Loaded(silent)[i].secret = disk[i].secret /\ Loaded(silent)[i].had = disk[i].had
             /\ disk[i].secret /\ disk[i].id \notin silent => Loaded(silent)[i].text = vault[disk[i].id]
             /\ disk[i].secret /\ disk[i].id \in silent => Loaded(silent)[i].text = Blank
  <2>1. PICK text : text = IF disk[i].id \in silent THEN Blank ELSE vault[disk[i].id]
    OBVIOUS
  <2>2. Loaded(silent)[i] = IF ~disk[i].secret THEN disk[i] ELSE [disk[i] EXCEPT !.text = text]
    BY <1>5, <2>1 DEF Loaded
  <2>3. disk[i].secret => text \in Texts \ {Nil}
    BY <1>7, <1>8, <2>1
  <2>4. disk[i] \in MacroRecords
    BY <1>5
  <2>5. CASE ~disk[i].secret
    BY <2>2, <2>4, <2>5
  <2>6. CASE disk[i].secret
    <3>1. Loaded(silent)[i] = [disk[i] EXCEPT !.text = text]
      BY <2>2, <2>6
    <3>2. /\ Loaded(silent)[i] \in MacroRecords /\ Loaded(silent)[i].text = text
          /\ Loaded(silent)[i].soul = disk[i].soul /\ Loaded(silent)[i].id = disk[i].id
          /\ Loaded(silent)[i].secret = disk[i].secret /\ Loaded(silent)[i].had = disk[i].had
      BY <2>3, <2>4, <2>6, <3>1 DEF MacroRecords
    <3> QED
      BY <2>1, <3>2
  <2> QED
    BY <2>5, <2>6
<1>10. Loaded(silent) \in Lists /\ Len(Loaded(silent)) = Len(disk)
  BY <1>5, <1>9 DEF Loaded, Lists
<1>11. PICK list \in Lists : list = Loaded(silent)
  BY <1>10
<1>12. mem' = [list |-> list, unresolved |-> silent]
  BY <1>1, <1>2, <1>11
<1>13. mem' \in Mems
  BY <1>6, <1>12 DEF Mems
<1>14. used' \in Counts /\ used'.ids = used.ids /\ used'.souls = used.souls /\ used'.legacy = used.legacy
  BY <1>1, OutageCounts DEF Basics, Types, Counts
<1>15. \A x \in silent : \E m \in Members(disk) : m.secret /\ m.id = x
  BY <1>4, <1>6
<1> HIDE DEF secrets
<1>16. Loads(list, silent)
  BY <1>9, <1>10, <1>11, <1>12, <1>13, <1>14, <1>15 DEF Loads, Load
<1> QED
  BY <1>6, <1>16

LEMMA BasicsLoads ==
  ASSUME Basics, NEW silent \in SUBSET Ids, NEW list \in Lists, Loads(list, silent)
  PROVE  Basics'
<1>1. /\ mem' \in Mems /\ mem'.list = list /\ mem'.unresolved = silent /\ phase = "starting" /\ phase' = "up"
      /\ job = NoJob /\ tail = <<>> /\ prompt = NoPrompt
  BY DEF Loads, Basics, Phases
<1>2. \A m \in Members(list) : \E d \in Members(disk) : d.soul = m.soul /\ d.id = m.id
  <2>1. DOMAIN list = 1..Len(disk) /\ DOMAIN disk = 1..Len(disk)
    BY MemberTypes DEF Loads, Basics, Types
  <2> QED
    BY <2>1 DEF Loads, Members
<1>3. Types'
  BY <1>1 DEF Loads, Basics, Types
<1>4. Phases'
  BY <1>1, NoJobFacts DEF Loads, Phases
<1>5. IdsUsed(list, 1) /\ SoulsUsed(list) /\ \A x \in silent : x <= used.ids
  BY <1>2 DEF Loads, Basics, Counters, Souls, IdsUsed, SoulsUsed
<1>6. Counters' /\ Souls'
  BY <1>1, <1>5 DEF Loads, Basics, Counters, Souls, IdsUsed, SoulsUsed
<1> QED
  BY <1>3, <1>4, <1>6 DEF Basics

LEMMA BasicsSave ==
  ASSUME Basics, NEW kind \in {"save", "clear"}, NEW list \in Lists, SaveOf(kind, list)
  PROVE  Basics'
<1>1. PICK call \in Calls : call = [kind |-> kind, list |-> list]
  BY DEF Calls
<1>2. call.kind = kind /\ call.list = list /\ tail' = Append(tail, call)
  BY <1>1 DEF SaveOf
<1>3. /\ tail' \in Seq(Calls) /\ DOMAIN tail' = 1..(Len(tail) + 1)
      /\ DOMAIN tail = 1..Len(tail) /\ Len(tail) \in Nat
      /\ \A k \in 1..Len(tail) : tail'[k] = tail[k]
      /\ tail'[Len(tail) + 1] = call
  BY <1>2 DEF Basics, Types
<1>4. NoPrompt \in Prompts
  BY MacroNumbers DEF NoPrompt, Prompts, Refs
<1>5. Types'
  BY <1>3, <1>4 DEF SaveOf, Basics, Types
<1>6. Phases'
  BY <1>2, <1>3 DEF SaveOf, Basics, Phases
<1>7. \A k \in 1..(Len(tail) + 1) : k \in 1..Len(tail) \/ k = Len(tail) + 1
  BY <1>3
<1>8. \A m \in Members(list) : 0 <= m.id /\ m.id <= used.ids
  <2>1. \A m \in Members(list) : m \in Members(mem.list) \/ Edited(m, excused') \/ Newborn(m)
    BY DEF SaveOf, Saves
  <2>2. \A m \in Members(mem.list) : 1 <= m.id /\ m.id <= used.ids /\ m.id \in Nat
    BY MemberTypes, RecordFields, MacroNumbers DEF Basics, Counters, IdsUsed, Types, Mems
  <2>3. used.ids \in Nat
    BY MacroNumbers DEF Basics, Types, Counts
  <2> QED
    BY <2>1, <2>2, <2>3 DEF Edited, Newborn
<1>9. \A k \in DOMAIN tail' : \A m \in Members(tail'[k].list) : 0 <= m.id /\ m.id <= used.ids
  BY <1>2, <1>3, <1>7, <1>8 DEF Basics, Counters, IdsUsed
<1>10. Counters'
  BY <1>9 DEF SaveOf, Basics, Counters, IdsUsed
<1>11. ASSUME NEW any \in Lists, SoulsUsed(any)
       PROVE  \A m \in Members(any) : m.soul <= used'.souls \/ m.soul = LegacySoul
  BY MemberTypes, RecordFields, MacroNumbers, <1>11 DEF SaveOf, Basics, Types, Counts, SoulsUsed
<1>12. \A k \in DOMAIN tail' : \A m \in Members(tail'[k].list) : m.soul <= used'.souls \/ m.soul = LegacySoul
  BY <1>3, <1>11, TailTypes, <1>2, <1>7 DEF Basics, Souls, SaveOf
<1>13. /\ \A m \in Members(disk) : m.soul <= used'.souls \/ m.soul = LegacySoul
       /\ \A m \in Members(mem.list) : m.soul <= used'.souls \/ m.soul = LegacySoul
       /\ \A m \in Members(job.list) : m.soul <= used'.souls \/ m.soul = LegacySoul
  BY <1>11 DEF Basics, Types, Mems, Jobs, Souls
<1>14. Souls'
  BY <1>12, <1>13 DEF SaveOf, Souls, SoulsUsed
<1> QED
  BY <1>5, <1>6, <1>10, <1>14 DEF Basics

LEMMA BasicsPrompt ==
  ASSUME Basics, PromptStep
  PROVE  Basics'
<1>1. NoPrompt \in Prompts /\ NoPrompt.ref.id = 0
  BY MacroNumbers DEF NoPrompt, Prompts, Refs
<1>2. CASE prompt' = NoPrompt
  BY <1>1, <1>2 DEF PromptStep, Basics, Types, Phases, Counters, Souls, IdsUsed, SoulsUsed
<1>3. ASSUME phase = "up", NEW op \in {"remove", "paste", "form"}, NEW i \in DOMAIN mem.list, NEW index \in Nat,
             prompt' = Prompt(op, i, index)
      PROVE  Basics'
  <2>1. mem.list[i] \in Members(mem.list) /\ mem.list[i] \in MacroRecords
    BY MemberTypes DEF Basics, Types, Mems
  <2>2. PICK r \in MacroRecords : r = mem.list[i]
    BY <2>1
  <2>3. r.soul \in 0..MaxSouls /\ r.id \in 0..MaxIds
    BY <2>2, RecordFields, MacroNumbers
  <2>4. IdProvenance(mem.list, r.id) \in {"absent", "unique", "ambiguous"}
    BY DEF IdProvenance
  <2>5. CaptureMacroRef(mem.list, r.id, index) \in Refs /\ CaptureMacroRef(mem.list, r.id, index).id = r.id
    BY <2>3, <2>4 DEF CaptureMacroRef, Refs
  <2>6. Sole(r) \in BOOLEAN
    BY DEF Sole
  <2>7. prompt' \in Prompts /\ prompt'.ref.id = r.id
    BY <1>3, <2>2, <2>3, <2>5, <2>6 DEF Prompt, Prompts
  <2>8. Types' /\ Phases'
    BY <1>3, <2>7 DEF PromptStep, Basics, Types, Phases
  <2>9. Counters' /\ Souls'
    BY <2>1, <2>2, <2>7 DEF PromptStep, Basics, Counters, Souls, IdsUsed, SoulsUsed
  <2> QED
    BY <2>8, <2>9 DEF Basics
<1> QED
  BY <1>2, <1>3 DEF PromptStep

LEMMA InitialList ==
  ASSUME MacroInit
  PROVE  /\ disk \in Lists /\ Len(disk) < LegacySoul /\ Len(disk) <= MaxIds /\ Len(disk) \in Nat
         /\ DOMAIN disk = 1..Len(disk)
         /\ \A m \in Members(disk) : m \in MacroRecords /\ m.soul \in 1..Len(disk) /\ m.id \in 1..Len(disk)
         /\ \A i, j \in DOMAIN disk : disk[i].soul = disk[j].soul => i = j
BY DiskAssumption, MemberTypes DEF MacroInit, Lists, Members

LEMMA BasicsInit ==
  ASSUME MacroInit
  PROVE  Basics
<1>1. /\ mem = NoMem /\ tail = <<>> /\ job = NoJob /\ prompt = NoPrompt /\ phase = "down" /\ dropped = {}
      /\ legacy \in BOOLEAN /\ excused = {m.soul : m \in Sharing(disk)}
      /\ used = [souls |-> Len(disk), ids |-> Len(disk), edits |-> 0, outages |-> 0, legacy |-> legacy]
  BY DEF MacroInit, NoMem
<1>2. /\ NoMem \in Mems /\ Members(NoMem.list) = {} /\ NoMem.unresolved = {}
      /\ <<>> \in Seq(Calls) /\ DOMAIN <<>> = {} /\ NoPrompt \in Prompts
  BY EmptyList, MacroNumbers DEF NoMem, Mems, NoPrompt, Prompts, Refs
<1>3. /\ used \in Counts /\ used.ids = Len(disk) /\ used.souls = Len(disk)
  BY <1>1, InitialList, MacroNumbers DEF Counts
<1>4. excused \in SUBSET (1..MaxSouls)
  BY InitialList, RecordFields, <1>1 DEF Sharing
<1>5. vault \in [Ids -> Texts]
  BY InitialList, RecordFields, TextFacts DEF MacroInit
<1>6. Types
  BY <1>1, <1>2, <1>3, <1>4, <1>5, InitialList, NoJobFacts DEF Types
<1>7. Phases
  BY <1>1, <1>2, NoJobFacts DEF Phases
<1>8. \A m \in Members(disk) : 1 <= m.id /\ m.id <= used.ids /\ m.soul <= used.souls
  BY <1>3, InitialList
<1>9. Counters
  BY <1>1, <1>2, <1>8, NoJobFacts DEF Counters, IdsUsed
<1>10. Souls
  BY <1>1, <1>2, <1>3, <1>8, NoJobFacts, InitialList DEF Souls, SoulsUsed
<1> QED
  BY <1>6, <1>7, <1>9, <1>10 DEF Basics

------------------------------------------------------------------------------
(* The call that is executed *)

Distinct(list) == \A i, j \in DOMAIN list : list[i].id = list[j].id => i = j

JobShape ==
  /\ job.stores \subseteq DOMAIN job.list /\ (job.committed => job.stores = {})
  /\ job.kind \in {"none", "write", "absorb"} => job.disk = OfDisk(job.list)
  /\ job.kind \in {"clear", "sweep", "known"} => job.disk = <<>> /\ job.stores = {}

\* A text goes to an id that no other macro of the list has.
LoneStores ==
  \A i \in job.stores :
    /\ job.list[i].secret /\ (job.list[i].text # Blank \/ job.list[i].id \notin mem.unresolved)
    /\ \A j \in DOMAIN job.list : job.list[j].id = job.list[i].id => j = i

WriteInv ==
  job.kind = "write" =>
    /\ Distinct(job.list)
    /\ \A m \in Members(job.list) : m.secret => m.id \notin job.deletes
    /\ job.committed => disk = job.disk /\ SoulsOf(mem.list) \ SoulsOf(job.list) \subseteq dropped

WipeInv ==
  job.kind \in {"clear", "sweep", "known"} =>
    /\ job.committed => disk = <<>> /\ mem = NoMem
    /\ job.kind # "clear" => job.committed
    /\ job.kind = "sweep" => \A x \in Ids : vault[x] # Nil => x \in job.deletes

AbsorbInv ==
  job.kind = "absorb" =>
    /\ job.deletes = {}
    /\ LegacySoul \in IF job.committed THEN SoulsOf(disk) ELSE SoulsOf(job.disk)

JobInv == JobShape /\ LoneStores /\ WriteInv /\ WipeInv /\ AbsorbInv /\ LegacyKept

LEMMA OfDiskMembers ==
  ASSUME NEW list \in Lists
  PROVE  /\ \A m \in Members(OfDisk(list)) : \E r \in Members(list) : m = ToDisk(r)
         /\ \A r \in Members(list) : ToDisk(r) \in Members(OfDisk(list))
         /\ \A m \in Members(OfDisk(list)) : \E r \in Members(list) : m.soul = r.soul /\ m.id = r.id
         /\ SoulsOf(OfDisk(list)) = SoulsOf(list)
BY MemberTypes, ToDiskFacts DEF OfDisk, Members, SoulsOf

LEMMA NothingToDisk == OfDisk(<<>>) = <<>>
BY DEF OfDisk

LEMMA JobEnds ==
  ASSUME job' = NoJob, LegacyKept'
  PROVE  JobInv'
BY NothingToDisk, NoJobFacts DEF JobInv, JobShape, LoneStores, WriteInv, WipeInv, AbsorbInv

LEMMA SilentFacts ==
  ASSUME Basics, NEW list \in Lists, IdsUsed(list, 0), NEW new \in Lists, Dealt(list, new),
         NEW i \in 1..Len(list), ~Silent(list, i)
  PROVE  new[i].text # Blank \/ new[i].id \notin mem.unresolved
<1>1. /\ new[i].text = list[i].text /\ (new[i].id = list[i].id \/ new[i].id > used.ids)
  BY DEF Dealt
<1>2. new[i].id > used.ids => new[i].id \notin mem.unresolved
  BY MacroNumbers DEF Basics, Counters, Types, Counts, Mems
<1> QED
  BY <1>1, <1>2 DEF Silent

LEMMA JobInvStart ==
  ASSUME Basics, JobInv, NEW call \in Calls, Starts(call),
         ClearBegins \/ \E new \in Lists : WriteBegins(call.list, new)
  PROVE  JobInv'
<1>0. LegacyKept'
  BY DEF Starts, JobInv, LegacyKept
<1>1. CASE ClearBegins
  <2>1. job'.kind = "clear" /\ job'.stores = {} /\ job'.disk = <<>> /\ ~job'.committed
    BY <1>1 DEF ClearBegins, ClearOf, NoJob
  <2> QED
    BY <1>0, <2>1 DEF JobInv, JobShape, LoneStores, WriteInv, WipeInv, AbsorbInv
<1>2. ASSUME NEW new \in Lists, WriteBegins(call.list, new)
      PROVE  JobInv'
  <2>1. /\ job'.kind = "write" /\ ~job'.committed /\ job'.list = new /\ job'.disk = OfDisk(new)
        /\ job'.stores = {i \in DOMAIN new : new[i].secret /\ ~Silent(call.list, i)}
        /\ \A x \in job'.deletes : (\E m \in Members(new) : m.id = x /\ ~m.secret) \/ x \notin IdsOf(new)
        /\ \A m \in Members(new) : 1 <= m.id
    BY <1>2 DEF WriteBegins
  <2>2. /\ call.list \in Lists /\ Dealt(call.list, new) /\ DOMAIN new = 1..Len(call.list) /\ DOMAIN call.list = 1..Len(call.list)
    BY <1>2, MemberTypes DEF WriteBegins, Dealt, Calls
  <2>3. Distinct(new)
    BY <2>2 DEF Dealt, Distinct
  <2>4. IdsUsed(call.list, 0)
    BY NextCall, TailTypes DEF Starts, Basics, Counters
  <2>5. \A i \in job'.stores : new[i].secret /\ (new[i].text # Blank \/ new[i].id \notin mem.unresolved)
    BY <2>1, <2>2, <2>4, SilentFacts
  <2>6. LoneStores'
    BY <2>1, <2>3, <2>5 DEF LoneStores, Distinct, Starts
  <2>7. ASSUME NEW m \in Members(new), m.secret, m.id \in job'.deletes
        PROVE  FALSE
    <3>1. m.id \in IdsOf(new)
      BY <2>1, MemberTypes, RecordFields, MacroNumbers DEF IdsOf
    <3>2. PICK n \in Members(new) : n.id = m.id /\ ~n.secret
      BY <2>1, <2>7, <3>1
    <3>3. n = m
      BY <2>3, <3>2 DEF Distinct, Members
    <3> QED
      BY <2>7, <3>2, <3>3
  <2>8. WriteInv'
    BY <2>1, <2>3, <2>7 DEF WriteInv
  <2>9. JobShape' /\ WipeInv' /\ AbsorbInv'
    BY <2>1 DEF JobShape, WipeInv, AbsorbInv
  <2> QED
    BY <1>0, <2>6, <2>8, <2>9 DEF JobInv
<1> QED
  BY <1>1, <1>2

LEMMA JobInvStore ==
  ASSUME Basics, JobInv, StoreStep
  PROVE  JobInv'
<1>1. PICK i \in job.stores :
        /\ mem' = [mem EXCEPT !.unresolved = @ \ {job.list[i].id}]
        /\ job' = [job EXCEPT !.stores = @ \ {i}]
  BY DEF StoreStep
<1>2. /\ mem'.list = mem.list /\ mem'.unresolved \subseteq mem.unresolved
      /\ job'.kind = job.kind /\ job'.list = job.list /\ job'.disk = job.disk /\ job'.stores \subseteq job.stores
      /\ job'.committed = job.committed /\ job'.deletes = job.deletes
  BY <1>1 DEF Basics, Types, Mems, Jobs
<1>3. job.stores # {} /\ ~job.committed /\ job.kind \notin {"clear", "sweep", "known"}
  BY <1>1 DEF JobInv, JobShape, WipeInv
<1>4. JobShape' /\ LoneStores'
  BY <1>2 DEF JobInv, JobShape, LoneStores
<1>5. WriteInv'
  BY <1>2, <1>3 DEF JobInv, WriteInv
<1>6. WipeInv' /\ AbsorbInv' /\ LegacyKept'
  BY <1>2, <1>3 DEF JobInv, WipeInv, AbsorbInv, LegacyKept, StoreStep
<1> QED
  BY <1>4, <1>5, <1>6 DEF JobInv

LEMMA JobInvCommit ==
  ASSUME Basics, JobInv, CommitStep
  PROVE  JobInv'
<1>1. /\ job' = [job EXCEPT !.committed = TRUE] /\ disk' = job.disk /\ job # NoJob /\ job.stores = {}
      /\ ~job.committed
      /\ mem' = IF job.kind = "clear" THEN NoMem ELSE mem
      /\ dropped' = dropped \cup ((SoulsOf(mem.list) \cup SoulsOf(disk)) \ SoulsOf(job.disk))
      /\ legacy' = legacy /\ used' = used
  BY DEF CommitStep, Committing, NoMem
<1>2. /\ job'.kind = job.kind /\ job'.list = job.list /\ job'.disk = job.disk /\ job'.stores = {}
      /\ job'.committed /\ job'.deletes = job.deletes /\ job.list \in Lists
  BY <1>1 DEF Basics, Types, Jobs
<1>3. JobShape' /\ LoneStores'
  BY <1>1, <1>2 DEF JobInv, JobShape, LoneStores
<1>4. WriteInv'
  BY <1>2, OfDiskMembers, <1>1 DEF JobInv, JobShape, WriteInv
<1>5. WipeInv'
  BY <1>1, <1>2 DEF JobInv, WipeInv, JobShape
<1>6. AbsorbInv'
  BY <1>1, <1>2 DEF JobInv, AbsorbInv
<1>7. LegacyKept'
  BY <1>1 DEF JobInv, LegacyKept
<1> QED
  BY <1>3, <1>4, <1>5, <1>6, <1>7 DEF JobInv

LEMMA JobInvEnumerate ==
  ASSUME Basics, JobInv, EnumerateKeys
  PROVE  JobInv'
<1>1. /\ job.kind = "clear" /\ job.committed /\ used'.legacy = used.legacy
      /\ \/ job' = [job EXCEPT !.kind = "sweep", !.deletes = IdsOf(job.list) \cup VaultEntries]
         \/ job' = [job EXCEPT !.kind = "known", !.deletes = IdsOf(job.list)]
      /\ UNCHANGED <<disk, vault, legacy, mem, dropped>>
  BY OutageCounts DEF EnumerateKeys, Basics
<1>2. /\ job'.list = job.list /\ job'.disk = job.disk /\ job'.stores = job.stores
      /\ job'.committed /\ job'.kind \in {"sweep", "known"}
      /\ job'.kind = "sweep" => VaultEntries \subseteq job'.deletes
  BY <1>1 DEF Basics, Types, Jobs
<1>3. JobShape' /\ LoneStores'
  BY <1>1, <1>2 DEF JobInv, JobShape, LoneStores
<1>4. WriteInv' /\ AbsorbInv'
  BY <1>2 DEF WriteInv, AbsorbInv
<1>5. WipeInv'
  BY <1>1, <1>2 DEF JobInv, WipeInv, VaultEntries
<1>6. LegacyKept'
  BY <1>1 DEF JobInv, LegacyKept
<1> QED
  BY <1>3, <1>4, <1>5, <1>6 DEF JobInv

LEMMA JobInvDelete ==
  ASSUME Basics, JobInv, DeleteStep
  PROVE  JobInv'
<1>1. PICK x \in job.deletes :
        /\ vault' = [vault EXCEPT ![x] = Nil]
        /\ mem' = [mem EXCEPT !.unresolved = @ \ {x}]
        /\ job' = [job EXCEPT !.deletes = @ \ {x}]
  BY DEF DeleteStep
<1>2. /\ mem'.list = mem.list /\ mem'.unresolved = mem.unresolved \ {x}
      /\ job'.kind = job.kind /\ job'.list = job.list /\ job'.disk = job.disk /\ job'.stores = job.stores
      /\ job'.committed = job.committed /\ job'.deletes = job.deletes \ {x}
      /\ disk' = disk /\ dropped' = dropped /\ legacy' = legacy /\ used' = used
      /\ job.committed
  BY <1>1 DEF Basics, Types, Mems, Jobs, DeleteStep, Deleting
<1>3. JobShape' /\ LoneStores'
  BY <1>2 DEF JobInv, JobShape, LoneStores
<1>4. WriteInv'
  BY <1>2 DEF JobInv, WriteInv
<1>5. WipeInv'
  <2>1. mem = NoMem => mem' = NoMem
    <3>1. mem' = [list |-> mem.list, unresolved |-> mem.unresolved \ {x}]
      BY <1>1 DEF Basics, Types, Mems
    <3>2. NoMem.unresolved \ {x} = {} /\ NoMem.list = <<>>
      BY DEF NoMem
    <3> QED
      BY <3>1, <3>2 DEF NoMem
  <2>2. \A y \in Ids : y # x => vault'[y] = vault[y]
    BY <1>1 DEF Basics, Types
  <2>3. vault'[x] = Nil
    BY <1>1 DEF Basics, Types, Jobs
  <2> QED
    BY <1>2, <2>1, <2>2, <2>3 DEF JobInv, WipeInv
<1>6. AbsorbInv' /\ LegacyKept'
  BY <1>2 DEF JobInv, AbsorbInv, LegacyKept
<1> QED
  BY <1>3, <1>4, <1>5, <1>6 DEF JobInv

LEMMA JobInvEnds ==
  ASSUME Basics, JobInv, FinishJob \/ CallFails \/ ClearSettings \/ Dies
  PROVE  JobInv'
BY OutageCounts, JobEnds DEF FinishJob, CallFails, ClearSettings, Dies, Basics, JobInv, AbsorbInv, LegacyKept

LEMMA JobInvBegin ==
  ASSUME Basics, JobInv, StartsWith
  PROVE  JobInv'
<1>1. LegacyKept'
  BY DEF StartsWith, JobInv, LegacyKept
<1>2. job = NoJob /\ mem = NoMem /\ mem' = mem /\ disk' = disk
  BY DEF StartsWith, Basics, Phases
<1>3. CASE UNCHANGED job
  BY <1>1, <1>2, <1>3, JobEnds
<1>4. CASE Recognised /\ job' = [NoJob EXCEPT !.kind = "absorb", !.committed = TRUE]
  <2>1. /\ job'.kind = "absorb" /\ job'.committed /\ job'.list = <<>> /\ job'.disk = <<>> /\ job'.stores = {}
        /\ job'.deletes = {}
    BY <1>4, NoJobFacts DEF NoJob
  <2>2. LegacySoul \in SoulsOf(disk)
    BY <1>4 DEF Recognised, SoulsOf
  <2> QED
    BY <1>1, <1>2, <2>1, <2>2, NothingToDisk DEF JobInv, JobShape, LoneStores, WriteInv, WipeInv, AbsorbInv
<1>5. ASSUME NEW list \in Lists, Absorbs(list)
      PROVE  JobInv'
  <2>1. /\ job'.kind = "absorb" /\ job'.list = list /\ job'.disk = OfDisk(list)
        /\ job'.stores = {Len(list)} /\ ~job'.committed /\ job'.deletes = {}
        /\ list[Len(list)].soul = LegacySoul /\ list[Len(list)].id = used.ids + 1 /\ list[Len(list)].secret
        /\ list[Len(list)].text = <<LegacySoul, 1>>
        /\ Len(list) = Len(disk) + 1 /\ \A i \in 1..Len(disk) : list[i] = disk[i]
    BY <1>5 DEF Absorbs
  <2>2. /\ DOMAIN list = 1..Len(list) /\ Len(disk) \in Nat /\ \A i \in 1..Len(list) : list[i] \in Members(list)
        /\ \A i \in 1..Len(disk) : disk[i] \in Members(disk) /\ disk[i].id <= used.ids /\ disk[i].id \in Nat
        /\ used.ids \in Nat
    BY MemberTypes, RecordFields, MacroNumbers DEF Basics, Types, Counters, IdsUsed, Counts
  <2>3. Len(list) \in DOMAIN list /\ \A j \in DOMAIN list : j = Len(list) \/ j \in 1..Len(disk)
    BY <2>1, <2>2
  <2>4. \A j \in DOMAIN list : list[j].id = used.ids + 1 => j = Len(list)
    BY <2>1, <2>2, <2>3
  <2>5. <<LegacySoul, 1>> # Blank
    BY DEF Blank
  <2>6. JobShape' /\ LoneStores'
    BY <2>1, <2>3, <2>4, <2>5 DEF JobShape, LoneStores
  <2>7. LegacySoul \in SoulsOf(list)
    BY <2>1, <2>2, <2>3 DEF SoulsOf
  <2>8. LegacySoul \in SoulsOf(OfDisk(list))
    BY <2>7, OfDiskMembers
  <2> QED
    BY <1>1, <2>1, <2>6, <2>8 DEF JobInv, WriteInv, WipeInv, AbsorbInv
<1> QED
  BY <1>3, <1>4, <1>5 DEF StartsWith

LEMMA JobInvLoads ==
  ASSUME Basics, JobInv, NEW silent \in SUBSET Ids, NEW list \in Lists, Loads(list, silent)
  PROVE  JobInv'
BY JobEnds DEF Loads, JobInv, LegacyKept

LEMMA JobInvCommand ==
  ASSUME Basics, JobInv, Command
  PROVE  JobInv'
<1>1. UNCHANGED <<disk, vault, legacy, phase, mem, job, dropped>> /\ used'.legacy = used.legacy
  BY DEF Command, PromptStep, SaveOf
<1> QED
  BY <1>1 DEF JobInv, JobShape, LoneStores, WriteInv, WipeInv, AbsorbInv, LegacyKept

LEMMA JobInvInit ==
  ASSUME MacroInit
  PROVE  JobInv
BY NothingToDisk, NoJobFacts DEF MacroInit, LegacyKept, JobInv, JobShape, LoneStores, WriteInv, WipeInv, AbsorbInv

------------------------------------------------------------------------------
(* Every step, as what it does to the lists *)

StartsJob ==
  \E call \in Calls :
    Starts(call) /\ (ClearBegins \/ (call.kind = "save" /\ \E new \in Lists : WriteBegins(call.list, new)))
LoadsDisk == \E silent \in SUBSET Ids : \E list \in Lists : Loads(list, silent)
Step ==
  \/ StartsJob \/ StoreStep \/ CommitStep \/ EnumerateKeys \/ DeleteStep \/ FinishJob \/ CallFails
  \/ ClearSettings \/ Dies \/ StartsWith \/ LoadsDisk \/ Command

LEMMA MacroSteps ==
  ASSUME Basics, MacroNext
  PROVE  Step
BY JobBegins, StartBegins, LoadReads, MacroCommands DEF MacroNext, Step, StartsJob, LoadsDisk, Basics

LEMMA BasicsStep ==
  ASSUME Basics, JobInv, Step
  PROVE  Basics'
<1>1. CASE StartsJob
  BY <1>1, BasicsStart DEF StartsJob
<1>2. CASE StoreStep
  BY <1>2, BasicsStore DEF JobInv, JobShape
<1>3. CASE CommitStep
  <2>1. job.list \in Lists /\ \A m \in Members(<<>>) : FALSE
    BY EmptyList DEF Basics, Types, Jobs
  <2>2. job.disk = OfDisk(job.list) \/ job.disk = <<>>
    BY DEF JobInv, JobShape, Basics, Types, Jobs, Kinds
  <2>3. IdsUsed(job.disk, 1) /\ SoulsUsed(job.disk)
    BY <2>1, <2>2, OfDiskMembers DEF Basics, Counters, Souls, IdsUsed, SoulsUsed
  <2> QED
    BY <1>3, <2>3, BasicsCommit
<1>4. CASE EnumerateKeys
  BY <1>4, BasicsEnumerate
<1>5. CASE DeleteStep
  BY <1>5, BasicsDelete
<1>6. CASE FinishJob
  BY <1>6, BasicsFinish
<1>7. CASE CallFails
  BY <1>7, BasicsFails
<1>8. CASE ClearSettings
  BY <1>8, BasicsClearSettings
<1>9. CASE Dies
  BY <1>9, BasicsDies
<1>10. CASE StartsWith
  BY <1>10, BasicsBegin
<1>11. CASE LoadsDisk
  BY <1>11, BasicsLoads DEF LoadsDisk
<1>12. CASE Command
  BY <1>12, BasicsSave, BasicsPrompt DEF Command
<1> QED
  BY <1>1, <1>2, <1>3, <1>4, <1>5, <1>6, <1>7, <1>8, <1>9, <1>10, <1>11, <1>12 DEF Step

LEMMA JobInvStep ==
  ASSUME Basics, JobInv, Step
  PROVE  JobInv'
<1>1. CASE StartsJob
  BY <1>1, JobInvStart DEF StartsJob
<1>2. CASE StoreStep
  BY <1>2, JobInvStore
<1>3. CASE CommitStep
  BY <1>3, JobInvCommit
<1>4. CASE EnumerateKeys
  BY <1>4, JobInvEnumerate
<1>5. CASE DeleteStep
  BY <1>5, JobInvDelete
<1>6. CASE FinishJob \/ CallFails \/ ClearSettings \/ Dies
  BY <1>6, JobInvEnds
<1>7. CASE StartsWith
  BY <1>7, JobInvBegin
<1>8. CASE LoadsDisk
  BY <1>8, JobInvLoads DEF LoadsDisk
<1>9. CASE Command
  BY <1>9, JobInvCommand
<1> QED
  BY <1>1, <1>2, <1>3, <1>4, <1>5, <1>6, <1>7, <1>8, <1>9 DEF Step

LEMMA UnchangedBasics ==
  ASSUME Basics, JobInv, UNCHANGED macroVars
  PROVE  Basics' /\ JobInv'
<1> USE DEF macroVars
<1>1. Types' /\ Phases'
  BY DEF Basics, Types, Phases
<1>2. Counters' /\ Souls'
  BY DEF Basics, Counters, Souls, IdsUsed, SoulsUsed
<1>3. JobInv'
  BY DEF JobInv, JobShape, LoneStores, WriteInv, WipeInv, AbsorbInv, LegacyKept
<1> QED
  BY <1>1, <1>2, <1>3 DEF Basics

------------------------------------------------------------------------------
(* The macro a prompt was opened for *)

OnlyOf(list) == \A m \in Members(list) : m.id = prompt.ref.id => m.soul = prompt.soul

SoleInv ==
  (prompt # NoPrompt /\ prompt.sole) =>
    OnlyOf(mem.list) /\ OnlyOf(job.list) /\ \A k \in DOMAIN tail : OnlyOf(tail[k].list)

LEMMA NothingIsOnlyOf == OnlyOf(<<>>)
BY EmptyList DEF OnlyOf

LEMMA SoleStart ==
  ASSUME Basics, SoleInv, StartsJob
  PROVE  SoleInv'
<1> SUFFICES ASSUME prompt' # NoPrompt, prompt'.sole
             PROVE  SoleInv'
  BY DEF SoleInv
<1>1. PICK call \in Calls :
        Starts(call) /\ (ClearBegins \/ (call.kind = "save" /\ \E new \in Lists : WriteBegins(call.list, new)))
  BY DEF StartsJob
<1>2. UNCHANGED <<prompt, mem>> /\ tail' = Tail(tail) /\ tail # <<>> /\ call = tail[1]
  BY <1>1 DEF Starts
<1>3. OnlyOf(mem.list) /\ \A k \in DOMAIN tail : OnlyOf(tail[k].list)
  BY <1>2 DEF SoleInv
<1>4. \A k \in DOMAIN tail' : OnlyOf(tail'[k].list)
  BY <1>2, <1>3, NextCall, TailTypes DEF Basics
<1>5. OnlyOf(job'.list)
  <2>1. CASE ClearBegins
    BY <1>3, <2>1 DEF ClearBegins, ClearOf, NoJob
  <2>2. ASSUME NEW new \in Lists, WriteBegins(call.list, new)
        PROVE  OnlyOf(new)
    <3>1. Dealt(call.list, new) /\ call.list \in Lists /\ OnlyOf(call.list)
      BY <1>2, <1>3, <2>2, NextCall, TailTypes DEF WriteBegins, Basics, Calls
    <3>2. prompt.ref.id <= used.ids /\ prompt.ref.id \in Nat /\ used.ids \in Nat
      BY <1>2, MacroNumbers DEF Basics, Counters, Types, Prompts, Refs, Counts
    <3>3. ASSUME NEW i \in 1..Len(call.list), new[i].id = prompt.ref.id
          PROVE  new[i].soul = prompt.soul
      BY <3>1, MemberTypes, <3>2, <3>3 DEF Dealt, OnlyOf
    <3>4. DOMAIN new = 1..Len(call.list)
      BY <3>1, MemberTypes DEF Dealt
    <3> QED
      BY <3>3, <3>4 DEF OnlyOf, Members
  <2> QED
    BY <1>1, <2>1, <2>2 DEF WriteBegins
<1> QED
  BY <1>2, <1>3, <1>4, <1>5 DEF SoleInv, OnlyOf

LEMMA SoleCommand ==
  ASSUME Basics, SoleInv, Command
  PROVE  SoleInv'
<1> SUFFICES ASSUME prompt' # NoPrompt, prompt'.sole
             PROVE  SoleInv'
  BY DEF SoleInv
<1>1. CASE PromptStep
  BY <1>1 DEF PromptStep, CaptureMacroRef, Prompt, Sole, Members, SoleInv, OnlyOf
<1>2. ASSUME NEW kind \in {"save", "clear"}, NEW list \in Lists, SaveOf(kind, list)
      PROVE  SoleInv'
  <2>1. /\ UNCHANGED <<prompt, mem, job>> /\ tail' = Append(tail, [kind |-> kind, list |-> list])
        /\ Saves(list, excused')
    BY <1>2 DEF SaveOf
  <2>2. OnlyOf(mem.list) /\ OnlyOf(job.list) /\ \A k \in DOMAIN tail : OnlyOf(tail[k].list)
    BY <2>1 DEF SoleInv
  <2>3. prompt.ref.id # 0
    BY <2>1 DEF Basics, Counters
  <2>4. OnlyOf(list)
    BY <2>1, <2>2, <2>3 DEF OnlyOf, Saves, Edited, Newborn
  <2>5. PICK call \in Calls : call = [kind |-> kind, list |-> list]
    BY DEF Calls
  <2>6. \A k \in DOMAIN tail' : (k \in DOMAIN tail /\ tail'[k] = tail[k]) \/ tail'[k] = call
    BY <2>1, <2>5 DEF Basics, Types
  <2>7. \A k \in DOMAIN tail' : OnlyOf(tail'[k].list)
    BY <2>2, <2>4, <2>5, <2>6
  <2> QED
    BY <2>1, <2>2, <2>7 DEF SoleInv, OnlyOf
<1> QED
  BY <1>1, <1>2 DEF Command

LEMMA SoleStep ==
  ASSUME Basics, JobInv, SoleInv, Step
  PROVE  SoleInv'
<1>1. CASE StartsJob
  BY <1>1, SoleStart
<1>2. CASE Command
  BY <1>2, SoleCommand
<1>3. ASSUME UNCHANGED <<prompt, tail>>, mem'.list \in {mem.list, job.list, <<>>}, job'.list \in {job.list, <<>>}
      PROVE  SoleInv'
  BY <1>3, NothingIsOnlyOf DEF SoleInv, OnlyOf
<1>4. CASE StoreStep \/ DeleteStep
  BY <1>4, <1>3 DEF StoreStep, DeleteStep, Basics, Types, Mems, Jobs
<1>5. CASE CommitStep
  BY <1>5, <1>3 DEF CommitStep, Basics, Types, Jobs
<1>6. CASE EnumerateKeys
  BY <1>6, <1>3 DEF EnumerateKeys, Basics, Types, Jobs
<1>7. CASE FinishJob \/ CallFails \/ ClearSettings
  BY <1>7, NoJobFacts, <1>3 DEF FinishJob, CallFails, ClearSettings, Basics, Types, Mems
<1>8. CASE Dies \/ StartsWith \/ LoadsDisk
  BY <1>8 DEF Dies, StartsWith, LoadsDisk, Loads, Basics, Phases, SoleInv
<1> QED
  BY <1>1, <1>2, <1>4, <1>5, <1>6, <1>7, <1>8 DEF Step

LEMMA SoleIsRight ==
  ASSUME Basics, SoleInv
  PROVE  RightMacro
BY TargetIsThere, TargetHoldsId DEF RightMacro, Target, Basics, SoleInv, OnlyOf, Members

------------------------------------------------------------------------------
(* What the lists say of one macro *)

\* The text is in the vault only, under the id the macro goes by.
Quiet(m) == m.secret /\ m.text = Blank /\ m.id \in mem.unresolved
Good(m) == vault[m.id] # Nil /\ (m.had => vault[m.id] # Blank /\ vault[m.id][1] = m.soul)
Own(m) == m.had => m.text # Blank /\ m.text[1] = m.soul
Carries(m) == m.secret => IF Quiet(m) THEN Good(m) ELSE Own(m)

Alone(m, list) == \A r \in Members(list) : r.id = m.id /\ r.soul # m.soul => ~r.secret
Stored(m) == \E d \in Members(disk) : d.soul = m.soul /\ d.id = m.id /\ d.secret
NoLess(m) == \A d \in Members(disk) : d.soul = m.soul /\ d.had => m.had

\* b comes after a: it has no less, and has no text only if a has none.
Leads(a, b) ==
  (a.had => b.had) /\ (b.secret /\ b.text = Blank => a.secret /\ a.text = Blank /\ a.had = b.had)

JobList == IF job.kind \in {"write", "absorb"} THEN job.list ELSE <<>>

\* On disk: the vault has its value, and no other macro has that entry.
DiskRec(m) ==
  Good(m) /\ Alone(m, disk) /\ Alone(m, JobList) /\ \A k \in DOMAIN tail : Alone(m, tail[k].list)
OnDisk(s) == Single(disk, s) /\ \A m \in Members(disk) : m.soul = s /\ m.secret => DiskRec(m)

\* In the list shown, unless that is behind what is being written.
ShownRec(r) == Carries(r) /\ NoLess(r) /\ (Quiet(r) => Stored(r))
Kept(m) == Alone(m, mem.list) /\ \E r \in Members(mem.list) : r.soul = m.soul /\ r.id = m.id
ShownWell(s) ==
  /\ \A r \in Members(mem.list) : r.soul = s => ShownRec(r)
  /\ phase = "up" => \A m \in Members(disk) : m.soul = s /\ m.secret => Kept(m)
Shown(s) ==
  /\ Single(mem.list, s) /\ \A r \in Members(mem.list) : r.soul = s /\ r.secret => Alone(r, mem.list)
  /\ s \in Unseen(job.list) \/ ShownWell(s)

\* In the lists that wait.
WaitRec(b) == ShownRec(b) /\ (Quiet(b) => b.soul \in SoulsOf(mem.list))
WaitSelf(s) ==
  \A k \in DOMAIN tail : Single(tail[k].list, s) /\ \A b \in Members(tail[k].list) : b.soul = s => WaitRec(b)
WaitPairs(s) ==
  \A h, k \in DOMAIN tail : h < k =>
    \A a \in Members(tail[h].list) : a.soul = s =>
      /\ a.secret => Alone(a, tail[k].list)
      /\ \A b \in Members(tail[k].list) : b.soul = s =>
           Leads(a, b) /\ (b.secret /\ b.text = Blank => a.id = b.id)

\* In the list that is written.
JobRec(r, pending) ==
  /\ NoLess(r)
  /\ r.secret =>
       /\ IF pending THEN Own(r) ELSE Good(r)
       /\ job.kind = "write" => Carries(r)
       /\ Alone(r, JobList) /\ \A k \in DOMAIN tail : Alone(r, tail[k].list)
JobSelf(s) ==
  Single(JobList, s) /\ \A i \in DOMAIN JobList : JobList[i].soul = s => JobRec(JobList[i], i \in job.stores)
JobPairs(s) ==
  \A r \in Members(JobList) : r.soul = s =>
    \A k \in DOMAIN tail : \A b \in Members(tail[k].list) : b.soul = s =>
      Leads(r, b) /\ (Quiet(b) => r.id = b.id)

SoulInv(s) == OnDisk(s) /\ Shown(s) /\ WaitSelf(s) /\ WaitPairs(s) /\ JobSelf(s) /\ JobPairs(s)
SoulsInv == \A s \in 1..MaxSouls : s \notin dropped \cup excused => SoulInv(s)

LEMMA JobLists ==
  ASSUME Basics
  PROVE  /\ JobList \in Lists
         /\ JobList = job.list \/ JobList = <<>>
         /\ Members(JobList) \subseteq Members(job.list)
         /\ job.kind \notin {"write", "absorb"} => Members(JobList) = {} /\ DOMAIN JobList = {}
         /\ job.kind \in {"write", "absorb"} => JobList = job.list
BY EmptyList DEF Basics, Types, Jobs, JobList

LEMMA ListTypes ==
  ASSUME Basics
  PROVE  /\ \A m \in Members(disk) : m \in MacroRecords /\ m.id \in Ids /\ m.id <= used.ids
         /\ \A m \in Members(mem.list) : m \in MacroRecords /\ m.id \in Ids /\ m.id <= used.ids
         /\ \A m \in Members(job.list) : m \in MacroRecords /\ m.id \in Ids /\ m.id <= used.ids
         /\ \A k \in DOMAIN tail : \A m \in Members(tail[k].list) : m \in MacroRecords /\ m.id <= used.ids
         /\ mem.unresolved \in SUBSET Ids
BY TailTypes, SetIds, MemberTypes DEF Basics, Types, Mems, Jobs, Counters, IdsUsed

LEMMA SamePlace ==
  ASSUME NEW list \in Lists, NEW s, Single(list, s), NEW a \in Members(list), NEW b \in Members(list),
         a.soul = s, b.soul = s
  PROVE  a = b
BY DEF Single, Members

\* Of a macro whose text is there, and of one that is quiet, when only some ids
\* of the vault change.
LEMMA CarriesStill ==
  ASSUME NEW m, Carries(m), m.secret => (Quiet(m)' <=> Quiet(m)),
         Quiet(m) => vault'[m.id] = vault[m.id]
  PROVE  Carries(m)'
BY DEF Carries, Good, Own

------------------------------------------------------------------------------
(* secrets.store() *)

StoresText(i, r) ==
  /\ job.kind \in {"write", "absorb"} /\ r = job.list[i] /\ i \in DOMAIN job.list
  /\ r \in MacroRecords /\ r \in Members(job.list) /\ r.secret
  /\ r.text # Blank \/ r.id \notin mem.unresolved
  /\ \A j \in DOMAIN job.list : job.list[j].id = r.id => j = i
  /\ vault'[r.id] = r.text /\ \A x \in Ids \ {r.id} : vault'[x] = vault[x]
  /\ mem'.list = mem.list /\ mem'.unresolved = mem.unresolved \ {r.id}
  /\ job'.list = job.list /\ job'.kind = job.kind /\ job'.stores = job.stores \ {i}
  /\ UNCHANGED <<disk, phase, tail, dropped, excused>>

LEMMA StoreStores ==
  ASSUME Basics, JobInv, StoreStep
  PROVE  \E i \in job.stores : \E r \in MacroRecords : StoresText(i, r)
<1>1. PICK i \in job.stores :
        /\ vault' = [vault EXCEPT ![job.list[i].id] = job.list[i].text]
        /\ mem' = [mem EXCEPT !.unresolved = @ \ {job.list[i].id}]
        /\ job' = [job EXCEPT !.stores = @ \ {i}]
  BY DEF StoreStep
<1>2. i \in DOMAIN job.list /\ job.list[i] \in Members(job.list)
  BY DEF JobInv, JobShape, Members
<1>3. job.list[i] \in MacroRecords /\ job.list[i].id \in Ids
  BY <1>2, ListTypes
<1>4. PICK r \in MacroRecords : r = job.list[i]
  BY <1>3
<1>5. job.kind \in {"write", "absorb"}
  BY <1>1, NoJobFacts DEF Basics, Types, Jobs, JobInv, JobShape, Phases, Kinds
<1>6. vault'[r.id] = r.text /\ \A x \in Ids \ {r.id} : vault'[x] = vault[x]
  BY <1>1, <1>3, <1>4 DEF Basics, Types
<1>7. /\ mem'.list = mem.list /\ mem'.unresolved = mem.unresolved \ {r.id}
      /\ job'.list = job.list /\ job'.kind = job.kind /\ job'.stores = job.stores \ {i}
  BY <1>1, <1>4 DEF Basics, Types, Mems, Jobs
<1>8. /\ r.secret /\ (r.text # Blank \/ r.id \notin mem.unresolved)
      /\ \A j \in DOMAIN job.list : job.list[j].id = r.id => j = i
  BY <1>4 DEF JobInv, LoneStores
<1>9. StoresText(i, r)
  BY <1>2, <1>4, <1>5, <1>6, <1>7, <1>8 DEF StoresText, StoreStep
<1> QED
  BY <1>9

LEMMA StoreKeeps ==
  ASSUME Basics, JobInv, NEW s \in 1..MaxSouls, SoulInv(s), NEW i \in job.stores, NEW r \in MacroRecords,
         StoresText(i, r)
  PROVE  SoulInv(s)'
<1>1. /\ JobList = job.list /\ JobList' = JobList /\ r \in Members(JobList) /\ r.secret /\ r = JobList[i]
      /\ i \in DOMAIN JobList /\ r.text # Nil /\ r.id \in Ids
      /\ UNCHANGED <<disk, phase, tail>> /\ mem'.list = mem.list
  BY JobLists, ListTypes, RecordFields DEF StoresText, JobList
<1>2. r.soul = s => Own(r) /\ NoLess(r)
  BY <1>1 DEF SoulInv, JobSelf, JobRec
<1>3. ASSUME NEW m \in Members(disk), m.soul = s, m.secret, m.id = r.id
      PROVE  r.soul = s
  BY <1>1, <1>3 DEF SoulInv, OnDisk, DiskRec, Alone
<1>4. ASSUME NEW m \in Members(disk), m.soul = s, m.secret
      PROVE  Good(m)'
  BY <1>4, ListTypes, <1>2, <1>3, <1>1 DEF SoulInv, OnDisk, DiskRec, StoresText, Good, NoLess, Own
<1>5. OnDisk(s)'
  BY <1>1, <1>4 DEF SoulInv, OnDisk, DiskRec
\* Only a macro of the same id speaks up again.
<1>6. ASSUME NEW m, m.secret, Carries(m), Quiet(m) => m.id # r.id
      PROVE  Carries(m)' /\ (Quiet(m)' <=> Quiet(m))
  BY <1>6, ListTypes, CarriesStill DEF StoresText, Quiet
<1>7. ASSUME NEW m, m.soul = s, Quiet(m), Stored(m), m.id = r.id
      PROVE  r.soul = s /\ r.text # Blank
  BY <1>3, <1>7 DEF Stored, StoresText, Quiet
<1>8. ASSUME NEW m, m.soul = s, ShownRec(m), Quiet(m) => m.id # r.id
      PROVE  ShownRec(m)' /\ (Quiet(m)' => Quiet(m))
  BY <1>1, <1>8, <1>6 DEF ShownRec, NoLess, Stored, Carries, Quiet
<1>9. Shown(s)'
  <2>1. s \in Unseen(job.list) => s \in Unseen(job.list)'
    BY <1>1 DEF Unseen, StoresText
  <2>2. ASSUME s \notin Unseen(job.list)
        PROVE  ShownWell(s)'
    <3>1. ShownWell(s) /\ Single(mem.list, s)
      BY <2>2 DEF SoulInv, Shown
    <3>2. ASSUME NEW m \in Members(mem.list), m.soul = s
          PROVE  ShownRec(m)'
      <4>1. ShownRec(m)
        BY <3>1, <3>2 DEF ShownWell
      <4>2. ASSUME Quiet(m), m.id = r.id
            PROVE  FALSE
        <5>1. r.soul = s /\ r.text # Blank
          BY <1>7, <3>2, <4>1, <4>2 DEF ShownRec
        <5>2. r \in Members(mem.list)
          BY <1>1, <2>2, <5>1 DEF Unseen
        <5>3. r = m
          BY <3>1, <3>2, <5>1, <5>2, SamePlace DEF Basics, Types, Mems
        <5> QED
          BY <4>2, <5>1, <5>3 DEF Quiet
      <4> QED
        BY <1>8, <3>2, <4>1, <4>2
    <3> QED
      BY <1>1, <3>1, <3>2 DEF ShownWell, Kept
  <2> QED
    BY <1>1, <2>1, <2>2 DEF SoulInv, Shown
<1>10. WaitSelf(s)'
  BY <1>7, <1>1, <1>8 DEF SoulInv, WaitSelf, WaitRec, ShownRec, JobPairs, Leads, Quiet
<1>11. WaitPairs(s)'
  BY <1>1 DEF SoulInv, WaitPairs
<1>12. JobSelf(s)'
  <2>1. ASSUME NEW j \in DOMAIN JobList, JobList[j].soul = s
        PROVE  JobRec(JobList[j], j \in job.stores)'
    BY <2>1, MemberTypes, JobLists, ListTypes, <1>1, <1>2, <1>6 DEF SoulInv, JobSelf, StoresText, JobRec, NoLess,
       Own, Good, Quiet
  <2> QED
    BY <1>1, <2>1 DEF SoulInv, JobSelf
<1>13. JobPairs(s)'
  BY <1>1 DEF StoresText, Quiet, SoulInv, JobPairs
<1> QED
  BY <1>5, <1>9, <1>10, <1>11, <1>12, <1>13 DEF SoulInv

------------------------------------------------------------------------------
(* globalState.update() *)

\* What a list is on disk, record by record.
LEMMA OnDiskRecords ==
  ASSUME NEW list \in Lists, NEW d, d = OfDisk(list)
  PROVE  /\ \A m \in Members(d) : \E q \in Members(list) :
              m.soul = q.soul /\ m.id = q.id /\ m.secret = q.secret /\ m.had = q.had
         /\ \A q \in Members(list) : \E m \in Members(d) :
              m.soul = q.soul /\ m.id = q.id /\ m.secret = q.secret /\ m.had = q.had
         /\ \A s : Single(list, s) => Single(d, s)
BY MemberTypes, ToDiskFacts, OfDiskMembers DEF OfDisk, Members, Single

\* The records of the macro in the list being written.
LEMMA JobRecords ==
  ASSUME Basics, NEW s, JobSelf(s), NEW q \in Members(JobList), q.soul = s
  PROVE  /\ NoLess(q)
         /\ q.secret => Alone(q, JobList) /\ \A k \in DOMAIN tail : Alone(q, tail[k].list)
         /\ q.secret /\ job.stores = {} => Good(q)
         /\ q.secret /\ job.kind = "write" => Carries(q)
BY DEF Members, JobSelf, JobRec

LEMMA CommitKeeps ==
  ASSUME Basics, JobInv, NEW s \in 1..MaxSouls, SoulInv(s), CommitStep, s \notin dropped'
  PROVE  SoulInv(s)'
<1>1. /\ disk' = job.disk /\ job.stores = {} /\ ~job.committed /\ job # NoJob
      /\ mem' = (IF job.kind = "clear" THEN NoMem ELSE mem)
      /\ dropped' = dropped \cup ((SoulsOf(mem.list) \cup SoulsOf(disk)) \ SoulsOf(job.disk))
      /\ UNCHANGED <<vault, phase, tail>>
      /\ job' = [job EXCEPT !.committed = TRUE]
  BY DEF CommitStep, Committing, NoMem
<1>2. job'.list = job.list /\ job'.kind = job.kind /\ job'.stores = {} /\ JobList' = JobList
  BY <1>1 DEF Basics, Types, Jobs, JobList
<1>3. s \in SoulsOf(mem.list) \cup SoulsOf(disk) => s \in SoulsOf(job.disk)
  BY <1>1
<1>4. CASE job.kind \in {"write", "absorb"}
  <2>1. JobList = job.list /\ JobList \in Lists /\ disk' = OfDisk(JobList) /\ mem' = mem
    BY <1>1, <1>4, JobLists DEF JobInv, JobShape
  <2>2. /\ \A m \in Members(disk') : \E q \in Members(JobList) :
             m.soul = q.soul /\ m.id = q.id /\ m.secret = q.secret /\ m.had = q.had
        /\ \A q \in Members(JobList) : \E m \in Members(disk') :
             m.soul = q.soul /\ m.id = q.id /\ m.secret = q.secret /\ m.had = q.had
        /\ Single(JobList, s) /\ Single(disk', s)
    BY <2>1, OnDiskRecords DEF SoulInv, JobSelf
  <2>3. ASSUME NEW m \in Members(disk'), m.soul = s, m.secret
        PROVE  DiskRec(m)'
    BY <2>2, <1>1, <2>3, JobRecords, <1>2 DEF SoulInv, Good, Alone, DiskRec
  <2>4. OnDisk(s)'
    BY <2>2, <2>3 DEF OnDisk
  <2>5. \A m : Quiet(m)' <=> Quiet(m)
    BY <2>1 DEF Quiet
  <2>6. \A m : Carries(m)' <=> Carries(m)
    BY <1>1, <2>5 DEF Carries, Good, Own
\* What is on disk now has its text in the list, and what is waiting has no less.
  <2>7. ASSUME NEW b, b.soul = s, \A q \in Members(JobList) : q.soul = s => (q.had => b.had)
        PROVE  NoLess(b)'
    BY <2>2, <2>7 DEF NoLess
  <2>8. ASSUME NEW b, b.soul = s, s \in SoulsOf(mem.list),
               \A q \in Members(JobList) : q.soul = s => q.secret /\ q.id = b.id
        PROVE  Stored(b)'
    BY <1>3, <2>8, <1>1, <2>2 DEF SoulsOf, Stored
  <2>9. Shown(s)'
    <3>1. Unseen(job.list)' = Unseen(job.list)
      BY <1>2, <2>1 DEF Unseen
    <3>2. ASSUME s \notin Unseen(job.list)
          PROVE  ShownWell(s)'
      <4>1. ShownWell(s) /\ Single(mem.list, s) /\ mem.list \in Lists
        BY <3>2 DEF SoulInv, Shown, Basics, Types, Mems
      <4>2. \A q \in Members(JobList) : q.soul = s => q \in Members(mem.list)
        BY <2>1, <3>2 DEF Unseen
      <4>3. ASSUME NEW r \in Members(mem.list), r.soul = s
            PROVE  ShownRec(r)'
        <5>1. ShownRec(r)
          BY <4>1, <4>3 DEF ShownWell
        <5>2. \A q \in Members(JobList) : q.soul = s => q = r
          BY <4>1, <4>2, <4>3, SamePlace
        <5>3. NoLess(r)'
          BY <2>7, <4>3, <5>2
        <5>4. Quiet(r) => Stored(r)'
          BY <2>8, <4>3, <5>2 DEF SoulsOf, Quiet
        <5> QED
          BY <2>5, <2>6, <5>1, <5>3, <5>4 DEF ShownRec
      <4>4. ASSUME NEW m \in Members(disk'), m.soul = s, m.secret
            PROVE  Kept(m)'
        BY <2>2, <4>2, <4>4, <2>1 DEF SoulInv, Shown, Kept, Alone
      <4> QED
        BY <2>1, <4>3, <4>4 DEF ShownWell
    <3> QED
      BY <2>1, <3>1, <3>2 DEF SoulInv, Shown
  <2>10. WaitSelf(s)'
    BY <2>7, <2>8, <2>1, <2>5, <2>6, <1>1 DEF SoulInv, WaitSelf, JobPairs, Leads, Quiet, WaitRec, ShownRec
  <2>11. JobSelf(s)'
    <3>1. ASSUME NEW i \in DOMAIN JobList, JobList[i].soul = s
          PROVE  JobRec(JobList[i], i \in job.stores)'
      <4>1. PICK q \in Members(JobList) : q = JobList[i]
        BY DEF Members
      <4>2. JobRec(q, i \in job.stores) /\ q.soul = s
        BY <1>1, <3>1, <4>1 DEF SoulInv, JobSelf
      <4>3. NoLess(q)'
        BY <2>1, <2>2, <4>2, SamePlace, <2>7
      <4>4. Good(q)' <=> Good(q)
        BY <1>1 DEF Good
      <4>5. i \notin job.stores /\ i \notin job'.stores
        BY <1>1, <1>2
      <4>6. JobRec(q, i \in job.stores)'
        BY <1>1, <1>2, <2>6, <4>2, <4>3, <4>4, <4>5 DEF JobRec
      <4> QED
        BY <1>2, <4>1, <4>6
    <3> QED
      BY <1>2, <2>2, <3>1 DEF JobSelf
  <2>12. WaitPairs(s)' /\ JobPairs(s)'
    BY <1>1, <1>2, <2>5 DEF SoulInv, WaitPairs, JobPairs
  <2> QED
    BY <2>4, <2>9, <2>10, <2>11, <2>12 DEF SoulInv
<1>5. CASE job.kind = "clear"
  <2>1. /\ mem' = NoMem /\ disk' = <<>> /\ Members(disk') = {} /\ DOMAIN disk' = {}
        /\ mem'.list = <<>> /\ Members(mem'.list) = {} /\ DOMAIN mem'.list = {} /\ mem'.unresolved = {}
    BY <1>1, <1>5, EmptyList DEF JobInv, JobShape, NoMem
  <2>2. s \notin SoulsOf(mem.list)
    BY <1>1, <1>3, <1>5, EmptyList DEF JobInv, JobShape
  <2>3. OnDisk(s)' /\ Shown(s)'
    BY <2>1 DEF OnDisk, Shown, ShownWell, Single
  <2>4. WaitSelf(s)'
    BY <2>2, <2>1, <1>1 DEF SoulInv, WaitSelf, WaitRec, Quiet, ShownRec, Carries, Own, NoLess
  <2>5. Members(JobList) = {} /\ DOMAIN JobList = {}
    BY <1>5, JobLists
  <2>6. WaitPairs(s)' /\ JobSelf(s)' /\ JobPairs(s)'
    BY <1>1, <1>2, <2>5 DEF SoulInv, WaitPairs, JobSelf, JobPairs, Single
  <2> QED
    BY <2>3, <2>4, <2>6 DEF SoulInv
<1>6. job.kind \in {"write", "absorb", "clear"}
  BY <1>1 DEF JobInv, WipeInv, Basics, Types, Jobs, Kinds, Phases
<1> QED
  BY <1>4, <1>5, <1>6

------------------------------------------------------------------------------
(* secrets.delete() *)

DeletesEntry(x) ==
  /\ vault' = [vault EXCEPT ![x] = Nil] /\ mem'.list = mem.list
  /\ mem'.unresolved = mem.unresolved \ {x} /\ mem' \in Mems
  /\ job'.kind = job.kind /\ job'.list = job.list /\ job'.stores = {} /\ job.stores = {} /\ JobList' = JobList
  /\ UNCHANGED <<disk, phase, tail, dropped, excused>>

LEMMA DeleteKeeps ==
  ASSUME Basics, JobInv, NEW s \in 1..MaxSouls, SoulInv(s), DeleteStep
  PROVE  SoulInv(s)'
<1>1. PICK x \in job.deletes :
        /\ vault' = [vault EXCEPT ![x] = Nil]
        /\ mem' = [mem EXCEPT !.unresolved = @ \ {x}]
        /\ job' = [job EXCEPT !.deletes = @ \ {x}]
  BY DEF DeleteStep
<1>2. /\ job.committed /\ job.stores = {} /\ job.kind \in {"write", "sweep", "known"}
  BY DEF DeleteStep, Deleting, JobInv, JobShape
<1>3. DeletesEntry(x)
  BY <1>1, <1>2 DEF DeletesEntry, DeleteStep, Basics, Types, Mems, Jobs, JobList
<1>4. \A y \in Ids : y # x => vault'[y] = vault[y]
  BY <1>1 DEF Basics, Types
\* No secret of the list written, or on disk, goes by the id whose entry is deleted.
<1>5. /\ \A q \in Members(JobList) : q.secret => q.id # x
      /\ \A m \in Members(disk) : m.secret => m.id # x
      /\ job.kind \in {"sweep", "known"} => mem = NoMem /\ Members(disk) = {} /\ Members(JobList) = {}
  BY <1>2, JobLists, <1>1, OnDiskRecords, EmptyList DEF JobInv, WriteInv, JobShape, WipeInv
<1>6. \A m : m.id \in Ids /\ m.id # x => (Good(m)' <=> Good(m))
  BY <1>4 DEF Good
<1>7. \A m \in Members(disk) : m.secret => (Good(m)' <=> Good(m))
  BY <1>5, <1>6, ListTypes
<1>8. OnDisk(s)'
  BY <1>3, <1>7 DEF DeletesEntry, SoulInv, OnDisk, DiskRec
<1>9. ASSUME NEW m, ShownRec(m)
      PROVE  ShownRec(m)' /\ (Quiet(m)' => Quiet(m))
  BY <1>3, <1>9, <1>5, ListTypes, <1>4, CarriesStill DEF DeletesEntry, ShownRec, NoLess, Stored, Quiet
<1>10. Shown(s)'
  BY <1>3, <1>9 DEF Unseen, DeletesEntry, SoulInv, Shown, ShownWell, Kept
<1>11. WaitSelf(s)'
  BY <1>3, <1>9 DEF DeletesEntry, SoulInv, WaitSelf, WaitRec
<1>12. WaitPairs(s)'
  BY <1>3 DEF DeletesEntry, SoulInv, WaitPairs
<1>13. JobSelf(s)'
  <2>1. ASSUME NEW i \in DOMAIN JobList, JobList[i].soul = s
        PROVE  JobRec(JobList[i], i \in job.stores)'
    <3>1. PICK q \in Members(JobList) : q = JobList[i]
      BY DEF Members
    <3>2. JobRec(q, i \in job.stores) /\ i \notin job.stores /\ i \notin job'.stores
      BY <1>2, <1>3, <2>1, <3>1 DEF SoulInv, JobSelf, DeletesEntry
    <3>3. q.id \in Ids /\ (q.secret => q.id # x)
      BY <1>5, ListTypes, JobLists
    <3>4. NoLess(q)' /\ (q.secret => Good(q)')
      BY <1>3, <1>6, <3>2, <3>3 DEF JobRec, NoLess, DeletesEntry
    <3>5. q.secret /\ job'.kind = "write" => Carries(q)'
      BY <1>3, <3>3, <1>4, <3>2, CarriesStill DEF Quiet, DeletesEntry, JobRec
    <3>6. JobRec(q, i \in job.stores)'
      BY <1>3, <3>2, <3>4, <3>5 DEF JobRec, DeletesEntry
    <3> QED
      BY <1>3, <3>1, <3>6 DEF DeletesEntry
  <2> QED
    BY <1>3, <2>1 DEF DeletesEntry, SoulInv, JobSelf
<1>14. JobPairs(s)'
  BY <1>3 DEF DeletesEntry, Quiet, SoulInv, JobPairs
<1> QED
  BY <1>8, <1>10, <1>11, <1>12, <1>13, <1>14 DEF SoulInv

------------------------------------------------------------------------------
(* The end of a call *)

\* A list that is no longer being written puts nothing at risk.
LEMMA IdleDisk ==
  ASSUME NEW s, OnDisk(s), Members(JobList') = {}, UNCHANGED <<disk, vault, tail>>
  PROVE  OnDisk(s)'
BY DEF Alone, OnDisk, DiskRec, Good

LEMMA IdleJob ==
  ASSUME NEW s, JobList' = <<>>
  PROVE  JobSelf(s)' /\ JobPairs(s)'
BY EmptyList DEF JobSelf, JobPairs, Single

LEMMA RecordStill ==
  ASSUME NEW m, UNCHANGED <<vault, disk>>, mem'.unresolved = mem.unresolved
  PROVE  (ShownRec(m)' <=> ShownRec(m)) /\ (Quiet(m)' <=> Quiet(m)) /\ (Carries(m)' <=> Carries(m))
BY DEF Quiet, Carries, Good, Own, ShownRec, NoLess, Stored

LEMMA IdleWindow ==
  ASSUME NEW s \in 1..MaxSouls, SoulInv(s), JobList' = <<>>, UNCHANGED <<disk, vault, phase, mem, tail>>,
         s \in Unseen(job.list)' \/ ShownWell(s)
  PROVE  SoulInv(s)'
BY IdleDisk, EmptyList, IdleJob, RecordStill DEF SoulInv, WaitPairs, WaitSelf, WaitRec, Shown, ShownWell, Kept

LEMMA NoJobList == job = NoJob => JobList = <<>>
BY NoJobFacts DEF JobList

LEMMA EnumerateKeeps ==
  ASSUME Basics, JobInv, NEW s \in 1..MaxSouls, SoulInv(s), EnumerateKeys
  PROVE  SoulInv(s)'
BY IdleWindow DEF EnumerateKeys, Basics, Types, Jobs, JobList, Unseen, SoulInv, Shown

LEMMA FailsKeeps ==
  ASSUME Basics, JobInv, NEW s \in 1..MaxSouls, SoulInv(s), CallFails, s \notin excused'
  PROVE  SoulInv(s)'
BY NoJobFacts, IdleWindow DEF CallFails, JobList, SoulInv, Shown

LEMMA NothingShown ==
  ASSUME NEW s, mem = NoMem, phase # "up"
  PROVE  ShownWell(s)
BY EmptyList DEF ShownWell, NoMem

LEMMA ClearSettingsKeeps ==
  ASSUME Basics, JobInv, NEW s \in 1..MaxSouls, SoulInv(s), ClearSettings
  PROVE  SoulInv(s)'
BY NoJobFacts, IdleWindow, NothingShown DEF ClearSettings, JobList, Basics, Phases

LEMMA DiesKeeps ==
  ASSUME Basics, JobInv, NEW s \in 1..MaxSouls, SoulInv(s), Dies
  PROVE  SoulInv(s)'
<1>1. UNCHANGED <<disk, vault>> /\ job' = NoJob /\ mem' = NoMem /\ tail' = <<>> /\ phase' = "down"
  BY DEF Dies, NoMem
<1>2. JobList' = <<>> /\ Members(<<>>) = {} /\ DOMAIN <<>> = {} /\ NoMem.list = <<>>
  BY <1>1, NoJobFacts, EmptyList DEF JobList, NoMem
<1>3. \A m : Alone(m, JobList') /\ \A k \in DOMAIN tail' : Alone(m, tail'[k].list)
  BY <1>1, <1>2 DEF Alone
<1>4. OnDisk(s)'
  BY <1>1, <1>3 DEF SoulInv, OnDisk, DiskRec, Good
<1>5. Shown(s)'
  BY <1>1, <1>2 DEF Shown, ShownWell, Single
<1>6. WaitSelf(s)' /\ WaitPairs(s)'
  BY <1>1, <1>2 DEF WaitSelf, WaitPairs
<1> QED
  BY <1>2, <1>4, <1>5, <1>6, IdleJob DEF SoulInv

LEMMA FinishKeeps ==
  ASSUME Basics, JobInv, NEW s \in 1..MaxSouls, SoulInv(s), FinishJob, s \notin dropped
  PROVE  SoulInv(s)'
<1>1. /\ UNCHANGED <<disk, vault, phase, tail>> /\ job' = NoJob /\ job.committed
      /\ job.kind \in {"write", "sweep", "known"}
      /\ mem' = IF job.kind = "write" THEN [mem EXCEPT !.list = job.list] ELSE mem
  BY DEF FinishJob, Deleting
<1>2. JobList' = <<>>
  BY <1>1, NoJobFacts DEF JobList
<1>3. CASE job.kind \in {"sweep", "known"}
  BY <1>1, <1>3, EmptyList, <1>2, IdleWindow DEF JobInv, WipeInv, ShownWell, NoMem
<1>4. CASE job.kind = "write"
  <2>1. mem'.list = job.list /\ mem'.unresolved = mem.unresolved /\ JobList = job.list /\ JobList \in Lists
    BY <1>1, <1>4, JobLists DEF Basics, Types, Mems
  <2>2. /\ disk = OfDisk(JobList) /\ SoulsOf(mem.list) \ SoulsOf(job.list) \subseteq dropped /\ job.stores = {}
    BY <1>1, <1>4, <2>1 DEF JobInv, WriteInv, JobShape
  <2>3. /\ \A m \in Members(disk) : \E q \in Members(JobList) :
             m.soul = q.soul /\ m.id = q.id /\ m.secret = q.secret /\ m.had = q.had
        /\ \A q \in Members(JobList) : \E m \in Members(disk) :
             m.soul = q.soul /\ m.id = q.id /\ m.secret = q.secret /\ m.had = q.had
        /\ Single(JobList, s)
    BY <2>1, <2>2, OnDiskRecords DEF SoulInv, JobSelf
  <2>4. \A m : (ShownRec(m)' <=> ShownRec(m)) /\ (Quiet(m)' <=> Quiet(m))
    BY <1>1, <2>1, RecordStill
  <2>5. OnDisk(s)'
    BY <1>1, <1>2, IdleDisk, EmptyList DEF SoulInv
  <2>6. ASSUME NEW r \in Members(JobList), r.soul = s
        PROVE  ShownRec(r) /\ (r.secret => Alone(r, JobList))
    BY <1>4, <2>6, JobRecords, <2>3 DEF SoulInv, Quiet, Stored, ShownRec, Carries
  <2>7. Shown(s)'
    BY <2>1, <2>3, <1>1, <2>4, <2>6 DEF SoulInv, OnDisk, DiskRec, Kept, Shown, ShownWell
  <2>8. WaitSelf(s)'
    BY <2>1, <2>2, <1>1, <2>4 DEF SoulInv, WaitSelf, WaitRec
  <2>9. WaitPairs(s)'
    BY <1>1 DEF SoulInv, WaitPairs
  <2> QED
    BY <1>2, <2>5, <2>7, <2>8, <2>9, IdleJob DEF SoulInv
<1> QED
  BY <1>1, <1>3, <1>4

------------------------------------------------------------------------------
(* initialize() *)

LEMMA NoTail ==
  ASSUME NEW s, tail' = <<>>
  PROVE  WaitSelf(s)' /\ WaitPairs(s)'
BY EmptyList DEF WaitSelf, WaitPairs

LEMMA BeginKeeps ==
  ASSUME Basics, JobInv, NEW s \in 1..MaxSouls, SoulInv(s), StartsWith, s \notin excused'
  PROVE  SoulInv(s)'
<1>1. /\ UNCHANGED <<disk, vault, mem, tail>> /\ phase' = "starting" /\ mem = NoMem /\ tail = <<>> /\ job = NoJob
  BY DEF StartsWith, Basics, Phases
<1>2. Members(<<>>) = {} /\ DOMAIN <<>> = {} /\ NoMem.list = <<>>
  BY EmptyList DEF NoMem
<1>3. Shown(s)'
  BY <1>1, <1>2 DEF Shown, ShownWell, Single
<1>4. WaitSelf(s)' /\ WaitPairs(s)'
  BY <1>1, NoTail
<1>5. ASSUME JobList' = <<>>
      PROVE  SoulInv(s)'
  BY <1>1, <1>2, <1>5, IdleDisk, <1>3, <1>4, IdleJob DEF SoulInv
<1>6. CASE UNCHANGED job
  BY <1>1, <1>5, <1>6, NoJobFacts DEF JobList
<1>7. CASE job' = [NoJob EXCEPT !.kind = "absorb", !.committed = TRUE]
  BY <1>7, <1>5 DEF NoJob, JobList
<1>8. ASSUME NEW list \in Lists, Absorbs(list)
      PROVE  SoulInv(s)'
  <2>1. /\ job'.kind = "absorb" /\ job'.list = list /\ job'.stores = {Len(list)}
        /\ list[Len(list)].soul = LegacySoul /\ list[Len(list)].id = used.ids + 1
        /\ list[Len(list)].secret /\ list[Len(list)].text = <<LegacySoul, 1>>
        /\ Len(list) = Len(disk) + 1 /\ \A i \in 1..Len(disk) : list[i] = disk[i]
        /\ \A m \in Members(list) : m \in Members(disk) \/ (m.soul = LegacySoul /\ m.id = used.ids + 1)
        /\ excused' = excused \cup (SoulsOf(disk) \cap {LegacySoul})
    BY <1>8 DEF Absorbs
  <2>2. JobList' = list /\ DOMAIN list = 1..Len(list) /\ DOMAIN disk = 1..Len(disk) /\ Len(disk) \in Nat
    BY <2>1, MemberTypes DEF JobList, Basics, Types
  <2>3. \A m \in Members(disk) : m.id \in Nat /\ m.id <= used.ids /\ used.ids \in Nat
    BY ListTypes, RecordFields, MacroNumbers DEF Basics, Types, Counts
  <2>4. \A i \in 1..Len(list) : i = Len(list) \/ (i \in 1..Len(disk) /\ list[i] \in Members(disk))
    BY <2>1, <2>2 DEF Members
  <2>5. s = LegacySoul => \A m \in Members(disk) : m.soul # s
    BY <2>1 DEF SoulsOf
  <2>6. ASSUME NEW m \in Members(disk), Alone(m, disk)
        PROVE  Alone(m, list)
    BY <2>1, <2>3, <2>6 DEF Alone
  <2>7. \A m \in Members(disk) : m.soul = s /\ m.secret => Good(m) /\ Alone(m, disk) /\ Alone(m, list)
    BY <2>6 DEF SoulInv, OnDisk, DiskRec
  <2>8. OnDisk(s)'
    BY <1>1, <1>2, <2>2, <2>7 DEF SoulInv, OnDisk, DiskRec, Good
  <2>9. Single(list, s)
    BY <2>1, <2>2, <2>4, <2>5 DEF Members, SoulInv, OnDisk, Single
  <2>10. ASSUME NEW i \in 1..Len(list), list[i].soul = s
         PROVE  JobRec(JobList[i], i \in job.stores)'
    <3>1. JobList'[i] = list[i] /\ job'.kind # "write" /\ (i \in job'.stores <=> i = Len(list))
      BY <2>1, <2>2
    <3>2. \A m : \A k \in DOMAIN tail' : Alone(m, tail'[k].list)
      BY <1>1, <1>2
    <3>3. CASE i = Len(list)
      <4>1. list[i].soul \in 1..MaxSouls /\ list[i] \in MacroRecords
        BY MemberTypes, RecordFields
      <4>2. Own(list[i])
        <5>1. PICK m : m = list[i]
          OBVIOUS
        <5>2. m.soul = LegacySoul /\ m.text = <<LegacySoul, 1>> /\ LegacySoul \in 1..MaxSouls
          BY <2>1, <3>3, <4>1, <5>1
        <5>3. <<LegacySoul, 1>> # Blank /\ <<LegacySoul, 1>>[1] = LegacySoul
          BY <5>2, TextFacts
        <5> QED
          BY <5>1, <5>2, <5>3 DEF Own
      <4>3. Alone(list[i], list)
        BY <2>1, <2>3, <3>3 DEF Alone
      <4>4. \A d \in Members(disk) : d.soul # list[i].soul
        BY <2>1, <2>5, <2>10, <3>3
      <4> QED
        BY <1>1, <2>2, <3>1, <3>2, <3>3, <4>2, <4>3, <4>4 DEF JobRec, NoLess, Own
    <3>4. CASE i # Len(list)
      <4>1. PICK m \in Members(disk) : m = list[i]
        BY <2>4, <3>4
      <4>2. m.soul = s /\ \A d \in Members(disk) : d.soul = s => d = m
        BY <2>10, <4>1, SamePlace DEF SoulInv, OnDisk, Basics, Types
      <4>3. m.secret => Good(m) /\ Alone(m, list)
        BY <2>7, <4>2
      <4>4. NoLess(m)'
        BY <1>1, <4>2 DEF NoLess
      <4>5. m.secret => Good(m)'
        BY <1>1, <4>3 DEF Good
      <4>6. JobRec(m, i \in job.stores)'
        BY <2>2, <3>1, <3>2, <3>4, <4>3, <4>4, <4>5 DEF JobRec
      <4> QED
        BY <3>1, <4>1, <4>6
    <3> QED
      BY <3>3, <3>4
  <2>11. JobSelf(s)'
    BY <2>2, <2>9, <2>10 DEF JobSelf
  <2>12. JobPairs(s)'
    BY <1>1, <1>2 DEF JobPairs
  <2> QED
    BY <1>3, <1>4, <2>8, <2>11, <2>12 DEF SoulInv
<1> QED
  BY <1>6, <1>7, <1>8 DEF StartsWith

LEMMA LoadKeeps ==
  ASSUME Basics, JobInv, NEW s \in 1..MaxSouls, SoulInv(s),
         NEW silent \in SUBSET Ids, NEW list \in Lists, Loads(list, silent)
  PROVE  SoulInv(s)'
<1>1. /\ UNCHANGED <<disk, vault, tail, job>> /\ mem'.list = list /\ mem'.unresolved = silent
      /\ job = NoJob /\ tail = <<>> /\ phase' = "up"
  BY DEF Loads, Basics, Phases
<1>2. JobList' = <<>> /\ Unseen(job.list)' = {} /\ Members(<<>>) = {}
  BY <1>1, NoJobFacts, EmptyList DEF JobList, Unseen
<1>3. /\ DOMAIN list = 1..Len(disk) /\ DOMAIN disk = 1..Len(disk) /\ disk \in Lists /\ Len(list) = Len(disk)
      /\ \A i \in 1..Len(disk) :
           /\ list[i].soul = disk[i].soul /\ list[i].id = disk[i].id
           /\ list[i].secret = disk[i].secret /\ list[i].had = disk[i].had
           /\ disk[i].secret /\ disk[i].id \notin silent => list[i].text = vault[disk[i].id]
           /\ disk[i].secret /\ disk[i].id \in silent => list[i].text = Blank
  BY MemberTypes DEF Loads, Basics, Types
<1>4. \A r \in Members(list) : \E m \in Members(disk) :
        /\ r.soul = m.soul /\ r.id = m.id /\ r.secret = m.secret /\ r.had = m.had
        /\ m.secret /\ m.id \notin silent => r.text = vault[m.id]
        /\ m.secret /\ m.id \in silent => r.text = Blank
  BY <1>3 DEF Members
<1>5. \A m \in Members(disk) : \E r \in Members(list) : r.soul = m.soul /\ r.id = m.id
  BY <1>3 DEF Members
<1>6. Single(list, s)
  BY <1>3 DEF SoulInv, OnDisk, Single
<1>7. OnDisk(s)'
  BY <1>1, <1>2, IdleDisk DEF SoulInv
<1>8. \A m \in Members(disk) : Alone(m, disk) => Alone(m, list)
  BY <1>4 DEF Alone
<1>9. ASSUME NEW r \in Members(list), r.soul = s
      PROVE  ShownRec(r)' /\ (r.secret => Alone(r, list))
  <2>1. PICK m \in Members(disk) :
          /\ r.soul = m.soul /\ r.id = m.id /\ r.secret = m.secret /\ r.had = m.had
          /\ m.secret /\ m.id \notin silent => r.text = vault[m.id]
          /\ m.secret /\ m.id \in silent => r.text = Blank
    BY <1>4
  <2>2. m.secret => Good(m) /\ Alone(m, disk)
    BY <1>9, <2>1 DEF SoulInv, OnDisk, DiskRec
  <2>3. r.secret => Alone(r, list)
    BY <1>8, <2>1, <2>2 DEF Alone
  <2>4. NoLess(r)'
    BY <1>3, <1>9, <2>1, SamePlace, <1>1 DEF SoulInv, OnDisk, NoLess
  <2>5. Stored(r)' \/ ~r.secret
    BY <1>1, <2>1 DEF Stored
  <2>6. Carries(r)'
    BY <1>1, <2>1, <2>2 DEF Carries, Quiet, Good, Own
  <2> QED
    BY <2>3, <2>4, <2>5, <2>6 DEF ShownRec, Quiet
<1>10. \A m \in Members(disk) : m.soul = s /\ m.secret => Kept(m)'
  BY <1>1, <1>5, <1>8 DEF SoulInv, OnDisk, DiskRec, Kept
<1>11. Shown(s)'
  BY <1>1, <1>6, <1>9, <1>10 DEF Shown, ShownWell
<1>12. WaitSelf(s)' /\ WaitPairs(s)'
  BY <1>1, NoTail
<1> QED
  BY <1>2, <1>7, <1>11, <1>12, IdleJob DEF SoulInv

------------------------------------------------------------------------------
(* runExclusive() *)

\* What is left of the queue is as it was.
LEMMA QueueKeeps ==
  ASSUME Basics, NEW s, WaitSelf(s), WaitPairs(s), NEW call \in Calls, Starts(call)
  PROVE  /\ WaitSelf(s)' /\ WaitPairs(s)'
         /\ \A k \in DOMAIN tail' : \E h \in DOMAIN tail : 1 < h /\ tail'[k] = tail[h]
         /\ 1 \in DOMAIN tail /\ tail[1] = call
<1>1. /\ DOMAIN tail' = 1..(Len(tail) - 1) /\ DOMAIN tail = 1..Len(tail) /\ 1 \in DOMAIN tail /\ call = tail[1]
      /\ \A k \in DOMAIN tail' : k + 1 \in DOMAIN tail /\ tail'[k] = tail[k + 1] /\ k \in Nat /\ 1 < k + 1
      /\ UNCHANGED <<disk, vault, mem>>
  BY NextCall, TailTypes DEF Starts, Basics
<1>2. \A m : (ShownRec(m)' <=> ShownRec(m)) /\ (Quiet(m)' <=> Quiet(m))
  BY <1>1, RecordStill
<1>3. WaitSelf(s)'
  BY <1>1, <1>2 DEF WaitSelf, WaitRec
<1>4. WaitPairs(s)'
  BY <1>1 DEF WaitPairs
<1> QED
  BY <1>1, <1>3, <1>4

LEMMA NoneUnseen ==
  ASSUME job = NoJob, NEW s, Shown(s)
  PROVE  ShownWell(s)
BY NoJobFacts DEF Shown, Unseen

LEMMA StartClearKeeps ==
  ASSUME Basics, JobInv, NEW s \in 1..MaxSouls, SoulInv(s), NEW call \in Calls, Starts(call), ClearBegins
  PROVE  SoulInv(s)'
<1>1. UNCHANGED <<disk, vault, phase, mem>> /\ job = NoJob
  BY DEF Starts
<1>2. job'.kind = "clear" /\ JobList' = <<>> /\ Members(<<>>) = {}
  BY EmptyList DEF ClearBegins, ClearOf, NoJob, JobList
<1>3. \A k \in DOMAIN tail' : \E h \in DOMAIN tail : tail'[k] = tail[h]
  BY QueueKeeps DEF SoulInv
<1>4. \A m : Alone(m, JobList')
  BY <1>2 DEF Alone
<1>5. OnDisk(s)'
  BY <1>1, <1>3, <1>4 DEF SoulInv, OnDisk, DiskRec, Good
<1>6. ShownWell(s)
  BY <1>1, NoneUnseen DEF SoulInv
<1>7. \A m : (ShownRec(m)' <=> ShownRec(m))
  BY <1>1, RecordStill
<1>8. Shown(s)'
  BY <1>1, <1>6, <1>7 DEF SoulInv, Shown, ShownWell, Kept
<1>9. WaitSelf(s)' /\ WaitPairs(s)'
  BY QueueKeeps DEF SoulInv
<1> QED
  BY <1>2, <1>5, <1>8, <1>9, IdleJob DEF SoulInv

\* A macro whose text is in the vault only keeps its id, and a new id is
\* nobody's: so what is written is as good as what was waiting.
LEMMA StartWriteKeeps ==
  ASSUME Basics, JobInv, NEW s \in 1..MaxSouls, SoulInv(s), NEW call \in Calls, Starts(call),
         NEW new \in Lists, WriteBegins(call.list, new)
  PROVE  SoulInv(s)'
<1>1. UNCHANGED <<disk, vault, phase, mem>> /\ job = NoJob
  BY DEF Starts
<1>2. PICK list \in Lists : list = call.list
  BY DEF Calls
<1>3. /\ job'.kind = "write" /\ job'.list = new /\ JobList' = new
      /\ job'.stores = {i \in DOMAIN new : new[i].secret /\ ~Silent(list, i)}
      /\ Dealt(list, new)
  BY <1>2 DEF WriteBegins, JobList
<1>4. /\ DOMAIN new = 1..Len(list) /\ DOMAIN list = 1..Len(list)
      /\ \A i \in 1..Len(list) :
           /\ list[i] \in Members(list) /\ new[i] \in Members(new)
           /\ new[i].soul = list[i].soul /\ new[i].secret = list[i].secret
           /\ new[i].text = list[i].text /\ new[i].had = list[i].had
           /\ new[i].id = list[i].id \/ new[i].id > used.ids
      /\ \A i, j \in 1..Len(list) : new[i].id = new[j].id => i = j
  BY <1>3, MemberTypes DEF Dealt
<1>4a. \A r \in Members(new) : \E i \in 1..Len(list) : r = new[i]
  BY <1>4 DEF Members
<1>5. /\ 1 \in DOMAIN tail /\ tail[1].list = list
      /\ \A k \in DOMAIN tail' : \E h \in DOMAIN tail : 1 < h /\ tail'[k] = tail[h]
      /\ WaitSelf(s)' /\ WaitPairs(s)'
  BY <1>2, QueueKeeps DEF SoulInv
<1>6. /\ used.ids \in Nat
      /\ \A m \in Members(disk) : m.id \in Nat /\ m.id <= used.ids
      /\ \A k \in DOMAIN tail : \A b \in Members(tail[k].list) : b.id \in Nat /\ b.id <= used.ids
      /\ \A x \in mem.unresolved : x \in Nat /\ x <= used.ids
      /\ \A m \in Members(new) : m.id \in Nat
  BY SMTT(30), ListTypes, RecordFields, MacroNumbers, MemberTypes DEF Basics, Types, Counts, Counters, Mems
<1>7. \A m : (ShownRec(m)' <=> ShownRec(m)) /\ (Quiet(m)' <=> Quiet(m)) /\ (Carries(m)' <=> Carries(m))
  BY <1>1, RecordStill
<1>8. Shown(s)'
  BY <1>1, NoneUnseen, <1>7 DEF SoulInv, Shown, ShownWell, Kept
<1>9. OnDisk(s)'
  <2>1. ASSUME NEW m \in Members(disk), m.soul = s, m.secret
        PROVE  Alone(m, new)
    BY <1>5, <2>1, <1>4, <1>6, <1>4a DEF SoulInv, OnDisk, DiskRec, Alone
  <2> QED
    BY <1>1, <1>3, <1>5, <2>1 DEF SoulInv, OnDisk, DiskRec, Good
\* A macro that is quiet, in the list or after, is still where it was.
<1>10. ASSUME NEW i \in 1..Len(list), list[i].soul = s, Quiet(list[i])
       PROVE  new[i].id = list[i].id
  <2>1. PICK d \in Members(disk) : d.soul = s /\ d.id = list[i].id /\ d.secret
    BY <1>4, <1>5, <1>10 DEF SoulInv, WaitSelf, WaitRec, ShownRec, Stored
  <2>2. Alone(d, list) /\ Single(list, s)
    BY <1>5, <2>1 DEF SoulInv, OnDisk, DiskRec, WaitSelf
  <2>3. \A j \in 1..Len(list) : list[j].id = list[i].id /\ j # i => ~list[j].secret
    BY <1>4, <1>10, <2>1, <2>2 DEF Alone, Single
  <2> QED
    BY <1>3, <1>10, <2>3 DEF Dealt, Quiet
<1>11. ASSUME NEW i \in 1..Len(list), list[i].soul = s
       PROVE  /\ Quiet(new[i]) <=> Quiet(list[i])
              /\ Carries(new[i])
  BY <1>4, <1>5, <1>11, <1>10, <1>6 DEF SoulInv, WaitSelf, WaitRec, ShownRec, Quiet, Carries, Good, Own
<1>12. ASSUME NEW i \in 1..Len(list), list[i].soul = s
       PROVE  JobRec(new[i], i \in job.stores)'
  <2>1. PICK r : r = new[i]
    OBVIOUS
  <2>2. PICK b : b = list[i]
    OBVIOUS
  <2>3. /\ r.soul = s /\ b.soul = s /\ r.secret = b.secret /\ r.text = b.text /\ r.had = b.had
        /\ r.id = b.id \/ r.id > used.ids
        /\ b \in Members(list) /\ r \in Members(new)
    BY <1>4, <1>12, <2>1, <2>2
  <2>4. NoLess(r)'
    BY <1>5, <2>3, <1>1 DEF SoulInv, WaitSelf, WaitRec, ShownRec, NoLess
  <2>5. Carries(r) /\ (Quiet(r) <=> Quiet(b))
    BY <1>11, <1>12, <2>1, <2>2
  <2>6. r.secret => (i \in job'.stores <=> ~Quiet(r))
    BY <1>3, <1>4, <2>1, <2>2, <2>3, <2>5 DEF Silent, Quiet
  <2>7. r.secret => IF i \in job'.stores THEN Own(r) ELSE Good(r)
    BY <2>5, <2>6 DEF Carries
  <2>8. Alone(r, new)
    BY <1>4, <2>1 DEF Members, Alone
  <2>9. ASSUME NEW k \in DOMAIN tail', r.secret
        PROVE  Alone(r, tail'[k].list)
    <3>1. PICK h \in DOMAIN tail : 1 < h /\ tail'[k] = tail[h]
      BY <1>5
    <3>2. Alone(b, tail[h].list)
      BY <1>5, <2>3, <2>9, <3>1 DEF SoulInv, WaitPairs
    <3>3. r.id > used.ids => \A q \in Members(tail[h].list) : q.id # r.id
      BY <1>6, <2>3
    <3>4. Alone(r, tail[h].list)
      BY <2>3, <3>2, <3>3 DEF Alone
    <3> QED
      BY <3>1, <3>4
  <2>10. (Own(r)' <=> Own(r)) /\ (Good(r)' <=> Good(r)) /\ (Carries(r)' <=> Carries(r))
    BY <1>1, <1>7 DEF Own, Good
  <2>11. JobRec(r, i \in job.stores)'
    BY <1>3, <2>4, <2>5, <2>7, <2>8, <2>9, <2>10 DEF JobRec
  <2> QED
    BY <2>1, <2>11
<1>13. JobSelf(s)'
  BY <1>5, <1>4, <1>3, <1>12 DEF SoulInv, WaitSelf, Single, JobSelf
<1>14. JobPairs(s)'
  BY <1>5, <1>4, <1>10, <1>4a, <1>3, <1>7 DEF SoulInv, WaitPairs, Leads, Quiet, JobPairs
<1> QED
  BY <1>5, <1>8, <1>9, <1>13, <1>14 DEF SoulInv

------------------------------------------------------------------------------
(* The commands *)

LEMMA SoulStays ==
  ASSUME NEW s, SoulInv(s), UNCHANGED <<disk, vault, phase, mem, tail, job>>
  PROVE  SoulInv(s)'
<1>1. JobList' = JobList /\ Unseen(job.list)' = Unseen(job.list)
  BY DEF JobList, Unseen
<1>2. \A m : (ShownRec(m)' <=> ShownRec(m)) /\ (Quiet(m)' <=> Quiet(m)) /\ (Carries(m)' <=> Carries(m))
  BY RecordStill
<1>3. \A m : (Good(m)' <=> Good(m)) /\ (Own(m)' <=> Own(m)) /\ (NoLess(m)' <=> NoLess(m))
  BY DEF Good, Own, NoLess
<1>4. OnDisk(s)'
  BY <1>1, <1>3 DEF SoulInv, OnDisk, DiskRec
<1>5. Shown(s)'
  BY <1>1, <1>2 DEF SoulInv, Shown, ShownWell, Kept
<1>6. WaitSelf(s)' /\ WaitPairs(s)'
  BY <1>2 DEF SoulInv, WaitSelf, WaitRec, WaitPairs
<1>7. JobSelf(s)'
  BY <1>1, <1>2, <1>3 DEF SoulInv, JobSelf, JobRec
<1>8. JobPairs(s)'
  BY <1>1, <1>2 DEF SoulInv, JobPairs
<1> QED
  BY <1>4, <1>5, <1>6, <1>7, <1>8 DEF SoulInv

\* A list saved over one that is written, or waiting, comes from the list shown;
\* the macros of which that would lose something are excused.
LEMMA SaveKeeps ==
  ASSUME Basics, JobInv, NEW s \in 1..MaxSouls, SoulInv(s),
         NEW kind \in {"save", "clear"}, NEW list \in Lists, SaveOf(kind, list), s \notin excused'
  PROVE  SoulInv(s)'
<1>1. /\ UNCHANGED <<disk, vault, phase, mem, job>> /\ phase = "up" /\ Overtaken \subseteq excused'
      /\ Saves(list, excused')
  BY DEF SaveOf
<1>2. s \notin Unseen(job.list) /\ \A k \in DOMAIN tail : s \notin Unseen(tail[k].list)
  BY <1>1 DEF Overtaken
<1>3. /\ \A r \in Members(job.list) : r.soul = s => r \in Members(mem.list)
      /\ \A k \in DOMAIN tail : \A b \in Members(tail[k].list) : b.soul = s => b \in Members(mem.list)
  BY <1>2 DEF Unseen
<1>4. ShownWell(s) /\ Single(mem.list, s) /\ mem.list \in Lists
      /\ \A r \in Members(mem.list) : r.soul = s /\ r.secret => Alone(r, mem.list)
  BY <1>2 DEF SoulInv, Shown, Basics, Types, Mems
<1>5. /\ DOMAIN tail' = 1..(Len(tail) + 1) /\ DOMAIN tail = 1..Len(tail) /\ Len(tail) \in Nat
      /\ \A k \in DOMAIN tail : tail'[k] = tail[k]
      /\ tail'[Len(tail) + 1].list = list
  BY DEF Calls, SaveOf, Basics, Types
<1>6. \A k \in DOMAIN tail' : (k \in DOMAIN tail /\ k < Len(tail) + 1) \/ k = Len(tail) + 1
  BY <1>5
<1>7. \A m : (ShownRec(m)' <=> ShownRec(m)) /\ (Quiet(m)' <=> Quiet(m)) /\ (Carries(m)' <=> Carries(m))
  BY <1>1, RecordStill
<1>8. \A m : (Good(m)' <=> Good(m)) /\ (Own(m)' <=> Own(m)) /\ (NoLess(m)' <=> NoLess(m))
  BY <1>1 DEF Good, Own, NoLess
<1>9. JobList' = JobList /\ Unseen(job.list)' = Unseen(job.list)
  BY <1>1 DEF JobList, Unseen
\* Nothing in the list takes the entry of a macro that is shown, or on disk.
<1>10. ASSUME NEW m, m.soul = s, m.id # 0, Alone(m, mem.list),
              \E r \in Members(mem.list) : r.soul = s /\ r.id = m.id
       PROVE  Alone(m, list)
  BY <1>10, <1>1 DEF Alone, Edited, Newborn, Saves
<1>11. ASSUME NEW r \in Members(mem.list), r.soul = s, r.secret
       PROVE  Alone(r, list)
  BY ListTypes, MacroNumbers, <1>4, <1>10, <1>11
<1>12. ASSUME NEW m \in Members(disk), m.soul = s, m.secret
       PROVE  Alone(m, list)
  BY <1>1, <1>4, <1>12, ListTypes, MacroNumbers, <1>10 DEF ShownWell, Kept
<1>13. OnDisk(s)'
  BY <1>5, <1>6, <1>12, <1>1, <1>8, <1>9 DEF SoulInv, OnDisk, DiskRec
<1>14. Shown(s)'
  BY <1>1, <1>7, <1>9 DEF SoulInv, Shown, ShownWell, Kept
\* The records of the macro that are saved.
<1>15. ASSUME NEW b \in Members(list), b.soul = s
       PROVE  /\ WaitRec(b)
              /\ \A a \in Members(mem.list) : a.soul = s =>
                   Leads(a, b) /\ (b.secret /\ b.text = Blank => a.id = b.id)
  <2>1. CASE b \in Members(mem.list)
    BY <1>4, <1>15, <2>1, SamePlace DEF ShownWell, WaitRec, SoulsOf, Leads
  <2>2. CASE Edited(b, excused')
    BY <1>15, <2>2, TextFacts DEF Edited, WaitRec, ShownRec, Carries, Quiet, Own, NoLess, Leads
  <2>3. CASE Newborn(b)
    <3>1. used.souls \in Nat /\ LegacySoul \in Nat
      BY MacroNumbers DEF Basics, Types, Counts
    <3>2. \A m : (m.soul <= used.souls \/ m.soul = LegacySoul) => m.soul # s
      BY <1>15, <2>3, <3>1 DEF Newborn
    <3>3. /\ \A m \in Members(disk) : m.soul # s
          /\ \A m \in Members(mem.list) : m.soul # s
      BY <3>2 DEF Basics, Souls, SoulsUsed
    <3>4. ~Quiet(b)
      BY <2>3, ListTypes, MacroNumbers DEF Newborn, Quiet
    <3>5. Own(b)
      BY <1>15, <2>3, TextFacts DEF Newborn, Own
    <3>6. WaitRec(b)
      BY <1>15, <3>3, <3>4, <3>5 DEF WaitRec, ShownRec, Carries, NoLess
    <3> QED
      BY <3>3, <3>6
  <2> QED
    BY <1>1, <1>15, <2>1, <2>2, <2>3 DEF Saves
<1>16. WaitSelf(s)'
  BY <1>1, <1>4, <1>5, <1>6, <1>15, <1>7 DEF Saves, SoulInv, WaitSelf, WaitRec
<1>17. WaitPairs(s)'
  BY <1>3, <1>5, <1>6, <1>11, <1>15 DEF SoulInv, WaitPairs
<1>18. \A r \in Members(JobList) : r.soul = s => r \in Members(mem.list)
  BY <1>3, JobLists
<1>19. JobSelf(s)'
  <2>1. ASSUME NEW i \in DOMAIN JobList, JobList[i].soul = s
        PROVE  JobRec(JobList[i], i \in job.stores)'
    <3>1. PICK r \in Members(JobList) : r = JobList[i]
      BY DEF Members
    <3>2. JobRec(r, i \in job.stores)
      BY <2>1, <3>1 DEF SoulInv, JobSelf
    <3>3. r.secret => \A k \in DOMAIN tail' : Alone(r, tail'[k].list)
      BY <1>5, <1>6, <1>11, <1>18, <2>1, <3>1, <3>2 DEF JobRec
    <3>4. JobRec(r, i \in job.stores)'
      BY <1>1, <1>7, <1>8, <1>9, <3>2, <3>3 DEF JobRec
    <3> QED
      BY <1>9, <3>1, <3>4
  <2> QED
    BY <1>1, <1>9, <2>1 DEF SoulInv, JobSelf
<1>20. JobPairs(s)'
  BY <1>5, <1>15, <1>18, <1>6, <1>7, <1>9 DEF SoulInv, JobPairs, Quiet
<1> QED
  BY <1>13, <1>14, <1>16, <1>17, <1>19, <1>20 DEF SoulInv

LEMMA CommandKeeps ==
  ASSUME Basics, JobInv, NEW s \in 1..MaxSouls, SoulInv(s), Command, s \notin excused'
  PROVE  SoulInv(s)'
BY SaveKeeps, SoulStays DEF Command, PromptStep

------------------------------------------------------------------------------
(* The theorem *)

LEMMA SoulsStep ==
  ASSUME Basics, JobInv, SoulsInv, Step
  PROVE  SoulsInv'
<1>1. dropped \subseteq dropped' /\ excused \subseteq excused'
  BY DEF Step, StartsJob, Starts, StoreStep, CommitStep, EnumerateKeys, DeleteStep, FinishJob, CallFails,
         ClearSettings, Dies, StartsWith, Absorbs, LoadsDisk, Loads, Command, PromptStep, SaveOf
<1>2. SUFFICES ASSUME NEW s \in 1..MaxSouls, s \notin dropped' \cup excused'
               PROVE  SoulInv(s)'
  BY DEF SoulsInv
<1>3. SoulInv(s) /\ s \notin dropped /\ s \notin excused'
  BY <1>1, <1>2 DEF SoulsInv
<1>4. CASE StartsJob
  BY <1>3, <1>4, StartClearKeeps, StartWriteKeeps DEF StartsJob
<1>5. CASE StoreStep
  BY <1>3, <1>5, StoreStores, StoreKeeps
<1>6. CASE CommitStep
  BY <1>2, <1>3, <1>6, CommitKeeps
<1>7. CASE EnumerateKeys
  BY <1>3, <1>7, EnumerateKeeps
<1>8. CASE DeleteStep
  BY <1>3, <1>8, DeleteKeeps
<1>9. CASE FinishJob
  BY <1>3, <1>9, FinishKeeps
<1>10. CASE CallFails
  BY <1>3, <1>10, FailsKeeps
<1>11. CASE ClearSettings
  BY <1>3, <1>11, ClearSettingsKeeps
<1>12. CASE Dies
  BY <1>3, <1>12, DiesKeeps
<1>13. CASE StartsWith
  BY <1>3, <1>13, BeginKeeps
<1>14. CASE LoadsDisk
  BY <1>3, <1>14, LoadKeeps DEF LoadsDisk
<1>15. CASE Command
  BY <1>3, <1>15, CommandKeeps
<1> QED
  BY <1>4, <1>5, <1>6, <1>7, <1>8, <1>9, <1>10, <1>11, <1>12, <1>13, <1>14, <1>15 DEF Step

LEMMA SoulsInit ==
  ASSUME MacroInit
  PROVE  SoulsInv
<1>1. SUFFICES ASSUME NEW s \in 1..MaxSouls, s \notin excused
               PROVE  SoulInv(s)
  BY DEF SoulsInv
<1>2. /\ mem = NoMem /\ tail = <<>> /\ job = NoJob /\ phase = "down"
      /\ excused = {m.soul : m \in Sharing(disk)}
  BY DEF MacroInit, NoMem
<1>3. /\ Members(<<>>) = {} /\ DOMAIN <<>> = {} /\ NoMem.list = <<>> /\ JobList = <<>>
  BY <1>2, EmptyList, NoJobList DEF NoMem
<1>4. \A m : Alone(m, JobList) /\ \A k \in DOMAIN tail : Alone(m, tail[k].list)
  BY <1>2, <1>3 DEF Alone
<1>5. ASSUME NEW m \in Members(disk), m.soul = s, m.secret
      PROVE  Good(m) /\ Alone(m, disk)
  BY <1>1, <1>2, <1>5, BasicsInit, ListTypes, TextFacts DEF Sharing, Alone, MacroInit, Good
<1>6. OnDisk(s)
  BY <1>4, <1>5, InitialList DEF OnDisk, DiskRec, Single
<1>7. Shown(s)
  BY <1>2, <1>3 DEF Shown, ShownWell, Single
<1>8. WaitSelf(s) /\ WaitPairs(s)
  BY <1>2, <1>3 DEF WaitSelf, WaitPairs
<1>9. JobSelf(s) /\ JobPairs(s)
  BY <1>3 DEF JobSelf, JobPairs, Single
<1> QED
  BY <1>6, <1>7, <1>8, <1>9 DEF SoulInv

\* No secret is lost and no macro is changed in place of another
\* (VscodeMacroStore, mutateMacro()): whatever fails and wherever the window
\* dies, a secret macro on disk has its own value in the vault, a macro of the
\* old settings arrives, a reset leaves no entry, and a command changes the macro
\* it was opened for or none.
THEOREM MacrosAreSound == MacroSpec => []MacrosSound
<1> DEFINE Inv == Basics /\ JobInv /\ SoleInv /\ SoulsInv
<1>1. MacroInit => Inv
  BY BasicsInit, JobInvInit, SoulsInit DEF MacroInit, SoleInv
<1>2. Inv /\ [MacroNext]_macroVars => Inv'
  BY MacroSteps, BasicsStep, JobInvStep, SoleStep, SoulsStep, UnchangedBasics, SoulStays DEF macroVars, SoleInv,
     OnlyOf, SoulsInv
<1>3. Inv => MacrosSound
  <2> SUFFICES ASSUME Inv
               PROVE  MacrosSound
    OBVIOUS
  <2>1. MacroTypeOK
    BY ListTypes, RecordFields DEF MacroTypeOK, Basics, Types
  <2>2. SecretsSurvive
    BY ListTypes, RecordFields DEF SecretsSurvive, SoulsInv, SoulInv, OnDisk, DiskRec, Good
  <2>3. LegacyKept /\ ResetSweeps
    BY DEF JobInv, WipeInv, ResetSweeps
  <2>4. RightMacro
    BY SoleIsRight
  <2> QED
    BY <2>1, <2>2, <2>3, <2>4 DEF MacrosSound, SecretsKept
<1> QED
  BY <1>1, <1>2, <1>3, PTL DEF MacroSpec

==============================================================================
