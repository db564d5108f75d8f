------------------------- MODULE IfcCompressorProofs -------------------------
(***************************************************************************)
(* For files of any size and shape: what compress() writes says what it    *)
(* has read, and it merges exactly the instances that are equal, provided  *)
(* no reference stands inside a list of lists.                             *)
(***************************************************************************)
EXTENDS IfcCompressor, FiniteSetTheorems, WellFoundedInduction, TLAPS

\* References have one bracket around them at most.
Flat ==
  \A k \in Old : \A j \in DOMAIN Instances[k].content :
    Instances[k].content[j].kind = "ref" =>
      Instances[k].content[j].opens <= 1 /\ Instances[k].content[j].closes <= 1

UniqueIds == \A k, l \in Old : Instances[k].id = Instances[l].id => k = l

\* What IfcInstanceAna() makes of the content of an instance.
Std(k) == Standard(Instances[k].type, Instances[k].content)

Records == [id : Int, type : STRING, content : Seq(Tokens), flag : BOOLEAN]

Types ==
  /\ file \in Inputs /\ pc \in {"call", "read", "merge", "done"} /\ i \in Nat \ {0}
  /\ FPR \in BOOLEAN /\ MAX_PRECISION \in Nat
  /\ newInc \in Nat /\ totalCount \in Int
  /\ instance \in Seq(Records) /\ unmatched \in Seq(BOOLEAN) /\ Len(unmatched) = Len(instance)
  /\ index \in Seq(Nat) /\ Len(index) = newInc
  /\ \A n \in 1 .. newInc : index[n] \in DOMAIN instance
  /\ \A x \in DOMAIN id_baseID : x \in Int /\ id_baseID[x] \in 1 .. newInc
  /\ \A x \in DOMAIN type_content : type_content[x] \in 1 .. newInc
  /\ pc = "call" => i = 1 /\ instance = <<>> /\ DOMAIN id_baseID = {} /\ DOMAIN type_content = {}

Key(x) == <<x.type, x.content>>

\* Each number stands for one instance that is kept, and its type and content
\* lead back to the number.
Reps ==
  /\ \A n \in 1 .. newInc :
       /\ instance[index[n]].id = n /\ ~unmatched[index[n]]
       /\ Key(instance[index[n]]) \in DOMAIN type_content
       /\ type_content[Key(instance[index[n]])] = n
  /\ \A x \in DOMAIN type_content : Key(instance[index[type_content[x]]]) = x
  /\ pc \in {"call", "read"} =>
       \A j \in DOMAIN instance : ~unmatched[j] => Cites(instance[j].content) = {}

\* The new content of old instance k.
Target(k) == <<Instances[k].type, Renumber(Std(k), id_baseID)>>

\* What has a number was found by its content, whose references have numbers.
Based ==
  \A k \in Old : Instances[k].id \in DOMAIN id_baseID =>
    /\ Cites(Std(k)) \subseteq DOMAIN id_baseID
    /\ Target(k) \in DOMAIN type_content
    /\ type_content[Target(k)] = id_baseID[Instances[k].id]

\* An instance that waits is as it was read, or rewritten as a whole.
FromOld(x, k) ==
  /\ x.id = Instances[k].id /\ x.type = Instances[k].type
  /\ x.flag => Cites(Std(k)) \subseteq DOMAIN id_baseID /\ x.content = Renumber(Std(k), id_baseID)
  /\ ~x.flag => x.content = Std(k)

Waits ==
  \A j \in Waiting :
    /\ \E k \in Old : FromOld(instance[j], k)
    /\ pc \in {"call", "read"} \/ j < i => ~instance[j].flag

\* Nothing read is lost.
Covered ==
  \A k \in Old : (pc \in {"call", "read"} => k < i) =>
    \/ Instances[k].id \in DOMAIN id_baseID
    \/ \E j \in Waiting : instance[j].id = Instances[k].id

Counted ==
  totalCount = Cardinality(Waiting) - (IF pc \in {"call", "read"} THEN Len(instance) ELSE 0)

Written ==
  pc = "done" => Waiting = {} /\ \A n \in 1 .. newInc : output[n] = instance[index[n]]

Inv == Types /\ Reps /\ (UniqueIds => Based) /\ Waits /\ Covered /\ Counted /\ Written

-----------------------------------------------------------------------------
(* Contents and maps *)

LEMMA PutFacts ==
  ASSUME NEW f, NEW g, NEW x, NEW y, g = Put(f, x, y)
  PROVE  /\ \A z : z \in DOMAIN g <=> z \in DOMAIN f \/ z = x
         /\ g[x] = y
         /\ \A z \in DOMAIN f : z # x => g[z] = f[z]
BY DEF Put

\* std::map::insert keeps what is there.
LEMMA InsertFacts ==
  ASSUME NEW f, NEW g, NEW x, NEW y, g = Insert(f, x, y)
  PROVE  /\ \A z : z \in DOMAIN g <=> z \in DOMAIN f \/ z = x
         /\ x \notin DOMAIN f => g[x] = y
         /\ \A z \in DOMAIN f : g[z] = f[z]
<1>1. CASE x \in DOMAIN f
  BY <1>1 DEF Insert
<1>2. CASE x \notin DOMAIN f
  <2>1. g = Put(f, x, y)
    BY <1>2 DEF Insert
  <2> QED
    BY <1>2, <2>1, PutFacts
<1> QED
  BY <1>1, <1>2

\* A function on 1 .. n is a sequence.
LEMMA FunctionIsSeq ==
  ASSUME NEW S, NEW n \in Nat, NEW f \in [1 .. n -> S]
  PROVE  f \in Seq(S) /\ Len(f) = n
OBVIOUS

LEMMA TokenFacts ==
  ASSUME NEW t \in Tokens, NEW v \in Int
  PROVE  Reprint(t, v) \in Tokens /\ Reprint(t, v).kind = t.kind
<1>1. OneBracket(t.closes) \in Nat /\ t.kind \in {"ref", "num", "text"} /\ t.opens \in Nat
  BY DEF OneBracket, Tokens
<1> QED
  BY <1>1 DEF Tokens, Reprint

LEMMA InstanceFacts ==
  ASSUME Types
  PROVE  /\ Len(Instances) \in Nat /\ Old = 1 .. Len(Instances)
         /\ \A k \in Old : Instances[k].id \in Int /\ Instances[k].type \in STRING
                           /\ Instances[k].content \in Seq(Tokens)
<1>1. Instances \in Seq([id : Int, type : STRING, content : Seq(Tokens)])
  BY CompressorAssumption DEF Types, Instances
<1>2. Len(Instances) \in Nat /\ Old = 1 .. Len(Instances)
  BY <1>1 DEF Old
<1>3. \A k \in Old : Instances[k] \in [id : Int, type : STRING, content : Seq(Tokens)]
  <2> DEFINE R == [id : Int, type : STRING, content : Seq(Tokens)]
  <2>1. Instances \in Seq(R)
    BY <1>1
  <2> HIDE DEF R
  <2>2. \A k \in Old : Instances[k] \in R
    BY <2>1 DEF Old
  <2> QED
    BY <2>2 DEF R
<1> QED
  BY <1>2, <1>3

\* Standardising keeps the pieces and the references.
LEMMA StdFacts ==
  ASSUME Types, NEW k \in Old
  PROVE  /\ Std(k) \in Seq(Tokens) /\ DOMAIN Std(k) = DOMAIN Instances[k].content
         /\ \A j \in DOMAIN Std(k) :
              /\ Std(k)[j].kind = Instances[k].content[j].kind
              /\ Std(k)[j].kind = "ref" => Std(k)[j] = Instances[k].content[j]
<1> DEFINE c == Instances[k].content
           v(j) == RoundTo(c[j].val, MAX_PRECISION)
<1>1. c \in Seq(Tokens) /\ Len(c) \in Nat /\ DOMAIN c = 1 .. Len(c)
  BY InstanceFacts
<1>2. ASSUME NEW j \in DOMAIN c
      PROVE  c[j] \in Tokens /\ c[j].val \in Int /\ v(j) \in Int
  <2>1. c[j] \in Tokens
    BY <1>1
  <2>2. c[j].val \in Int
    BY <2>1 DEF Tokens
  <2> QED
    BY <2>1, <2>2 DEF RoundTo, Types
<1>3. Std(k) = [j \in DOMAIN c |->
                  IF IsNumber(c[j]) /\ Instances[k].type = Point /\ FPR
                    THEN Reprint(c[j], v(j)) ELSE c[j]]
  BY DEF Std, Standard
<1> HIDE DEF c, v
<1>4. ASSUME NEW j \in DOMAIN c
      PROVE  /\ Std(k)[j] \in Tokens /\ Std(k)[j].kind = c[j].kind
             /\ c[j].kind = "ref" => Std(k)[j] = c[j]
  <2>1. CASE IsNumber(c[j]) /\ Instances[k].type = Point /\ FPR
    <3>1. Std(k)[j] = Reprint(c[j], v(j))
      BY <1>3, <2>1
    <3>2. c[j].kind = "num"
      BY <2>1 DEF IsNumber
    <3> QED
      BY <1>2, <3>1, <3>2, TokenFacts
  <2>2. CASE ~(IsNumber(c[j]) /\ Instances[k].type = Point /\ FPR)
    BY <1>2, <1>3, <2>2
  <2> QED
    BY <2>1, <2>2
<1>5. DOMAIN Std(k) = DOMAIN c
  BY <1>3
<1>6. Std(k) \in [1 .. Len(c) -> Tokens]
  BY <1>1, <1>3, <1>4, <1>5
<1> QED
  BY <1>1, <1>4, <1>5, <1>6, FunctionIsSeq DEF c

LEMMA RenumberFacts ==
  ASSUME NEW c \in Seq(Tokens), NEW rel, \A x \in Cites(c) : rel[x] \in Int
  PROVE  /\ Renumber(c, rel) \in Seq(Tokens)
         /\ Cites(c) = {} => Renumber(c, rel) = c
<1>1. Len(c) \in Nat /\ DOMAIN c = 1 .. Len(c) /\ \A j \in DOMAIN c : c[j] \in Tokens
  OBVIOUS
<1>2. \A j \in DOMAIN c : IsCite(c[j]) => c[j].val \in Cites(c)
  BY DEF Cites
<1>3. Renumber(c, rel) =
        [j \in DOMAIN c |-> IF IsCite(c[j]) THEN Reprint(c[j], rel[c[j].val]) ELSE c[j]]
  BY DEF Renumber
<1>4. ASSUME NEW j \in DOMAIN c PROVE Renumber(c, rel)[j] \in Tokens
  <2>1. CASE IsCite(c[j])
    BY <1>1, <1>2, <1>3, <2>1, TokenFacts
  <2>2. CASE ~IsCite(c[j])
    BY <1>1, <1>3, <2>2
  <2> QED
    BY <2>1, <2>2
<1>5. Renumber(c, rel) \in [1 .. Len(c) -> Tokens]
  BY <1>1, <1>3, <1>4
<1>6. Cites(c) = {} => Renumber(c, rel) = c
  <2>1. c \in [1 .. Len(c) -> Tokens]
    OBVIOUS
  <2> QED
    BY <1>2, <1>3, <2>1
<1> QED
  BY <1>1, <1>5, <1>6, FunctionIsSeq

\* Only the numbers of the references matter.
LEMMA RenumberSame ==
  ASSUME NEW c, NEW f, NEW g, \A x \in Cites(c) : f[x] = g[x]
  PROVE  Renumber(c, f) = Renumber(c, g)
<1>1. \A j \in DOMAIN c : IsCite(c[j]) => f[c[j].val] = g[c[j].val]
  BY DEF Cites
<1> QED
  BY <1>1 DEF Renumber

\* Numbers that have been given out stay, and so does what they were found by.
LEMMA TargetKept ==
  ASSUME NEW k \in Old, UNCHANGED settings,
         \A x \in DOMAIN id_baseID : x \in DOMAIN id_baseID' /\ id_baseID'[x] = id_baseID[x],
         Cites(Std(k)) \subseteq DOMAIN id_baseID
  PROVE  /\ Renumber(Std(k), id_baseID') = Renumber(Std(k), id_baseID)
         /\ Target(k)' = Target(k)
         /\ Cites(Std(k)) \subseteq DOMAIN id_baseID'
<1>1. \A x \in Cites(Std(k)) : id_baseID'[x] = id_baseID[x]
  OBVIOUS
<1>2. Renumber(Std(k), id_baseID') = Renumber(Std(k), id_baseID)
  BY <1>1, RenumberSame
<1>3. Std(k)' = Std(k) /\ Instances' = Instances
  BY DEF Std, Standard, Instances, settings
<1>4. Target(k)' = <<Instances[k].type, Renumber(Std(k), id_baseID')>>
  BY <1>3, Zenon DEF Target
<1> QED
  BY <1>2, <1>4 DEF Target

LEMMA SettingsKept ==
  ASSUME UNCHANGED settings
  PROVE  /\ Instances' = Instances /\ Old' = Old /\ (UniqueIds' <=> UniqueIds)
         /\ \A k \in Old : Std(k)' = Std(k)
BY DEF settings, Instances, Old, UniqueIds, Std, Standard

\* A match extends both maps, for the instance that is matched only.
LEMMA MatchMaps ==
  ASSUME Types, NEW x \in Records, Match(x)
  PROVE  /\ newInc' \in Nat /\ newInc' >= newInc
         /\ \A z : z \in DOMAIN id_baseID' <=> z \in DOMAIN id_baseID \/ z = x.id
         /\ \A z \in DOMAIN id_baseID : id_baseID'[z] = id_baseID[z]
         /\ \A z \in DOMAIN id_baseID' : z \in Int /\ id_baseID'[z] \in 1 .. newInc'
         /\ \A z : z \in DOMAIN type_content' <=> z \in DOMAIN type_content \/ z = Key(x)
         /\ \A z \in DOMAIN type_content : type_content'[z] = type_content[z]
         /\ \A z \in DOMAIN type_content' : type_content'[z] \in 1 .. newInc'
         /\ x.id \notin DOMAIN id_baseID => id_baseID'[x.id] = type_content'[Key(x)]
<1>1. x.id \in Int
  BY DEF Records
<1>2. CASE Known(x)
  <2>1. /\ id_baseID' = Insert(id_baseID, x.id, type_content[Key(x)])
        /\ newInc' = newInc /\ type_content' = type_content /\ Key(x) \in DOMAIN type_content
    BY <1>2 DEF Match, Key, Known
  <2>2. type_content[Key(x)] \in 1 .. newInc
    BY <2>1 DEF Types
  <2>4. /\ \A z : z \in DOMAIN id_baseID' <=> z \in DOMAIN id_baseID \/ z = x.id
        /\ x.id \notin DOMAIN id_baseID => id_baseID'[x.id] = type_content[Key(x)]
        /\ \A z \in DOMAIN id_baseID : id_baseID'[z] = id_baseID[z]
    BY <2>1, InsertFacts
  <2>5. \A z \in DOMAIN id_baseID' : z \in Int /\ id_baseID'[z] \in 1 .. newInc
    BY <1>1, <2>2, <2>4 DEF Types
  <2>6. newInc' \in Nat /\ newInc' >= newInc
    BY <2>1 DEF Types
  <2>7. \A z \in DOMAIN type_content : type_content[z] \in 1 .. newInc
    BY DEF Types
  <2> QED
    BY <2>1, <2>4, <2>5, <2>6, <2>7, Zenon
<1>3. CASE ~Known(x)
  <2>1. /\ id_baseID' = Insert(id_baseID, x.id, newInc + 1)
        /\ newInc' = newInc + 1 /\ type_content' = Put(type_content, Key(x), newInc + 1)
        /\ Key(x) \notin DOMAIN type_content
    BY <1>3 DEF Match, Key, Known
  <2>2. newInc \in Nat /\ newInc + 1 \in 1 .. newInc' /\ 1 .. newInc \subseteq 1 .. newInc'
    BY <2>1 DEF Types
  <2>4. /\ \A z : z \in DOMAIN id_baseID' <=> z \in DOMAIN id_baseID \/ z = x.id
        /\ x.id \notin DOMAIN id_baseID => id_baseID'[x.id] = newInc + 1
        /\ \A z \in DOMAIN id_baseID : id_baseID'[z] = id_baseID[z]
    BY <2>1, InsertFacts
  <2>5. \A z \in DOMAIN id_baseID' : z \in Int /\ id_baseID'[z] \in 1 .. newInc'
    BY <1>1, <2>2, <2>4 DEF Types
  <2>6. /\ \A z : z \in DOMAIN type_content' <=> z \in DOMAIN type_content \/ z = Key(x)
        /\ type_content'[Key(x)] = newInc + 1
        /\ \A z \in DOMAIN type_content : z # Key(x) => type_content'[z] = type_content[z]
    BY <2>1, PutFacts
  <2>7. \A z \in DOMAIN type_content' : type_content'[z] \in 1 .. newInc'
    BY <2>2, <2>1, <2>6 DEF Types
  <2>8. \A z \in DOMAIN type_content : type_content'[z] = type_content[z]
    BY <2>1, <2>6
  <2>9. newInc' \in Nat /\ newInc' >= newInc
    BY <2>1, <2>2
  <2> QED
    BY <2>4, <2>5, <2>6, <2>7, <2>8, <2>9
<1> QED
  BY <1>2, <1>3

LEMMA MatchBased ==
  ASSUME Types, NEW k \in Old, NEW x \in Records, UNCHANGED settings, Match(x),
         x.id = Instances[k].id, x.type = Instances[k].type,
         Cites(Std(k)) \subseteq DOMAIN id_baseID, x.content = Renumber(Std(k), id_baseID),
         UniqueIds => Based
  PROVE  (UniqueIds => Based)'
<1> SUFFICES ASSUME UniqueIds, Based PROVE Based'
  BY SettingsKept
<1>1. Instances' = Instances /\ Old' = Old /\ \A l \in Old : Std(l)' = Std(l)
  BY SettingsKept
<1>2. \A z \in DOMAIN id_baseID : z \in DOMAIN id_baseID' /\ id_baseID'[z] = id_baseID[z]
  BY MatchMaps
<1>3. \A z \in DOMAIN type_content : z \in DOMAIN type_content' /\ type_content'[z] = type_content[z]
  BY MatchMaps
<1>4. ASSUME NEW l \in Old, Instances[l].id \in DOMAIN id_baseID'
      PROVE  /\ Cites(Std(l)) \subseteq DOMAIN id_baseID'
             /\ Target(l)' \in DOMAIN type_content'
             /\ type_content'[Target(l)'] = id_baseID'[Instances[l].id]
  <2>1. CASE Instances[l].id \in DOMAIN id_baseID
    <3>1. /\ Cites(Std(l)) \subseteq DOMAIN id_baseID /\ Target(l) \in DOMAIN type_content
          /\ type_content[Target(l)] = id_baseID[Instances[l].id]
      BY <2>1 DEF Based
    <3>2. Target(l)' = Target(l) /\ Cites(Std(l)) \subseteq DOMAIN id_baseID'
      BY <1>2, <3>1, TargetKept
    <3> QED
      BY <1>2, <1>3, <2>1, <3>1, <3>2
  <2>2. CASE Instances[l].id \notin DOMAIN id_baseID
    <3>1. Instances[l].id = Instances[k].id
      BY <1>4, <2>2, MatchMaps
    <3>2. l = k
      BY <3>1 DEF UniqueIds
    <3>3. Target(l)' = Target(l) /\ Cites(Std(l)) \subseteq DOMAIN id_baseID'
      BY <1>2, <3>2, TargetKept
    <3>4. Target(l) = Key(x)
      BY <3>2 DEF Target, Key
    <3>5. Key(x) \in DOMAIN type_content' /\ id_baseID'[x.id] = type_content'[Key(x)]
      BY <2>2, <3>1, MatchMaps
    <3> QED
      BY <3>1, <3>3, <3>4, <3>5
  <2> QED
    BY <2>1, <2>2
<1> QED
  BY <1>1, <1>4 DEF Based

LEMMA AppendFacts ==
  ASSUME NEW S, NEW s \in Seq(S), NEW e \in S
  PROVE  /\ Append(s, e) \in Seq(S) /\ Len(s) \in Nat /\ Len(Append(s, e)) = Len(s) + 1
         /\ DOMAIN s = 1 .. Len(s) /\ DOMAIN Append(s, e) = 1 .. (Len(s) + 1)
         /\ \A j \in 1 .. Len(s) : Append(s, e)[j] = s[j]
         /\ Append(s, e)[Len(s) + 1] = e
OBVIOUS

LEMMA RecordWithId ==
  ASSUME NEW x \in Records, NEW n \in Nat
  PROVE  /\ [x EXCEPT !.id = n + 1] \in Records /\ [x EXCEPT !.id = n + 1].id = n + 1
         /\ Key([x EXCEPT !.id = n + 1]) = Key(x) /\ [x EXCEPT !.id = n + 1].content = x.content
BY DEF Records, Key

LEMMA AppendFlag ==
  ASSUME NEW s \in Seq(BOOLEAN), NEW b \in BOOLEAN
  PROVE  /\ Append(s, b) \in Seq(BOOLEAN) /\ Len(s) \in Nat /\ Len(Append(s, b)) = Len(s) + 1
         /\ DOMAIN s = 1 .. Len(s) /\ DOMAIN Append(s, b) = 1 .. (Len(s) + 1)
         /\ \A j \in 1 .. Len(s) : Append(s, b)[j] = s[j]
         /\ Append(s, b)[Len(s) + 1] = b
<1> DEFINE S == BOOLEAN
<1>1. s \in Seq(S) /\ b \in S
  OBVIOUS
<1> HIDE DEF S
<1>2. /\ Append(s, b) \in Seq(S) /\ Len(s) \in Nat /\ Len(Append(s, b)) = Len(s) + 1
      /\ DOMAIN s = 1 .. Len(s) /\ DOMAIN Append(s, b) = 1 .. (Len(s) + 1)
      /\ \A j \in 1 .. Len(s) : Append(s, b)[j] = s[j]
      /\ Append(s, b)[Len(s) + 1] = b
  BY <1>1, AppendFacts
<1> QED
  BY <1>2, Zenon DEF S

\* A new number stands for the instance that is matched.
LEMMA MatchReps ==
  ASSUME Types, Reps, NEW x \in Records, Match(x), ~Known(x),
         NEW m \in Nat, index' = Append(index, m),
         instance'[m].id = newInc + 1, Key(instance'[m]) = Key(x), ~unmatched'[m],
         \A n \in 1 .. newInc : /\ instance'[index[n]] = instance[index[n]]
                                /\ ~unmatched'[index[n]]
  PROVE  /\ \A n \in 1 .. newInc' :
              /\ instance'[index'[n]].id = n /\ ~unmatched'[index'[n]]
              /\ Key(instance'[index'[n]]) \in DOMAIN type_content'
              /\ type_content'[Key(instance'[index'[n]])] = n
         /\ \A z \in DOMAIN type_content' : Key(instance'[index'[type_content'[z]]]) = z
         /\ index' \in Seq(Nat) /\ Len(index') = newInc'
         /\ \A n \in 1 .. newInc : index'[n] = index[n]
         /\ index'[newInc + 1] = m /\ newInc' = newInc + 1
<1>1. newInc' = newInc + 1 /\ newInc \in Nat
  BY DEF Match, Types
<1>2. type_content' = Put(type_content, Key(x), newInc + 1) /\ Key(x) \notin DOMAIN type_content
  BY DEF Match, Known, Key
<1>3. /\ index' \in Seq(Nat) /\ Len(index') = newInc' /\ index'[newInc + 1] = m
      /\ \A n \in 1 .. newInc : index'[n] = index[n]
  <2>1. index \in Seq(Nat) /\ Len(index) = newInc
    BY DEF Types
  <2> QED
    BY <1>1, <2>1, AppendFacts
<1>4. /\ \A z : z \in DOMAIN type_content' <=> z \in DOMAIN type_content \/ z = Key(x)
      /\ type_content'[Key(x)] = newInc + 1
      /\ \A z \in DOMAIN type_content : z # Key(x) => type_content'[z] = type_content[z]
  BY <1>2, PutFacts
<1>5. \A n \in 1 .. newInc' : n \in 1 .. newInc \/ n = newInc + 1
  BY <1>1
<1>6. ASSUME NEW n \in 1 .. newInc'
      PROVE  /\ instance'[index'[n]].id = n /\ ~unmatched'[index'[n]]
             /\ Key(instance'[index'[n]]) \in DOMAIN type_content'
             /\ type_content'[Key(instance'[index'[n]])] = n
  <2>1. CASE n \in 1 .. newInc
    <3>1. index'[n] = index[n] /\ instance'[index[n]] = instance[index[n]] /\ ~unmatched'[index[n]]
      BY <1>3, <2>1
    <3>2. /\ instance[index[n]].id = n
          /\ Key(instance[index[n]]) \in DOMAIN type_content
          /\ type_content[Key(instance[index[n]])] = n
      BY <2>1 DEF Reps
    <3> QED
      BY <1>2, <1>4, <3>1, <3>2
  <2>2. CASE n = newInc + 1
    BY <1>3, <1>4, <2>2
  <2> QED
    BY <1>5, <2>1, <2>2
<1>7. ASSUME NEW z \in DOMAIN type_content'
      PROVE  Key(instance'[index'[type_content'[z]]]) = z
  <2>1. CASE z = Key(x)
    BY <1>3, <1>4, <2>1
  <2>2. CASE z # Key(x)
    <3>1. z \in DOMAIN type_content /\ type_content'[z] = type_content[z]
      BY <1>4, <2>2
    <3>2. type_content[z] \in 1 .. newInc /\ Key(instance[index[type_content[z]]]) = z
      BY <3>1 DEF Types, Reps
    <3> QED
      BY <1>3, <3>1, <3>2
  <2> QED
    BY <2>1, <2>2
<1> QED
  BY <1>1, <1>3, <1>6, <1>7

-----------------------------------------------------------------------------
(* The steps *)

LEMMA InitInv == Init => Inv
<1> SUFFICES ASSUME Init PROVE Inv
  OBVIOUS
<1>1. instance = <<>> /\ unmatched = <<>> /\ index = <<>> /\ newInc = 0 /\ pc = "call" /\ i = 1
      /\ DOMAIN id_baseID = {} /\ DOMAIN type_content = {} /\ totalCount = 0
  BY DEF Init, Empty
<1>2. Types
  <2>1. instance \in Seq(Records) /\ unmatched \in Seq(BOOLEAN) /\ index \in Seq(Nat)
    BY <1>1
  <2>2. Len(unmatched) = Len(instance) /\ Len(index) = newInc /\ 1 .. newInc = {}
    BY <1>1
  <2>3. /\ file \in Inputs /\ i \in Nat \ {0} /\ newInc \in Nat /\ totalCount \in Int
        /\ MAX_PRECISION \in Nat
    BY <1>1 DEF Init
  <2>4. FPR \in BOOLEAN
    BY Zenon DEF Init
  <2> QED
    BY <1>1, <2>1, <2>2, <2>3, <2>4, Zenon DEF Types
<1>3. Waiting = {}
  BY <1>1 DEF Waiting
<1>4. Counted
  BY <1>1, <1>3, FS_EmptySet DEF Counted
<1>5. Reps
  BY <1>1 DEF Reps
<1>6. Waits /\ Based /\ Written
  BY <1>1, <1>3 DEF Waits, Based, Written
<1>7. Covered
  BY <1>1, <1>2, InstanceFacts DEF Covered
<1> QED
  BY <1>2, <1>4, <1>5, <1>6, <1>7 DEF Inv

\* Nothing has been read before the call.
LEMMA CompressInv == Inv /\ Compress => Inv'
<1> SUFFICES ASSUME Inv, Compress PROVE Inv'
  OBVIOUS
<1>1. /\ pc = "call" /\ pc' = "read" /\ i = 1 /\ i' = i /\ file' = file /\ instance' = instance
      /\ unmatched' = unmatched /\ index' = index /\ newInc' = newInc
      /\ totalCount' = totalCount /\ id_baseID' = id_baseID /\ type_content' = type_content
      /\ instance = <<>> /\ unmatched \in Seq(BOOLEAN) /\ Len(unmatched) = 0
      /\ DOMAIN id_baseID = {} /\ DOMAIN type_content = {} /\ Types
  BY DEF Compress, Inv, Types, matches
<1>2. Types'
  BY <1>1 DEF Types, Compress
<1>3. Waiting = {} /\ Waiting' = {}
  BY <1>1 DEF Waiting
<1>4. Counted'
  BY <1>1, <1>3 DEF Counted, Inv
<1>5. Reps'
  BY <1>1 DEF Reps, Inv
<1>6. Waits' /\ Based' /\ Written'
  BY <1>1, <1>3 DEF Waits, Based, Written
<1>7. Instances' = Instances /\ Old' = Old
  BY <1>1 DEF Instances, Old
<1>8. Covered'
  BY <1>1, <1>7, InstanceFacts DEF Covered
<1> QED
  BY <1>2, <1>4, <1>5, <1>6, <1>8 DEF Inv

\* An instance that waits still comes from the one it was read from when others
\* get their numbers.
LEMMA FromOldKept ==
  ASSUME UNCHANGED settings,
         \A z \in DOMAIN id_baseID : z \in DOMAIN id_baseID' /\ id_baseID'[z] = id_baseID[z],
         NEW j, instance'[j] = instance[j],
         \E k \in Old : FromOld(instance[j], k)
  PROVE  \E k \in Old' : FromOld(instance[j], k)'
<1>1. PICK k \in Old : FromOld(instance[j], k)
  OBVIOUS
<1>2. Instances' = Instances /\ Old' = Old /\ Std(k)' = Std(k)
  BY SettingsKept
<1>3. instance[j].flag => /\ Cites(Std(k)) \subseteq DOMAIN id_baseID'
                          /\ Renumber(Std(k), id_baseID') = Renumber(Std(k), id_baseID)
  BY <1>1, TargetKept DEF FromOld
<1>4. FromOld(instance[j], k)'
  BY <1>1, <1>2, <1>3 DEF FromOld
<1> QED
  BY <1>2, <1>4

LEMMA WaitingFinite == Types => IsFiniteSet(Waiting) /\ Cardinality(Waiting) \in Nat
<1> SUFFICES ASSUME Types PROVE IsFiniteSet(Waiting) /\ Cardinality(Waiting) \in Nat
  OBVIOUS
<1>1. Len(unmatched) \in Nat /\ DOMAIN unmatched = 1 .. Len(unmatched)
  BY DEF Types
<1>2. IsFiniteSet(1 .. Len(unmatched))
  BY <1>1, FS_Interval
<1>3. Waiting \subseteq 1 .. Len(unmatched)
  BY <1>1 DEF Waiting
<1> QED
  BY <1>2, <1>3, FS_Subset, FS_CardinalityType

\* Step 1 makes an instance of what it has read.
LEMMA ReadFacts ==
  ASSUME Inv, ReadInstance
  PROVE  /\ pc = "read" /\ pc' = pc /\ i \in Old /\ i' = i + 1 /\ UNCHANGED settings
         /\ output' = output
         /\ Parsed(Instances[i], Std(i)) \in Records
         /\ read_instance(Parsed(Instances[i], Std(i)))
<1>1. Types /\ i \in Nat \ {0}
  BY DEF Inv, Types
<1>2. read_instance(Parsed(Instances[i], Std(i)))
  BY DEF ReadInstance, Instances, Std
<1>3. /\ pc = "read" /\ pc' = pc /\ i <= Len(Instances) /\ i' = i + 1 /\ UNCHANGED settings
      /\ output' = output
  BY <1>2 DEF read_instance, Instances
<1>4. i \in Old
  BY <1>1, <1>3, InstanceFacts
<1>5. Std(i) \in Seq(Tokens) /\ Instances[i].id \in Int /\ Instances[i].type \in STRING
  BY <1>1, <1>4, StdFacts, InstanceFacts
<1>6. (Cites(Std(i)) = {}) \in BOOLEAN
  BY Zenon
<1>7. Parsed(Instances[i], Std(i)) \in Records
  BY <1>5, <1>6, Zenon DEF Parsed, Records
<1> QED
  BY <1>2, <1>3, <1>4, <1>7

LEMMA ParsedFacts ==
  ASSUME NEW k, NEW c
  PROVE  /\ Parsed(Instances[k], c).id = Instances[k].id
         /\ Parsed(Instances[k], c).type = Instances[k].type
         /\ Parsed(Instances[k], c).content = c
         /\ Parsed(Instances[k], c).flag <=> Cites(c) = {}
BY DEF Parsed

\* The instance goes to the end of umSet.
LEMMA KeptInstance ==
  ASSUME Types, NEW x \in Records, NEW m, m = Len(instance) + 1, instance' = Append(instance, x)
  PROVE  /\ instance' \in Seq(Records) /\ Len(instance) \in Nat /\ Len(instance') = m
         /\ DOMAIN instance = 1 .. Len(instance) /\ DOMAIN instance' = 1 .. m
         /\ \A j \in 1 .. Len(instance) : instance'[j] = instance[j]
         /\ instance'[m] = x
<1>1. instance \in Seq(Records)
  BY DEF Types
<1> QED
  BY <1>1, AppendFacts

LEMMA KeptFlag ==
  ASSUME Types, NEW b \in BOOLEAN, NEW m, m = Len(instance) + 1, unmatched' = Append(unmatched, b)
  PROVE  /\ unmatched' \in Seq(BOOLEAN) /\ Len(unmatched') = m
         /\ DOMAIN unmatched = 1 .. Len(instance) /\ DOMAIN unmatched' = 1 .. m
         /\ \A j \in 1 .. Len(instance) : unmatched'[j] = unmatched[j]
         /\ unmatched'[m] = b
<1>1. unmatched \in Seq(BOOLEAN) /\ Len(unmatched) = Len(instance)
  BY DEF Types
<1>2. /\ Append(unmatched, b) \in Seq(BOOLEAN)
      /\ Len(Append(unmatched, b)) = Len(unmatched) + 1
      /\ DOMAIN unmatched = 1 .. Len(unmatched)
      /\ DOMAIN Append(unmatched, b) = 1 .. (Len(unmatched) + 1)
      /\ \A j \in 1 .. Len(unmatched) : Append(unmatched, b)[j] = unmatched[j]
      /\ Append(unmatched, b)[Len(unmatched) + 1] = b
  BY <1>1, AppendFlag, Zenon
<1> QED
  BY <1>1, <1>2, Zenon

\* An instance with references waits.
LEMMA ReadWaitsInv ==
  ASSUME Inv, ReadInstance, Cites(Std(i)) # {}
  PROVE  Inv'
<1> DEFINE x == Parsed(Instances[i], Std(i))
<1>1. /\ pc = "read" /\ pc' = pc /\ i \in Old /\ i' = i + 1 /\ UNCHANGED settings
      /\ output' = output /\ x \in Records /\ read_instance(x) /\ Types
  BY ReadFacts DEF Inv
<1>2. x.id = Instances[i].id /\ x.type = Instances[i].type /\ x.content = Std(i) /\ ~x.flag
  BY ParsedFacts
<1> HIDE DEF x
<1>3. /\ instance' = Append(instance, x) /\ unmatched' = Append(unmatched, TRUE)
      /\ newInc' = newInc /\ id_baseID' = id_baseID /\ type_content' = type_content
      /\ index' = index /\ totalCount' = totalCount
  BY <1>1, <1>2 DEF read_instance, matches
<1>m. PICK m : m = Len(instance) + 1
  OBVIOUS
<1>k. PICK k \in Old : k = i
  BY <1>1
<1>4. /\ instance \in Seq(Records) /\ unmatched \in Seq(BOOLEAN) /\ Len(unmatched) = Len(instance)
      /\ i \in Nat \ {0}
  BY <1>1 DEF Types
<1>5. /\ instance' \in Seq(Records) /\ Len(instance) \in Nat /\ Len(instance') = m
      /\ DOMAIN instance = 1 .. Len(instance) /\ DOMAIN instance' = 1 .. m
      /\ \A j \in 1 .. Len(instance) : instance'[j] = instance[j]
      /\ instance'[m] = x
  BY <1>1, <1>3, <1>m, KeptInstance
<1>6. /\ unmatched' \in Seq(BOOLEAN) /\ Len(unmatched') = m
      /\ DOMAIN unmatched = 1 .. Len(instance) /\ DOMAIN unmatched' = 1 .. m
      /\ \A j \in 1 .. Len(instance) : unmatched'[j] = unmatched[j]
      /\ unmatched'[m] = TRUE
  <2>1. PICK b \in BOOLEAN : b = TRUE
    BY Zenon
  <2>2. unmatched' = Append(unmatched, b)
    BY <1>3, <2>1, Zenon
  <2>3. /\ unmatched' \in Seq(BOOLEAN) /\ Len(unmatched') = m
        /\ DOMAIN unmatched = 1 .. Len(instance) /\ DOMAIN unmatched' = 1 .. m
        /\ \A j \in 1 .. Len(instance) : unmatched'[j] = unmatched[j]
        /\ unmatched'[m] = b
    BY <1>1, <1>m, <2>2, KeptFlag, Zenon
  <2> QED
    BY <2>1, <2>3, Zenon
<1>7. m \in Nat /\ (\A j \in 1 .. m : j \in 1 .. Len(instance) \/ j = m)
      /\ m \notin 1 .. Len(instance) /\ m \in 1 .. m /\ 1 .. Len(instance) \subseteq 1 .. m
  BY <1>5, <1>m
<1>8. Waiting' = Waiting \cup {m} /\ m \notin Waiting
  BY <1>6, <1>7 DEF Waiting
<1>9. Types'
  <2>1. \A n \in 1 .. newInc : index[n] \in DOMAIN instance'
    BY <1>1, <1>5, <1>m DEF Types
  <2>2. file' \in Inputs /\ FPR' \in BOOLEAN /\ MAX_PRECISION' \in Nat
    BY <1>1, Zenon DEF settings, Types
  <2>3. i' \in Nat \ {0}
    BY <1>1, <1>4
  <2> QED
    BY <1>1, <1>3, <1>5, <1>6, <2>1, <2>2, <2>3 DEF Types
<1>10. Reps'
  <2>1. \A n \in 1 .. newInc : /\ index[n] \in 1 .. Len(instance)
                               /\ instance'[index[n]] = instance[index[n]]
                               /\ unmatched'[index[n]] = unmatched[index[n]]
    BY <1>1, <1>5, <1>6 DEF Types
  <2>2. \A n \in 1 .. newInc :
          /\ instance'[index[n]].id = n /\ ~unmatched'[index[n]]
          /\ Key(instance'[index[n]]) \in DOMAIN type_content
          /\ type_content[Key(instance'[index[n]])] = n
    BY <2>1 DEF Inv, Reps
  <2>3. \A z \in DOMAIN type_content : Key(instance'[index[type_content[z]]]) = z
    BY <1>1, <2>1 DEF Inv, Reps, Types
  <2>4. \A j \in DOMAIN instance' : ~unmatched'[j] => Cites(instance'[j].content) = {}
    BY <1>1, <1>5, <1>6, <1>7 DEF Inv, Reps
  <2> QED
    BY <1>1, <1>3, <2>2, <2>3, <2>4 DEF Reps
<1>11. (UniqueIds => Based)'
  BY <1>1, <1>3, SettingsKept DEF Inv, Based, Target
<1>12. Waits'
  <2>1. ASSUME NEW j \in Waiting
        PROVE  (\E l \in Old' : FromOld(instance[j], l)') /\ ~instance'[j].flag
    <3>1. j \in 1 .. Len(instance) /\ instance'[j] = instance[j]
      BY <1>5, <1>6 DEF Waiting
    <3>2. (\E l \in Old : FromOld(instance[j], l)) /\ ~instance[j].flag
      BY <1>1 DEF Inv, Waits
    <3> QED
      BY <1>1, <1>3, <3>1, <3>2, FromOldKept
  <2>2. FromOld(instance[m], k)' /\ ~instance'[m].flag /\ k \in Old'
    <3>1. Instances' = Instances /\ Std(k)' = Std(k) /\ Old' = Old
      BY <1>1, SettingsKept
    <3> QED
      BY <1>2, <1>5, <1>k, <3>1 DEF FromOld
  <2>3. ASSUME NEW j \in Waiting'
        PROVE  (\E l \in Old' : FromOld(instance[j], l)') /\ ~instance'[j].flag
    BY <1>8, <2>1, <2>2
  <2> QED
    BY <2>3 DEF Waits
<1>13. Covered'
  <2>1. ASSUME NEW l \in Old', l < i'
        PROVE  \/ Instances'[l].id \in DOMAIN id_baseID'
               \/ \E j \in Waiting' : instance'[j].id = Instances'[l].id
    <3>1. Instances' = Instances /\ Old' = Old /\ l \in Nat
      BY <1>1, SettingsKept, InstanceFacts
    <3>2. CASE l = i
      BY <1>2, <1>5, <1>8, <3>1, <3>2
    <3>3. CASE l # i
      <4>1. l < i
        BY <1>1, <1>4, <2>1, <3>1, <3>3
      <4>2. Instances[l].id \in DOMAIN id_baseID \/ \E j \in Waiting : instance[j].id = Instances[l].id
        BY <3>1, <4>1 DEF Inv, Covered
      <4>3. \A j \in Waiting : instance'[j] = instance[j] /\ j \in Waiting'
        BY <1>5, <1>6, <1>8 DEF Waiting
      <4> QED
        BY <1>3, <3>1, <4>2, <4>3
    <3> QED
      BY <3>2, <3>3
  <2> QED
    BY <1>1, <2>1 DEF Covered
<1>14. Counted'
  <2>1. IsFiniteSet(Waiting) /\ Cardinality(Waiting) \in Nat
    BY <1>1, WaitingFinite
  <2>2. Cardinality(Waiting') = Cardinality(Waiting) + 1
    BY <1>8, <2>1, FS_AddElement
  <2> QED
    BY <1>1, <1>3, <1>5, <1>m, <2>1, <2>2 DEF Inv, Counted
<1>15. Written'
  BY <1>1 DEF Written
<1> QED
  BY <1>9, <1>10, <1>11, <1>12, <1>13, <1>14, <1>15 DEF Inv

\* What was covered still is when the instances that wait stay as they are.
LEMMA ReadCovered ==
  ASSUME Inv, pc = "read", pc' = pc, i \in Old, i' = i + 1, UNCHANGED settings,
         \A z \in DOMAIN id_baseID : z \in DOMAIN id_baseID',
         Instances[i].id \in DOMAIN id_baseID',
         \A j \in Waiting : instance'[j] = instance[j] /\ j \in Waiting'
  PROVE  Covered'
<1>1. Instances' = Instances /\ Old' = Old /\ Types
  BY SettingsKept DEF Inv
<1>2. ASSUME NEW l \in Old, l < i'
      PROVE  \/ Instances[l].id \in DOMAIN id_baseID'
             \/ \E j \in Waiting' : instance'[j].id = Instances[l].id
  <2>1. l \in Nat /\ i \in Nat
    BY <1>1, InstanceFacts DEF Types
  <2>2. CASE l = i
    BY <2>2
  <2>3. CASE l # i
    <3>1. l < i
      BY <1>2, <2>1, <2>3
    <3>2. Instances[l].id \in DOMAIN id_baseID \/ \E j \in Waiting : instance[j].id = Instances[l].id
      BY <3>1 DEF Inv, Covered
    <3> QED
      BY <3>2
  <2> QED
    BY <2>2, <2>3
<1>3. \A k \in Old : k < i' => \/ Instances[k].id \in DOMAIN id_baseID'
                               \/ \E j \in Waiting' : instance'[j].id = Instances[k].id
  BY <1>2
<1> QED
  BY <1>1, <1>3 DEF Covered

\* An instance without references is matched at once.
LEMMA ReadMatchedInv ==
  ASSUME Inv, ReadInstance, Cites(Std(i)) = {}
  PROVE  Inv'
<1> DEFINE x == Parsed(Instances[i], Std(i))
<1>1. /\ pc = "read" /\ pc' = pc /\ i \in Old /\ i' = i + 1 /\ UNCHANGED settings
      /\ output' = output /\ x \in Records /\ read_instance(x) /\ Types /\ Reps
  BY ReadFacts DEF Inv
<1>2. x.id = Instances[i].id /\ x.type = Instances[i].type /\ x.content = Std(i)
  BY ParsedFacts
<1>3. /\ Match(x)
      /\ Known(x) => UNCHANGED <<instance, unmatched, index, totalCount>>
      /\ ~Known(x) => /\ index' = Append(index, Len(instance) + 1)
                      /\ instance' = Append(instance, [x EXCEPT !.id = newInc + 1])
                      /\ unmatched' = Append(unmatched, FALSE)
                      /\ totalCount' = totalCount - 1
  BY <1>1, <1>2 DEF read_instance
<1> HIDE DEF x
<1>k. PICK k \in Old : k = i
  BY <1>1
<1>4. x.content = Renumber(Std(k), id_baseID)
  <2>1. Std(k) \in Seq(Tokens) /\ Cites(Std(k)) = {}
    BY <1>1, <1>k, StdFacts
  <2> QED
    BY <1>2, <1>k, <2>1, RenumberFacts
<1>5. (UniqueIds => Based)'
  <2>1. UniqueIds => Based
    BY DEF Inv
  <2>2. Cites(Std(k)) \subseteq DOMAIN id_baseID /\ x.id = Instances[k].id /\ x.type = Instances[k].type
    BY <1>2, <1>k
  <2> QED
    BY <1>1, <1>3, <1>4, <2>1, <2>2, MatchBased
<1>6. /\ newInc' \in Nat /\ newInc' >= newInc
      /\ \A z : z \in DOMAIN id_baseID' <=> z \in DOMAIN id_baseID \/ z = x.id
      /\ \A z \in DOMAIN id_baseID : id_baseID'[z] = id_baseID[z]
      /\ \A z \in DOMAIN id_baseID' : z \in Int /\ id_baseID'[z] \in 1 .. newInc'
      /\ \A z \in DOMAIN type_content' : type_content'[z] \in 1 .. newInc'
  BY <1>1, <1>3, MatchMaps
<1>7. /\ file' \in Inputs /\ FPR' \in BOOLEAN /\ MAX_PRECISION' \in Nat /\ totalCount' \in Int
      /\ i' \in Nat \ {0}
  <2>1. file' \in Inputs /\ FPR' \in BOOLEAN /\ MAX_PRECISION' \in Nat
    BY <1>1, Zenon DEF settings, Types
  <2>2. totalCount' = totalCount \/ totalCount' = totalCount - 1
    BY <1>3, Zenon
  <2>3. i \in Nat \ {0} /\ totalCount \in Int
    BY <1>1 DEF Types
  <2>4. i' \in Nat \ {0} /\ totalCount' \in Int
    BY <1>1, <2>2, <2>3
  <2> QED
    BY <2>1, <2>4
<1>8. CASE Known(x)
  <2>1. /\ instance' = instance /\ unmatched' = unmatched /\ index' = index
        /\ totalCount' = totalCount /\ newInc' = newInc /\ type_content' = type_content
    BY <1>3, <1>8 DEF Match
  <2>2. Types'
    BY <1>1, <1>6, <1>7, <2>1 DEF Types
  <2>3. Reps'
    BY <1>1, <2>1 DEF Reps
  <2>4. Waiting' = Waiting
    BY <2>1 DEF Waiting
  <2>5. Waits'
    <3>1. ASSUME NEW j \in Waiting
          PROVE  (\E l \in Old' : FromOld(instance[j], l)') /\ ~instance'[j].flag
      <4>1. (\E l \in Old : FromOld(instance[j], l)) /\ ~instance[j].flag
        BY <1>1 DEF Inv, Waits
      <4> QED
        BY <1>1, <1>6, <2>1, <4>1, FromOldKept
    <3> QED
      BY <2>4, <3>1 DEF Waits
  <2>6. Covered'
    BY <1>1, <1>2, <1>6, <2>1, <2>4, ReadCovered
  <2>7. Counted' /\ Written'
    BY <1>1, <2>1, <2>4 DEF Inv, Counted, Written
  <2> QED
    BY <1>5, <2>2, <2>3, <2>5, <2>6, <2>7 DEF Inv
<1>9. CASE ~Known(x)
  <2> DEFINE y == [x EXCEPT !.id = newInc + 1]
  <2>1. /\ y \in Records /\ y.id = newInc + 1 /\ Key(y) = Key(x) /\ y.content = x.content
    BY <1>1, RecordWithId DEF Types
  <2>2. /\ index' = Append(index, Len(instance) + 1) /\ instance' = Append(instance, y)
        /\ unmatched' = Append(unmatched, FALSE) /\ totalCount' = totalCount - 1
    BY <1>3, <1>9
  <2> HIDE DEF y
  <2>m. PICK m : m = Len(instance) + 1
    OBVIOUS
  <2>3. /\ instance' \in Seq(Records) /\ Len(instance) \in Nat /\ Len(instance') = m
        /\ DOMAIN instance = 1 .. Len(instance) /\ DOMAIN instance' = 1 .. m
        /\ \A j \in 1 .. Len(instance) : instance'[j] = instance[j]
        /\ instance'[m] = y
    BY <1>1, <2>1, <2>2, <2>m, KeptInstance
  <2>4. /\ unmatched' \in Seq(BOOLEAN) /\ Len(unmatched') = m
        /\ DOMAIN unmatched = 1 .. Len(instance) /\ DOMAIN unmatched' = 1 .. m
        /\ \A j \in 1 .. Len(instance) : unmatched'[j] = unmatched[j]
        /\ unmatched'[m] = FALSE
    <3>1. PICK b \in BOOLEAN : b = FALSE
      BY Zenon
    <3>2. unmatched' = Append(unmatched, b)
      BY <2>2, <3>1, Zenon
    <3>3. /\ unmatched' \in Seq(BOOLEAN) /\ Len(unmatched') = m
          /\ DOMAIN unmatched = 1 .. Len(instance) /\ DOMAIN unmatched' = 1 .. m
          /\ \A j \in 1 .. Len(instance) : unmatched'[j] = unmatched[j]
          /\ unmatched'[m] = b
      BY <1>1, <2>m, <3>2, KeptFlag, Zenon
    <3> QED
      BY <3>1, <3>3, Zenon
  <2>5. m \in Nat /\ (\A j \in 1 .. m : j \in 1 .. Len(instance) \/ j = m)
        /\ m \notin 1 .. Len(instance) /\ m \in 1 .. m /\ 1 .. Len(instance) \subseteq 1 .. m
    BY <2>3, <2>m
  <2>6. Waiting' = Waiting
    BY <2>4, <2>5 DEF Waiting
  <2>7. \A n \in 1 .. newInc : /\ index[n] \in 1 .. Len(instance)
                               /\ instance'[index[n]] = instance[index[n]]
                               /\ ~unmatched'[index[n]]
    BY <1>1, <2>3, <2>4 DEF Types, Reps
  <2>8. /\ \A n \in 1 .. newInc' :
             /\ instance'[index'[n]].id = n /\ ~unmatched'[index'[n]]
             /\ Key(instance'[index'[n]]) \in DOMAIN type_content'
             /\ type_content'[Key(instance'[index'[n]])] = n
        /\ \A z \in DOMAIN type_content' : Key(instance'[index'[type_content'[z]]]) = z
        /\ index' \in Seq(Nat) /\ Len(index') = newInc'
        /\ \A n \in 1 .. newInc : index'[n] = index[n]
        /\ index'[newInc + 1] = m /\ newInc' = newInc + 1
    <3>1. /\ index' = Append(index, m) /\ instance'[m].id = newInc + 1
          /\ Key(instance'[m]) = Key(x) /\ ~unmatched'[m]
      BY <2>1, <2>2, <2>3, <2>4, <2>m
    <3> QED
      BY <1>1, <1>3, <1>9, <2>5, <2>7, <3>1, MatchReps
  <2>9. Types'
    <3>1. ASSUME NEW n \in 1 .. newInc' PROVE index'[n] \in DOMAIN instance'
      <4>1. n \in 1 .. newInc \/ n = newInc + 1
        BY <1>1, <2>8 DEF Types
      <4> QED
        BY <2>3, <2>5, <2>7, <2>8, <4>1
    <3> QED
      BY <1>1, <1>6, <1>7, <2>3, <2>4, <2>8, <3>1 DEF Types
  <2>10. Reps'
    <3>1. ASSUME NEW j \in DOMAIN instance', ~unmatched'[j]
          PROVE  Cites(instance'[j].content) = {}
      <4>1. CASE j = m
        BY <1>2, <2>1, <2>3, <4>1
      <4>2. CASE j \in 1 .. Len(instance)
        BY <1>1, <2>3, <2>4, <3>1, <4>2 DEF Reps
      <4> QED
        BY <2>3, <2>5, <4>1, <4>2
    <3> QED
      BY <2>8, <3>1 DEF Reps
  <2>11. \A j \in Waiting : j \in 1 .. Len(instance) /\ instance'[j] = instance[j]
    BY <2>3, <2>4 DEF Waiting
  <2>12. Waits'
    <3>1. ASSUME NEW j \in Waiting
          PROVE  (\E l \in Old' : FromOld(instance[j], l)') /\ ~instance'[j].flag
      <4>1. (\E l \in Old : FromOld(instance[j], l)) /\ ~instance[j].flag
        BY <1>1 DEF Inv, Waits
      <4> QED
        BY <1>1, <1>6, <2>11, <4>1, FromOldKept
    <3> QED
      BY <2>6, <3>1 DEF Waits
  <2>13. Covered'
    BY <1>1, <1>2, <1>6, <2>6, <2>11, ReadCovered
  <2>14. Counted' /\ Written'
    <3>1. Cardinality(Waiting) \in Nat
      BY <1>1, WaitingFinite
    <3> QED
      BY <1>1, <2>2, <2>3, <2>6, <2>m, <3>1 DEF Inv, Counted, Written
  <2> QED
    BY <1>5, <2>9, <2>10, <2>12, <2>13, <2>14 DEF Inv
<1> QED
  BY <1>8, <1>9

\* A content is rewritten as a whole or not at all.
LEMMA RewriteFacts ==
  ASSUME Types, NEW x \in Records
  PROVE  /\ Rewrite(x) \in Records /\ Rewrite(x).id = x.id /\ Rewrite(x).type = x.type
         /\ Rewrite(x).flag => /\ Cites(x.content) \subseteq DOMAIN id_baseID
                               /\ Rewrite(x).content = Renumber(x.content, id_baseID)
         /\ ~Rewrite(x).flag => Rewrite(x).content = x.content
         /\ Cites(x.content) = {} => Rewrite(x).content = x.content
<1>1. x.content \in Seq(Tokens)
  BY DEF Records
<1>2. CASE AllFind(x.content)
  <2>1. Rewrite(x) = [x EXCEPT !.content = Renumber(x.content, id_baseID), !.flag = TRUE]
    BY <1>2 DEF Rewrite
  <2>2. Cites(x.content) \subseteq DOMAIN id_baseID
    BY <1>2 DEF AllFind
  <2>3. \A z \in Cites(x.content) : id_baseID[z] \in Int
    BY <2>2 DEF Types
  <2>4. /\ Renumber(x.content, id_baseID) \in Seq(Tokens)
        /\ Cites(x.content) = {} => Renumber(x.content, id_baseID) = x.content
    BY <1>1, <2>3, RenumberFacts
  <2> DEFINE c == Renumber(x.content, id_baseID)
  <2> HIDE DEF c
  <2>5. [x EXCEPT !.content = c, !.flag = TRUE] \in Records
    BY <2>4 DEF Records, c
  <2>6. /\ [x EXCEPT !.content = c, !.flag = TRUE].id = x.id
        /\ [x EXCEPT !.content = c, !.flag = TRUE].type = x.type
        /\ [x EXCEPT !.content = c, !.flag = TRUE].content = c
        /\ [x EXCEPT !.content = c, !.flag = TRUE].flag
    BY DEF Records
  <2> QED
    BY <2>1, <2>2, <2>4, <2>5, <2>6 DEF c
<1>3. CASE ~AllFind(x.content)
  <2>1. Rewrite(x) = [x EXCEPT !.flag = FALSE]
    BY <1>3 DEF Rewrite
  <2>2. /\ [x EXCEPT !.flag = FALSE] \in Records /\ ~[x EXCEPT !.flag = FALSE].flag
        /\ [x EXCEPT !.flag = FALSE].id = x.id /\ [x EXCEPT !.flag = FALSE].type = x.type
        /\ [x EXCEPT !.flag = FALSE].content = x.content
    BY DEF Records
  <2> QED
    BY <2>1, <2>2
<1> QED
  BY <1>2, <1>3

\* Rewriting everything that waits, none of it rewritten before, and of the rest
\* only what has no references, loses nothing.
LEMMA RewriteInv ==
  ASSUME Inv, UNCHANGED <<settings, matches, unmatched, index>>, i' = 1, pc' = "merge",
         totalCount' = Cardinality(Waiting),
         NEW A, Waiting \subseteq A, A \subseteq DOMAIN instance,
         instance' = [j \in DOMAIN instance |->
                        IF j \in A THEN Rewrite(instance[j]) ELSE instance[j]],
         \A j \in Waiting : ~instance[j].flag,
         \A j \in A : ~unmatched[j] => Cites(instance[j].content) = {},
         \A k \in Old : \/ Instances[k].id \in DOMAIN id_baseID
                        \/ \E j \in Waiting : instance[j].id = Instances[k].id
  PROVE  Inv'
<1>1. Types /\ Reps /\ UNCHANGED settings
  BY DEF Inv
<1>2. /\ newInc' = newInc /\ id_baseID' = id_baseID /\ type_content' = type_content
      /\ unmatched' = unmatched /\ index' = index
  BY DEF matches
<1>3. /\ instance \in Seq(Records) /\ Len(instance) \in Nat /\ DOMAIN instance = 1 .. Len(instance)
      /\ \A j \in DOMAIN instance : instance[j] \in Records
      /\ unmatched \in Seq(BOOLEAN) /\ Len(unmatched) = Len(instance)
      /\ DOMAIN unmatched = DOMAIN instance
  BY <1>1 DEF Types
<1>4. DOMAIN instance' = DOMAIN instance
  OBVIOUS
<1>5. ASSUME NEW j \in DOMAIN instance
      PROVE  /\ instance'[j] \in Records /\ instance'[j].id = instance[j].id
             /\ ~unmatched[j] => Key(instance'[j]) = Key(instance[j])
             /\ j \in A => instance'[j] = Rewrite(instance[j])
  <2>1. CASE j \in A
    <3>1. instance'[j] = Rewrite(instance[j])
      BY <2>1
    <3> QED
      BY <1>1, <1>3, <2>1, <3>1, RewriteFacts DEF Key
  <2>2. CASE j \notin A
    BY <1>3, <2>2
  <2> QED
    BY <2>1, <2>2
<1>6. instance' \in Seq(Records) /\ Len(instance') = Len(instance)
  <2>1. instance' \in [1 .. Len(instance) -> Records]
    BY <1>3, <1>4, <1>5
  <2> QED
    BY <1>3, <2>1, FunctionIsSeq
<1>7. Types'
  <2>1. file' \in Inputs /\ FPR' \in BOOLEAN /\ MAX_PRECISION' \in Nat
    BY <1>1, Zenon DEF settings, Types
  <2>2. totalCount' \in Int
    BY <1>1, WaitingFinite
  <2>3. i' \in Nat \ {0}
    OBVIOUS
  <2> QED
    BY <1>1, <1>2, <1>4, <1>6, <2>1, <2>2, <2>3 DEF Types
<1>8. Reps'
  <2>1. \A n \in 1 .. newInc : index[n] \in DOMAIN instance /\ ~unmatched[index[n]]
    BY <1>1 DEF Types, Reps
  <2>2. \A n \in 1 .. newInc : /\ instance'[index[n]].id = n
                               /\ Key(instance'[index[n]]) = Key(instance[index[n]])
    BY <1>1, <1>5, <2>1 DEF Reps
  <2>3. /\ \A n \in 1 .. newInc : /\ Key(instance[index[n]]) \in DOMAIN type_content
                                  /\ type_content[Key(instance[index[n]])] = n
        /\ \A x \in DOMAIN type_content : /\ type_content[x] \in 1 .. newInc
                                          /\ Key(instance[index[type_content[x]]]) = x
    BY <1>1 DEF Reps, Types
  <2>4. \A x \in DOMAIN type_content : Key(instance'[index[type_content[x]]]) = x
    BY <2>2, <2>3
  <2>5. \A n \in 1 .. newInc : /\ instance'[index[n]].id = n /\ ~unmatched[index[n]]
                               /\ Key(instance'[index[n]]) \in DOMAIN type_content
                               /\ type_content[Key(instance'[index[n]])] = n
    BY <2>1, <2>2, <2>3
  <2> QED
    BY <1>2, <2>4, <2>5 DEF Reps
<1>9. (UniqueIds => Based)'
  BY <1>1, <1>2, SettingsKept DEF Inv, Based, Target
<1>10. Waiting' = Waiting
  BY <1>2 DEF Waiting
<1>11. Waits'
  <2>1. ASSUME NEW j \in Waiting
        PROVE  \E k \in Old' : FromOld(instance[j], k)'
    <3>1. j \in DOMAIN instance /\ instance'[j] = Rewrite(instance[j]) /\ instance[j] \in Records
      BY <1>3, <1>5 DEF Waiting
    <3>2. PICK k \in Old : FromOld(instance[j], k)
      BY DEF Inv, Waits
    <3>3. instance[j].id = Instances[k].id /\ instance[j].type = Instances[k].type
          /\ instance[j].content = Std(k)
      BY <3>2 DEF FromOld
    <3>4. Instances' = Instances /\ Old' = Old /\ Std(k)' = Std(k)
      BY <1>1, SettingsKept
    <3>5. FromOld(instance[j], k)'
      BY <1>1, <1>2, <3>1, <3>3, <3>4, RewriteFacts DEF FromOld
    <3> QED
      BY <3>4, <3>5
  <2>2. \A j \in Waiting : ~(j < i')
    BY <1>3 DEF Waiting
  <2> QED
    BY <1>10, <2>1, <2>2 DEF Waits
<1>12. Covered'
  <2>1. Instances' = Instances /\ Old' = Old
    BY <1>1, SettingsKept
  <2>2. \A j \in Waiting : instance'[j].id = instance[j].id
    BY <1>3, <1>5 DEF Waiting
  <2>3. ASSUME NEW k \in Old
        PROVE  \/ Instances[k].id \in DOMAIN id_baseID
               \/ \E j \in Waiting : instance'[j].id = Instances[k].id
    BY <2>2
  <2> QED
    BY <1>2, <1>10, <2>1, <2>3, Zenon DEF Covered
<1>13. Counted' /\ Written'
  BY <1>1, <1>10, WaitingFinite DEF Counted, Written
<1> QED
  BY <1>7, <1>8, <1>9, <1>11, <1>12, <1>13 DEF Inv

LEMMA EndSectionInv == Inv /\ EndSection => Inv'
<1> SUFFICES ASSUME Inv, EndSection PROVE Inv'
  OBVIOUS
<1>1. /\ pc = "read" /\ i > Len(Instances) /\ totalCount' = totalCount + Len(instance)
      /\ instance' = [k \in DOMAIN instance |-> Rewrite(instance[k])]
      /\ i' = 1 /\ pc' = "merge" /\ UNCHANGED <<settings, matches, unmatched, index>>
  BY DEF EndSection, Instances
<1>2. /\ Types /\ i \in Nat /\ Cardinality(Waiting) \in Nat /\ Len(instance) \in Nat
      /\ DOMAIN unmatched = DOMAIN instance
  BY WaitingFinite DEF Inv, Types
<1>3. totalCount' = Cardinality(Waiting)
  <2>1. totalCount = Cardinality(Waiting) - Len(instance)
    BY <1>1 DEF Inv, Counted
  <2> QED
    BY <1>1, <1>2, <2>1
<1>4. Waiting \subseteq DOMAIN instance /\ \A j \in Waiting : ~instance[j].flag
  BY <1>1, <1>2 DEF Waiting, Inv, Waits
<1>5. \A j \in DOMAIN instance : ~unmatched[j] => Cites(instance[j].content) = {}
  BY <1>1 DEF Inv, Reps
<1>6. \A k \in Old : \/ Instances[k].id \in DOMAIN id_baseID
                     \/ \E j \in Waiting : instance[j].id = Instances[k].id
  <2>1. \A k \in Old : k < i
    BY <1>1, <1>2, InstanceFacts
  <2> QED
    BY <1>1, <2>1 DEF Inv, Covered
<1>7. instance' = [k \in DOMAIN instance |->
                     IF k \in DOMAIN instance THEN Rewrite(instance[k]) ELSE instance[k]]
  BY <1>1
<1> QED
  BY <1>1, <1>3, <1>4, <1>5, <1>6, <1>7, RewriteInv

LEMMA EndPassInv == Inv /\ EndPass => Inv'
<1> SUFFICES ASSUME Inv, EndPass PROVE Inv'
  OBVIOUS
<1>1. Types /\ i \in Nat /\ DOMAIN unmatched = DOMAIN instance /\ DOMAIN instance = 1 .. Len(instance)
      /\ Len(instance) \in Nat
  BY DEF Inv, Types
<1>2. Waiting = {k \in DOMAIN instance : unmatched[k]}
  BY <1>1 DEF Waiting
<1>3. /\ pc = "merge" /\ i > Len(instance) /\ i' = 1 /\ pc' = pc /\ totalCount' = totalCount
      /\ instance' = [k \in DOMAIN instance |->
                        IF k \in Waiting THEN Rewrite(instance[k]) ELSE instance[k]]
      /\ UNCHANGED <<settings, matches, unmatched, index>>
  BY <1>2 DEF EndPass, end_pass
<1>4. totalCount' = Cardinality(Waiting)
  BY <1>1, <1>3, WaitingFinite DEF Inv, Counted
<1>5. \A j \in Waiting : j < i
  BY <1>1, <1>2, <1>3
<1>6. \A j \in Waiting : ~instance[j].flag
  BY <1>5 DEF Inv, Waits
<1>7. \A k \in Old : \/ Instances[k].id \in DOMAIN id_baseID
                     \/ \E j \in Waiting : instance[j].id = Instances[k].id
  BY <1>3 DEF Inv, Covered
<1>8. Waiting \subseteq DOMAIN instance /\ \A j \in Waiting : ~unmatched[j] => Cites(instance[j].content) = {}
  BY <1>2
<1> QED
  BY <1>3, <1>4, <1>6, <1>7, <1>8, RewriteInv

LEMMA FlagCleared ==
  ASSUME NEW s \in Seq(BOOLEAN), NEW q \in DOMAIN s, NEW t, t = [s EXCEPT ![q] = FALSE]
  PROVE  /\ t \in Seq(BOOLEAN) /\ Len(t) = Len(s) /\ DOMAIN t = DOMAIN s /\ ~t[q]
         /\ \A j \in DOMAIN s : j # q => t[j] = s[j]
<1> DEFINE S == BOOLEAN
<1>1. PICK b \in S : ~b /\ b = FALSE
  BY Zenon DEF S
<1>2. s \in Seq(S) /\ t = [s EXCEPT ![q] = b]
  BY <1>1, Zenon DEF S
<1> HIDE DEF S
<1>3. t \in Seq(S) /\ Len(t) = Len(s) /\ DOMAIN t = DOMAIN s /\ t[q] = b
      /\ \A j \in DOMAIN s : j # q => t[j] = s[j]
  <2>1. Len(s) \in Nat /\ DOMAIN s = 1 .. Len(s) /\ \A j \in DOMAIN s : s[j] \in S
    BY <1>2
  <2>2. t \in [1 .. Len(s) -> S] /\ t[q] = b /\ \A j \in DOMAIN s : j # q => t[j] = s[j]
    BY <1>1, <1>2, <2>1
  <2> QED
    BY <2>1, <2>2, FunctionIsSeq
<1> QED
  BY <1>1, <1>3, Zenon DEF S

\* Step 2: an instance whose references all have their numbers is matched.
LEMMA MergeInv == Inv /\ MergeInstance => Inv'
<1> SUFFICES ASSUME Inv, MergeInstance PROVE Inv'
  OBVIOUS
<1>1. /\ pc = "merge" /\ i <= Len(instance) /\ i' = i + 1 /\ pc' = pc /\ UNCHANGED settings
      /\ output' = output /\ Types /\ Reps
  BY DEF MergeInstance, merge_instance, Inv
<1>2. /\ instance \in Seq(Records) /\ Len(instance) \in Nat /\ DOMAIN instance = 1 .. Len(instance)
      /\ unmatched \in Seq(BOOLEAN) /\ Len(unmatched) = Len(instance)
      /\ DOMAIN unmatched = DOMAIN instance /\ i \in Nat \ {0}
  BY <1>1 DEF Types
<1>3. i \in DOMAIN instance /\ instance[i] \in Records
  BY <1>1, <1>2
<1>4. file' \in Inputs /\ FPR' \in BOOLEAN /\ MAX_PRECISION' \in Nat
  BY <1>1, Zenon DEF settings, Types
<1>5. i' \in Nat \ {0} /\ \A j \in DOMAIN instance : j < i' <=> j < i \/ j = i
  BY <1>1, <1>2
<1>6. Instances' = Instances /\ Old' = Old
  BY <1>1, SettingsKept
<1>7. CASE ~(unmatched[i] /\ instance[i].flag)
  <2>1. /\ newInc' = newInc /\ id_baseID' = id_baseID /\ type_content' = type_content
        /\ instance' = instance /\ index' = index /\ totalCount' = totalCount
        /\ unmatched' = unmatched
    BY <1>7 DEF MergeInstance, merge_instance, matches
  <2>2. Types' /\ Reps'
    BY <1>1, <1>4, <1>5, <2>1 DEF Types, Reps
  <2>3. (UniqueIds => Based)'
    BY <1>1, <2>1, SettingsKept DEF Inv, Based, Target
  <2>4. Waiting' = Waiting
    BY <2>1 DEF Waiting
  <2>5. Waits'
    <3>1. ASSUME NEW j \in Waiting
          PROVE  (\E l \in Old' : FromOld(instance[j], l)') /\ (j < i' => ~instance'[j].flag)
      <4>1. j \in DOMAIN instance /\ unmatched[j]
        BY <1>2 DEF Waiting
      <4>2. (\E l \in Old : FromOld(instance[j], l)) /\ (j < i => ~instance[j].flag)
        BY DEF Inv, Waits
      <4>3. j < i' => ~instance[j].flag
        BY <1>5, <1>7, <4>1, <4>2
      <4> QED
        BY <1>1, <2>1, <4>2, <4>3, FromOldKept
    <3> QED
      BY <1>1, <2>4, <3>1 DEF Waits
  <2>6. Covered' /\ Counted' /\ Written'
    BY <1>1, <1>6, <2>1, <2>4 DEF Inv, Covered, Counted, Written
  <2> QED
    BY <2>2, <2>3, <2>5, <2>6 DEF Inv
<1>8. CASE unmatched[i] /\ instance[i].flag
  <2>1. /\ Match(instance[i]) /\ totalCount' = totalCount - 1
        /\ unmatched' = [unmatched EXCEPT ![i] = FALSE]
        /\ Known(instance[i]) => instance' = instance /\ index' = index
        /\ ~Known(instance[i]) => /\ index' = Append(index, i)
                                  /\ instance' = [instance EXCEPT ![i].id = newInc + 1]
    BY <1>8 DEF MergeInstance, merge_instance
  <2>q. PICK q \in DOMAIN instance : q = i
    BY <1>3
  <2>2. q \in Waiting /\ unmatched[q] /\ instance[q].flag /\ instance[q] \in Records
        /\ Match(instance[q])
    BY <1>2, <1>3, <1>8, <2>1, <2>q DEF Waiting
  <2>3. PICK k \in Old : FromOld(instance[q], k)
    BY <2>2 DEF Inv, Waits
  <2>4. /\ instance[q].id = Instances[k].id /\ instance[q].type = Instances[k].type
        /\ Cites(Std(k)) \subseteq DOMAIN id_baseID
        /\ instance[q].content = Renumber(Std(k), id_baseID)
    BY <2>2, <2>3 DEF FromOld
  <2>5. (UniqueIds => Based)'
    <3>1. UniqueIds => Based
      BY DEF Inv
    <3> QED
      BY <1>1, <2>2, <2>4, <3>1, MatchBased
  <2>6. /\ newInc' \in Nat /\ newInc' >= newInc
        /\ \A z : z \in DOMAIN id_baseID' <=> z \in DOMAIN id_baseID \/ z = instance[q].id
        /\ \A z \in DOMAIN id_baseID : id_baseID'[z] = id_baseID[z]
        /\ \A z \in DOMAIN id_baseID' : z \in Int /\ id_baseID'[z] \in 1 .. newInc'
        /\ \A z \in DOMAIN type_content' : type_content'[z] \in 1 .. newInc'
    BY <1>1, <2>2, MatchMaps
  <2>7. /\ unmatched' \in Seq(BOOLEAN) /\ Len(unmatched') = Len(instance)
        /\ DOMAIN unmatched' = DOMAIN instance /\ ~unmatched'[q]
        /\ \A j \in DOMAIN instance : j # q => unmatched'[j] = unmatched[j]
    BY <1>2, <2>1, <2>q, FlagCleared
  <2>8. Waiting' = Waiting \ {q}
    BY <1>2, <2>7 DEF Waiting
  <2>9. /\ DOMAIN instance' = DOMAIN instance /\ Len(instance') = Len(instance)
        /\ instance' \in Seq(Records) /\ Key(instance'[q]) = Key(instance[q])
        /\ \A j \in DOMAIN instance : j # q => instance'[j] = instance[j]
        /\ ~Known(instance[q]) => instance'[q].id = newInc + 1
    <3>1. CASE Known(instance[q])
      BY <1>2, <2>1, <2>q, <3>1
    <3>2. CASE ~Known(instance[q])
      <4> DEFINE y == [instance[q] EXCEPT !.id = newInc + 1]
      <4>1. y \in Records /\ y.id = newInc + 1 /\ Key(y) = Key(instance[q])
        BY <1>1, <2>2, RecordWithId DEF Types
      <4>2. instance' = [instance EXCEPT ![q] = y]
        BY <2>1, <2>q, <3>2
      <4> HIDE DEF y
      <4> QED
        BY <1>2, <4>1, <4>2
    <3> QED
      BY <3>1, <3>2
  <2>10. \A n \in 1 .. newInc : /\ index[n] \in DOMAIN instance /\ index[n] # q
                                /\ instance'[index[n]] = instance[index[n]]
                                /\ ~unmatched'[index[n]]
    <3>1. \A n \in 1 .. newInc : index[n] \in DOMAIN instance /\ ~unmatched[index[n]]
      BY <1>1 DEF Types, Reps
    <3> QED
      BY <2>2, <2>7, <2>9, <3>1
  <2>11. Types' /\ Reps'
    <3>1. CASE Known(instance[q])
      <4>1. newInc' = newInc /\ type_content' = type_content /\ index' = index
        BY <2>1, <2>2, <2>q, <3>1 DEF Match
      <4>2. \A n \in 1 .. newInc : index[n] \in DOMAIN instance'
        BY <2>9, <2>10
      <4>3. totalCount' \in Int
        BY <1>1, <2>1 DEF Types
      <4>4. Types'
        BY <1>1, <1>4, <1>5, <2>6, <2>7, <2>9, <4>1, <4>2, <4>3 DEF Types
      <4>5. \A n \in 1 .. newInc :
              /\ instance'[index[n]].id = n /\ ~unmatched'[index[n]]
              /\ Key(instance'[index[n]]) \in DOMAIN type_content
              /\ type_content[Key(instance'[index[n]])] = n
        BY <1>1, <2>10 DEF Reps
      <4>6. \A z \in DOMAIN type_content : Key(instance'[index[type_content[z]]]) = z
        BY <1>1, <2>10 DEF Reps, Types
      <4> QED
        BY <1>1, <4>1, <4>4, <4>5, <4>6 DEF Reps
    <3>2. CASE ~Known(instance[q])
      <4>1. index' = Append(index, q) /\ q \in Nat /\ instance'[q].id = newInc + 1
        BY <1>2, <2>1, <2>9, <2>q, <3>2
      <4>2. /\ \A n \in 1 .. newInc' :
                 /\ instance'[index'[n]].id = n /\ ~unmatched'[index'[n]]
                 /\ Key(instance'[index'[n]]) \in DOMAIN type_content'
                 /\ type_content'[Key(instance'[index'[n]])] = n
            /\ \A z \in DOMAIN type_content' : Key(instance'[index'[type_content'[z]]]) = z
            /\ index' \in Seq(Nat) /\ Len(index') = newInc'
            /\ \A n \in 1 .. newInc : index'[n] = index[n]
            /\ index'[newInc + 1] = q /\ newInc' = newInc + 1
        BY <1>1, <2>2, <2>7, <2>9, <2>10, <3>2, <4>1, MatchReps
      <4>3. ASSUME NEW n \in 1 .. newInc' PROVE index'[n] \in DOMAIN instance'
        <5>1. n \in 1 .. newInc \/ n = newInc + 1
          BY <1>1, <4>2 DEF Types
        <5> QED
          BY <2>9, <2>10, <4>2, <5>1
      <4>4. totalCount' \in Int
        BY <1>1, <2>1 DEF Types
      <4> QED
        BY <1>1, <1>4, <1>5, <2>6, <2>7, <2>9, <4>2, <4>3, <4>4 DEF Types, Reps
    <3> QED
      BY <3>1, <3>2
  <2>12. Waits'
    <3>1. ASSUME NEW j \in Waiting'
          PROVE  (\E l \in Old' : FromOld(instance[j], l)') /\ (j < i' => ~instance'[j].flag)
      <4>1. j \in Waiting /\ j # q /\ j \in DOMAIN instance /\ instance'[j] = instance[j]
        BY <1>2, <2>8, <2>9 DEF Waiting
      <4>2. (\E l \in Old : FromOld(instance[j], l)) /\ (j < i => ~instance[j].flag)
        BY <4>1 DEF Inv, Waits
      <4> QED
        BY <1>1, <1>5, <2>6, <2>q, <4>1, <4>2, FromOldKept
    <3> QED
      BY <1>1, <3>1 DEF Waits
  <2>13. Covered'
    <3>1. ASSUME NEW l \in Old
          PROVE  \/ Instances[l].id \in DOMAIN id_baseID'
                 \/ \E j \in Waiting' : instance'[j].id = Instances[l].id
      <4>1. Instances[l].id \in DOMAIN id_baseID \/ \E j \in Waiting : instance[j].id = Instances[l].id
        BY <1>1 DEF Inv, Covered
      <4>2. \A j \in Waiting : j # q => j \in Waiting' /\ instance'[j] = instance[j]
        BY <1>2, <2>8, <2>9 DEF Waiting
      <4> QED
        BY <2>6, <4>1, <4>2
    <3> QED
      BY <1>6, <3>1, Zenon DEF Covered
  <2>14. Counted' /\ Written'
    <3>1. IsFiniteSet(Waiting) /\ Cardinality(Waiting) \in Nat
      BY <1>1, WaitingFinite
    <3>2. Cardinality(Waiting') = Cardinality(Waiting) - 1
      BY <2>2, <2>8, <3>1, FS_RemoveElement
    <3> QED
      BY <1>1, <2>1, <3>1, <3>2 DEF Inv, Counted, Written
  <2> QED
    BY <2>5, <2>11, <2>12, <2>13, <2>14 DEF Inv
<1> QED
  BY <1>7, <1>8

\* When the counter is zero nothing waits, and every number is written.
LEMMA WriteInv == Inv /\ WriteFile => Inv'
<1> SUFFICES ASSUME Inv, WriteFile PROVE Inv'
  OBVIOUS
<1>1. /\ pc = "merge" /\ pc' = "done" /\ i' = i /\ totalCount = 0 /\ UNCHANGED settings
      /\ newInc' = newInc /\ id_baseID' = id_baseID /\ type_content' = type_content
      /\ totalCount' = totalCount /\ instance' = instance /\ unmatched' = unmatched
      /\ index' = index /\ Types
  BY DEF WriteFile, matches, Inv
<1>2. Waiting = {} /\ Waiting' = Waiting
  <2>1. IsFiniteSet(Waiting) /\ Cardinality(Waiting) = 0
    BY <1>1, WaitingFinite DEF Inv, Counted
  <2> QED
    BY <1>1, <2>1, FS_EmptySet DEF Waiting
<1>3. Types'
  BY <1>1 DEF Types, settings
<1>4. Reps'
  BY <1>1 DEF Inv, Reps
<1>5. (UniqueIds => Based)'
  BY <1>1, SettingsKept DEF Inv, Based, Target
<1>6. Waits' /\ Counted'
  BY <1>1, <1>2 DEF Inv, Waits, Counted
<1>7. Covered'
  <2>1. Instances' = Instances /\ Old' = Old
    BY <1>1, SettingsKept
  <2> QED
    BY <1>1, <1>2, <2>1 DEF Inv, Covered
<1>8. Written'
  <2> DEFINE numbers == index \o InOrder(Waiting)
  <2>1. output' = [k \in DOMAIN numbers |-> instance[numbers[k]]]
    BY DEF WriteFile
  <2>2. InOrder(Waiting) = <<>>
    <3>1. Cardinality({}) = 0
      BY FS_EmptySet
    <3>2. 1 .. 0 = {}
      OBVIOUS
    <3>3. \A s \in [1 .. 0 -> {}] : s = <<>>
      BY <3>2
    <3>4. <<>> \in [1 .. 0 -> {}] /\ \A a, b \in DOMAIN <<>> : a < b => <<>>[a] < <<>>[b]
      BY <3>2
    <3> QED
      BY <1>2, <3>1, <3>3, <3>4 DEF InOrder
  <2>3. index \in Seq(Nat) /\ Len(index) = newInc
    BY <1>1 DEF Types
  <2>4. numbers = index
    BY <2>2, <2>3
  <2> HIDE DEF numbers
  <2> QED
    BY <1>1, <1>2, <2>1, <2>3, <2>4 DEF Written
<1> QED
  BY <1>3, <1>4, <1>5, <1>6, <1>7, <1>8 DEF Inv

LEMMA NextInv == Inv /\ [Next]_vars => Inv'
<1> SUFFICES ASSUME Inv, [Next]_vars PROVE Inv'
  OBVIOUS
<1>1. CASE ReadInstance
  BY <1>1, ReadWaitsInv, ReadMatchedInv
<1>2. CASE UNCHANGED vars
  <2>1. /\ UNCHANGED settings /\ pc' = pc /\ i' = i /\ newInc' = newInc
        /\ totalCount' = totalCount /\ id_baseID' = id_baseID /\ type_content' = type_content
        /\ instance' = instance /\ unmatched' = unmatched /\ index' = index /\ output' = output
    BY <1>2 DEF vars, settings
  <2>2. /\ Instances' = Instances /\ Old' = Old /\ (UniqueIds' <=> UniqueIds)
        /\ \A k \in Old : Std(k)' = Std(k)
    BY <2>1, SettingsKept
  <2>3. Waiting' = Waiting
    BY <2>1 DEF Waiting
  <2>4. Types' /\ Reps'
    BY <2>1 DEF Inv, Types, Reps, settings
  <2>5. (UniqueIds => Based)'
    BY <2>1, <2>2 DEF Inv, Based, Target
  <2>6. Waits'
    BY <2>1, <2>2, <2>3 DEF Inv, Waits, FromOld
  <2>7. Covered' /\ Counted' /\ Written'
    BY <2>1, <2>2, <2>3 DEF Inv, Covered, Counted, Written
  <2> QED
    BY <2>4, <2>5, <2>6, <2>7 DEF Inv
<1> QED
  BY <1>1, <1>2, CompressInv, EndSectionInv, MergeInv, EndPassInv, WriteInv DEF Next

\* The maps of compress() stay consistent: a number stands for one kept
\* instance, and what has a number was found by its renumbered content.
THEOREM CompressorInvariant == Spec => []Inv
BY InitInv, NextInv, PTL DEF Spec

-----------------------------------------------------------------------------
(* What is written *)

\* In a flat file a reference is printed anew as it was, but for its number.
LEMMA FlatToken ==
  ASSUME NEW t \in Tokens, NEW v \in Int, t.closes <= 1
  PROVE  Reprint(t, v) = [t EXCEPT !.val = v]
<1>1. OneBracket(t.closes) = t.closes
  BY DEF OneBracket, Tokens
<1> QED
  BY <1>1 DEF Reprint, Tokens

\* In a flat file every reference is seen.
LEMMA FlatFacts ==
  ASSUME Types, Flat, NEW k \in Old, NEW j \in DOMAIN Std(k)
  PROVE  /\ Std(k)[j] \in Tokens
         /\ IsCite(Std(k)[j]) <=> Std(k)[j].kind = "ref"
         /\ Std(k)[j].kind = "ref" => /\ Std(k)[j].closes <= 1
                                      /\ Std(k)[j].val \in Cites(Std(k))
                                      /\ Std(k)[j].val \in Refs(k)
<1>1. /\ Std(k) \in Seq(Tokens) /\ j \in DOMAIN Instances[k].content
      /\ Std(k)[j].kind = Instances[k].content[j].kind
      /\ Std(k)[j].kind = "ref" => Std(k)[j] = Instances[k].content[j]
  BY StdFacts
<1>2. Std(k)[j] \in Tokens
  BY <1>1
<1>3. Std(k)[j].kind = "ref" => Std(k)[j].opens <= 1 /\ Std(k)[j].closes <= 1
  BY <1>1 DEF Flat
<1>4. IsCite(Std(k)[j]) <=> Std(k)[j].kind = "ref"
  BY <1>3 DEF IsCite
<1>5. Std(k)[j].kind = "ref" => Std(k)[j].val \in Cites(Std(k)) /\ Std(k)[j].val \in Refs(k)
  BY <1>1, <1>4 DEF Cites, Refs
<1> QED
  BY <1>2, <1>3, <1>4, <1>5

\* The number of old instance k.
Number(k) == id_baseID[Instances[k].id]

\* When all is written every instance has a number, which stands for its type
\* and its renumbered content.
LEMMA DoneFacts ==
  ASSUME Inv, pc = "done", Closed, NEW k \in Old
  PROVE  /\ Instances[k].id \in DOMAIN id_baseID /\ Number(k) \in 1 .. newInc
         /\ Cites(Std(k)) \subseteq DOMAIN id_baseID
         /\ Target(k) \in DOMAIN type_content /\ type_content[Target(k)] = Number(k)
         /\ output[Number(k)].id = Number(k) /\ Key(output[Number(k)]) = Target(k)
<1>1. Types /\ Reps /\ Based /\ Waiting = {}
  BY DEF Inv, Closed, UniqueIds, Written
<1>2. Instances[k].id \in DOMAIN id_baseID
  BY <1>1 DEF Inv, Covered
<1>3. /\ Cites(Std(k)) \subseteq DOMAIN id_baseID /\ Target(k) \in DOMAIN type_content
      /\ type_content[Target(k)] = Number(k)
  BY <1>1, <1>2 DEF Based, Number
<1>4. Number(k) \in 1 .. newInc
  BY <1>1, <1>2 DEF Types, Number
<1>5. output[Number(k)] = instance[index[Number(k)]]
  BY <1>4 DEF Inv, Written
<1>6. instance[index[Number(k)]].id = Number(k) /\ Key(instance[index[Number(k)]]) = Target(k)
  BY <1>1, <1>3, <1>4 DEF Reps
<1> QED
  BY <1>2, <1>3, <1>4, <1>5, <1>6

\* The compressed file says what the original said (ifccompressor_impl.cpp 245-281):
\* every instance of a well-formed flat file has a representative of its type with
\* its own content, each reference led to that one's representative.
THEOREM FlatFilesKept == Spec => [](Flat => Faithful)
<1>1. ASSUME Inv, Flat, pc = "done", WellFormed, NEW k \in Old
      PROVE  /\ output[Number(k)].id = Number(k) /\ output[Number(k)].type = Instances[k].type
             /\ output[Number(k)].content =
                  [j \in DOMAIN Std(k) |->
                     IF Std(k)[j].kind = "ref" THEN [Std(k)[j] EXCEPT !.val = id_baseID[@]]
                     ELSE Std(k)[j]]
  <2>1. Types /\ Closed
    BY <1>1 DEF Inv, WellFormed
  <2>2. /\ output[Number(k)].id = Number(k) /\ Key(output[Number(k)]) = Target(k)
        /\ Cites(Std(k)) \subseteq DOMAIN id_baseID
    BY <1>1, <2>1, DoneFacts
  <2>3. /\ output[Number(k)].type = Instances[k].type
        /\ output[Number(k)].content = Renumber(Std(k), id_baseID)
    BY <2>2 DEF Key, Target
  <2>4. ASSUME NEW j \in DOMAIN Std(k)
        PROVE  Renumber(Std(k), id_baseID)[j] =
                 IF Std(k)[j].kind = "ref" THEN [Std(k)[j] EXCEPT !.val = id_baseID[@]]
                 ELSE Std(k)[j]
    <3>1. /\ Std(k)[j] \in Tokens
          /\ IsCite(Std(k)[j]) <=> Std(k)[j].kind = "ref"
          /\ Std(k)[j].kind = "ref" => Std(k)[j].closes <= 1 /\ Std(k)[j].val \in Cites(Std(k))
      BY <1>1, <2>1, FlatFacts
    <3>2. CASE Std(k)[j].kind = "ref"
      <4>1. id_baseID[Std(k)[j].val] \in Int
        BY <2>1, <2>2, <3>1, <3>2 DEF Types
      <4>2. Renumber(Std(k), id_baseID)[j] = Reprint(Std(k)[j], id_baseID[Std(k)[j].val])
        BY <3>1, <3>2 DEF Renumber
      <4>3. Reprint(Std(k)[j], id_baseID[Std(k)[j].val])
              = [Std(k)[j] EXCEPT !.val = id_baseID[Std(k)[j].val]]
        BY <3>1, <3>2, <4>1, FlatToken
      <4> QED
        BY <3>2, <4>2, <4>3
    <3>3. CASE Std(k)[j].kind # "ref"
      BY <3>1, <3>3 DEF Renumber
    <3> QED
      BY <3>2, <3>3
  <2>5. Renumber(Std(k), id_baseID) =
          [j \in DOMAIN Std(k) |->
             IF Std(k)[j].kind = "ref" THEN [Std(k)[j] EXCEPT !.val = id_baseID[@]]
             ELSE Std(k)[j]]
    BY <2>4 DEF Renumber
  <2> QED
    BY <2>2, <2>3, <2>5
<1>2. Inv => (Flat => Faithful)
  BY <1>1 DEF Faithful, Number, Std
<1> QED
  BY <1>2, CompressorInvariant, PTL

-----------------------------------------------------------------------------
(* What is merged.  Trees and depths are recursive functions of a depth n; *)
(* that they exist, and what they say of the numbers, is proved by         *)
(* induction on n.                                                         *)

LEMMA LeastNatural ==
  ASSUME NEW I \in SUBSET Nat, I # {}
  PROVE  \E x \in I : \A y \in I : x <= y
<1>1. PICK x \in I : \A y \in I : ~(<<y, x>> \in OpToRel(<, Nat))
  BY NatLessThanWellFounded, WFMin
<1>2. \A y \in I : ~(y < x)
  BY <1>1 DEF OpToRel
<1> QED
  BY <1>2

\* Induction over a set of naturals.
LEMMA Induction ==
  ASSUME NEW m \in Nat, NEW S, 0 \in S, \A n \in 0 .. (m - 1) : n \in S => n + 1 \in S
  PROVE  \A n \in 0 .. m : n \in S
<1> DEFINE I == {n \in 0 .. m : n \notin S}
<1> SUFFICES ASSUME I # {} PROVE FALSE
  OBVIOUS
<1>1. PICK x \in I : \A y \in I : x <= y
  <2>1. I \in SUBSET Nat
    OBVIOUS
  <2> HIDE DEF I
  <2> QED
    BY <2>1, LeastNatural
<1>2. x # 0 /\ x \in 0 .. m /\ x \notin S
  OBVIOUS
<1>3. x - 1 \in 0 .. (m - 1) /\ x - 1 \notin I /\ x - 1 \in 0 .. m
  BY <1>1, <1>2
<1>4. (x - 1) + 1 \in S
  BY <1>3
<1> QED
  BY <1>2, <1>4

\* Instances all of whose references lead into S.
Deeper(S) == {k \in Old : \A id \in Refs(k) : At(id) \in S}
IsReached(r, m) == r = [n \in 0 .. m |-> IF n = 0 THEN {} ELSE Deeper(r[n - 1])]

\* One more level of the tree of instance l, with f for what is below it.
Leaf(t) == [t EXCEPT !.val = IF t.kind = "ref" THEN 0 ELSE @]
Piece(f, t) == [token |-> Leaf(t), sub |-> IF t.kind = "ref" THEN f[At(t.val)] ELSE <<>>]
Node(f, l) == <<Instances[l].type, [j \in DOMAIN Std(l) |-> Piece(f, Std(l)[j])]>>
IsUnfold(u, m) ==
  u = [n \in 0 .. m |-> [l \in Old |-> IF n = 0 THEN <<>> ELSE Node(u[n - 1], l)]]

LEMMA ReachedExists ==
  ASSUME NEW L \in Nat
  PROVE  \E r : IsReached(r, L)
<1> DEFINE S == {m \in 0 .. L : \E r : IsReached(r, m)}
<1>1. 0 \in S
  <2>1. IsReached([n \in 0 .. 0 |-> {}], 0)
    BY DEF IsReached
  <2> QED
    BY <2>1
<1>2. ASSUME NEW m \in 0 .. (L - 1), m \in S PROVE m + 1 \in S
  <2>1. PICK r : IsReached(r, m)
    BY <1>2
  <2> DEFINE s == [n \in 0 .. (m + 1) |-> IF n = m + 1 THEN Deeper(r[m]) ELSE r[n]]
  <2>2. ASSUME NEW n \in 0 .. (m + 1)
        PROVE  s[n] = IF n = 0 THEN {} ELSE Deeper(s[n - 1])
    <3>1. CASE n = m + 1
      <4>1. s[n] = Deeper(r[m]) /\ s[n - 1] = r[m] /\ n # 0
        BY <3>1
      <4> QED
        BY <4>1
    <3>2. CASE n # m + 1
      <4>1. n \in 0 .. m /\ s[n] = r[n] /\ (n # 0 => s[n - 1] = r[n - 1])
        BY <3>2
      <4>2. r[n] = IF n = 0 THEN {} ELSE Deeper(r[n - 1])
        BY <2>1, <4>1 DEF IsReached
      <4> QED
        BY <4>1, <4>2
    <3> QED
      BY <3>1, <3>2
  <2>3. IsReached(s, m + 1)
    BY <2>2 DEF IsReached
  <2>4. m + 1 \in 0 .. L
    OBVIOUS
  <2> HIDE DEF s
  <2> QED
    BY <2>3, <2>4
<1> HIDE DEF S
<1>3. L \in S
  BY <1>1, <1>2, Induction
<1> QED
  BY <1>3 DEF S

LEMMA UnfoldExists ==
  ASSUME NEW L \in Nat
  PROVE  \E u : IsUnfold(u, L)
<1> DEFINE S == {m \in 0 .. L : \E u : IsUnfold(u, m)}
           Row(u, n) == [l \in Old |-> IF n = 0 THEN <<>> ELSE Node(u[n - 1], l)]
<1>1. 0 \in S
  <2>1. IsUnfold([n \in 0 .. 0 |-> [l \in Old |-> <<>>]], 0)
    BY DEF IsUnfold
  <2> QED
    BY <2>1
<1>2. ASSUME NEW m \in 0 .. (L - 1), m \in S PROVE m + 1 \in S
  <2>1. PICK u : IsUnfold(u, m)
    BY <1>2
  <2> DEFINE s == [n \in 0 .. (m + 1) |-> IF n = m + 1 THEN Row(u, n) ELSE u[n]]
  <2>2. ASSUME NEW n \in 0 .. (m + 1)
        PROVE  s[n] = Row(s, n)
    <3>1. CASE n = m + 1
      <4>1. s[n] = Row(u, n) /\ s[n - 1] = u[n - 1]
        BY <3>1
      <4> QED
        BY <4>1
    <3>2. CASE n # m + 1
      <4>1. n \in 0 .. m /\ s[n] = u[n] /\ (n # 0 => s[n - 1] = u[n - 1])
        BY <3>2
      <4>2. u[n] = Row(u, n)
        BY <2>1, <4>1 DEF IsUnfold
      <4>3. Row(u, n) = Row(s, n)
        BY <4>1
      <4> QED
        BY <4>1, <4>2, <4>3
    <3> QED
      BY <3>1, <3>2
  <2>3. IsUnfold(s, m + 1)
    BY <2>2 DEF IsUnfold
  <2>4. m + 1 \in 0 .. L
    OBVIOUS
  <2> HIDE DEF s
  <2> QED
    BY <2>3, <2>4
<1> HIDE DEF S
<1>3. L \in S
  BY <1>1, <1>2, Induction
<1> QED
  BY <1>3 DEF S

LEMMA ReachedFacts ==
  ASSUME Types
  PROVE  \E r : IsReached(r, Len(Instances)) /\ (Acyclic <=> r[Len(Instances)] = Old)
<1>1. Acyclic <=> (CHOOSE r : IsReached(r, Len(Instances)))[Len(Instances)] = Old
  BY DEF Acyclic, IsReached, Deeper
<1>2. \E r : IsReached(r, Len(Instances))
  BY InstanceFacts, ReachedExists
<1>3. IsReached(CHOOSE r : IsReached(r, Len(Instances)), Len(Instances))
  BY <1>2
<1> QED
  BY <1>1, <1>3

LEMMA UnfoldFacts ==
  ASSUME Types
  PROVE  \E u : IsUnfold(u, Len(Instances)) /\ \A k \in Old : Tree(k) = u[Len(Instances)][k]
<1>1. \A k \in Old : Tree(k) = (CHOOSE u : IsUnfold(u, Len(Instances)))[Len(Instances)][k]
  BY DEF Tree, IsUnfold, Node, Piece, Leaf, Std
<1>2. \E u : IsUnfold(u, Len(Instances))
  BY InstanceFacts, UnfoldExists
<1>3. IsUnfold(CHOOSE u : IsUnfold(u, Len(Instances)), Len(Instances))
  BY <1>2
<1> QED
  BY <1>1, <1>3

LEMMA LeafFacts ==
  ASSUME NEW t \in Tokens, NEW v \in Tokens
  PROVE  Leaf(t) = Leaf(v) <=> /\ t.kind = v.kind /\ t.opens = v.opens /\ t.closes = v.closes
                               /\ t.kind # "ref" => t.val = v.val
<1> DEFINE a == IF t.kind = "ref" THEN 0 ELSE t.val
           b == IF v.kind = "ref" THEN 0 ELSE v.val
<1>1. /\ Leaf(t) = [kind |-> t.kind, val |-> a, opens |-> t.opens, closes |-> t.closes]
      /\ Leaf(v) = [kind |-> v.kind, val |-> b, opens |-> v.opens, closes |-> v.closes]
  BY DEF Leaf, Tokens
<1>2. t.kind = v.kind => (a = b <=> (t.kind # "ref" => t.val = v.val))
  OBVIOUS
<1> HIDE DEF a, b
<1> QED
  BY <1>1, <1>2

LEMMA PieceFacts ==
  ASSUME NEW f, NEW t, NEW v
  PROVE  Piece(f, t) = Piece(f, v) <=>
           /\ Leaf(t) = Leaf(v)
           /\ (IF t.kind = "ref" THEN f[At(t.val)] ELSE <<>>)
                = (IF v.kind = "ref" THEN f[At(v.val)] ELSE <<>>)
BY DEF Piece

\* Two instances have one level of their trees in common if their types and
\* pieces are the same, up to what is below.
LEMMA NodeFacts ==
  ASSUME NEW f, NEW k \in Old, NEW l \in Old
  PROVE  Node(f, k) = Node(f, l) <=>
           /\ Instances[k].type = Instances[l].type /\ DOMAIN Std(k) = DOMAIN Std(l)
           /\ \A j \in DOMAIN Std(k) : Piece(f, Std(k)[j]) = Piece(f, Std(l)[j])
<1> DEFINE F(m) == [j \in DOMAIN Std(m) |-> Piece(f, Std(m)[j])]
<1>1. Node(f, k) = Node(f, l) <=> Instances[k].type = Instances[l].type /\ F(k) = F(l)
  BY DEF Node
<1>2. ASSUME F(k) = F(l)
      PROVE  /\ DOMAIN Std(k) = DOMAIN Std(l)
             /\ \A j \in DOMAIN Std(k) : Piece(f, Std(k)[j]) = Piece(f, Std(l)[j])
  <2>1. DOMAIN F(k) = DOMAIN F(l)
    BY <1>2
  <2>2. \A j \in DOMAIN Std(k) : F(k)[j] = Piece(f, Std(k)[j])
    OBVIOUS
  <2>3. \A j \in DOMAIN Std(l) : F(l)[j] = Piece(f, Std(l)[j])
    OBVIOUS
  <2>4. DOMAIN F(k) = DOMAIN Std(k) /\ DOMAIN F(l) = DOMAIN Std(l)
    OBVIOUS
  <2> HIDE DEF F
  <2> QED
    BY <1>2, <2>1, <2>2, <2>3, <2>4
<1>3. ASSUME DOMAIN Std(k) = DOMAIN Std(l),
             \A j \in DOMAIN Std(k) : Piece(f, Std(k)[j]) = Piece(f, Std(l)[j])
      PROVE  F(k) = F(l)
  BY <1>3
<1> HIDE DEF F
<1> QED
  BY <1>1, <1>2, <1>3

\* In a flat file two instances have the same new content if their pieces are
\* the same up to the numbers of what they refer to.
LEMMA RenumberEqual ==
  ASSUME Types, Flat, NEW k \in Old, NEW l \in Old,
         Cites(Std(k)) \subseteq DOMAIN id_baseID, Cites(Std(l)) \subseteq DOMAIN id_baseID
  PROVE  Target(k) = Target(l) <=>
           /\ Instances[k].type = Instances[l].type /\ DOMAIN Std(k) = DOMAIN Std(l)
           /\ \A j \in DOMAIN Std(k) :
                /\ Leaf(Std(k)[j]) = Leaf(Std(l)[j])
                /\ Std(k)[j].kind = "ref" => id_baseID[Std(k)[j].val] = id_baseID[Std(l)[j].val]
<1> DEFINE G(m) == Renumber(Std(m), id_baseID)
           g(t) == IF t.kind = "ref" THEN [t EXCEPT !.val = id_baseID[t.val]] ELSE t
<1>1. ASSUME NEW m \in Old, Cites(Std(m)) \subseteq DOMAIN id_baseID, NEW j \in DOMAIN Std(m)
      PROVE  G(m)[j] = g(Std(m)[j])
  <2>1. /\ Std(m)[j] \in Tokens
        /\ IsCite(Std(m)[j]) <=> Std(m)[j].kind = "ref"
        /\ Std(m)[j].kind = "ref" => Std(m)[j].closes <= 1 /\ Std(m)[j].val \in Cites(Std(m))
    BY <1>1, FlatFacts
  <2>2. CASE Std(m)[j].kind = "ref"
    <3>1. id_baseID[Std(m)[j].val] \in Int
      BY <1>1, <2>1, <2>2 DEF Types
    <3>2. G(m)[j] = Reprint(Std(m)[j], id_baseID[Std(m)[j].val])
      BY <2>1, <2>2 DEF Renumber
    <3> QED
      BY <2>1, <2>2, <3>1, <3>2, FlatToken
  <2>3. CASE Std(m)[j].kind # "ref"
    BY <2>1, <2>3 DEF Renumber
  <2> QED
    BY <2>2, <2>3
<1>2. \A m \in Old : DOMAIN G(m) = DOMAIN Std(m) /\ G(m) = [j \in DOMAIN Std(m) |-> G(m)[j]]
  BY DEF Renumber
<1>3. ASSUME NEW t \in Tokens, NEW v \in Tokens
      PROVE  g(t) = g(v) <=> /\ Leaf(t) = Leaf(v)
                             /\ t.kind = "ref" => id_baseID[t.val] = id_baseID[v.val]
  <2>1. /\ g(t).kind = t.kind /\ g(t).opens = t.opens /\ g(t).closes = t.closes
        /\ g(t).val = IF t.kind = "ref" THEN id_baseID[t.val] ELSE t.val
        /\ g(t) = [kind |-> t.kind, val |-> g(t).val, opens |-> t.opens, closes |-> t.closes]
    BY DEF Tokens
  <2>2. /\ g(v).kind = v.kind /\ g(v).opens = v.opens /\ g(v).closes = v.closes
        /\ g(v).val = IF v.kind = "ref" THEN id_baseID[v.val] ELSE v.val
        /\ g(v) = [kind |-> v.kind, val |-> g(v).val, opens |-> v.opens, closes |-> v.closes]
    BY DEF Tokens
  <2> HIDE DEF g
  <2>3. g(t) = g(v) <=> /\ t.kind = v.kind /\ t.opens = v.opens /\ t.closes = v.closes
                        /\ g(t).val = g(v).val
    BY <2>1, <2>2
  <2> QED
    BY <2>1, <2>2, <2>3, LeafFacts
<1>4. Target(k) = Target(l) <=> Instances[k].type = Instances[l].type /\ G(k) = G(l)
  BY DEF Target
<1>5. \A j \in DOMAIN Std(k) : Std(k)[j] \in Tokens
  BY FlatFacts
<1>6. \A j \in DOMAIN Std(l) : Std(l)[j] \in Tokens
  BY FlatFacts
<1>7. \A j \in DOMAIN Std(k) : G(k)[j] = g(Std(k)[j])
  BY <1>1
<1>8. \A j \in DOMAIN Std(l) : G(l)[j] = g(Std(l)[j])
  BY <1>1
<1> HIDE DEF g, G
<1>9. G(k) = G(l) <=> /\ DOMAIN Std(k) = DOMAIN Std(l)
                      /\ \A j \in DOMAIN Std(k) : G(k)[j] = G(l)[j]
  BY <1>2
<1>10. ASSUME DOMAIN Std(k) = DOMAIN Std(l), NEW j \in DOMAIN Std(k)
       PROVE  G(k)[j] = G(l)[j] <=>
                /\ Leaf(Std(k)[j]) = Leaf(Std(l)[j])
                /\ Std(k)[j].kind = "ref" => id_baseID[Std(k)[j].val] = id_baseID[Std(l)[j].val]
  BY <1>3, <1>5, <1>6, <1>7, <1>8, <1>10
<1> QED
  BY <1>4, <1>9, <1>10

\* A reference leads to the one instance that has the identifier.
LEMMA AtFacts ==
  ASSUME Closed, NEW k \in Old, NEW id \in Refs(k)
  PROVE  At(id) \in Old /\ Instances[At(id)].id = id
<1>1. \E l \in Old : Instances[l].id = id
  BY DEF Closed
<1> QED
  BY <1>1 DEF At

\* Equal numbers stand for equal contents, and the other way round.
LEMMA NumberTarget ==
  ASSUME Inv, pc = "done", Closed, NEW k \in Old, NEW l \in Old
  PROVE  Number(k) = Number(l) <=> Target(k) = Target(l)
<1>1. /\ Target(k) \in DOMAIN type_content /\ type_content[Target(k)] = Number(k)
      /\ Key(output[Number(k)]) = Target(k)
  BY DoneFacts
<1>2. /\ Target(l) \in DOMAIN type_content /\ type_content[Target(l)] = Number(l)
      /\ Key(output[Number(l)]) = Target(l)
  BY DoneFacts
<1> QED
  BY <1>1, <1>2

\* Instances with one number have the same tree, to any depth.
LEMMA SameNumberSameTree ==
  ASSUME Inv, Flat, pc = "done", Closed, NEW u, IsUnfold(u, Len(Instances)),
         NEW n \in 0 .. (Len(Instances) - 1),
         \A k, l \in Old : Number(k) = Number(l) => u[n][k] = u[n][l]
  PROVE  \A k, l \in Old : Number(k) = Number(l) => u[n + 1][k] = u[n + 1][l]
<1>1. Types /\ Len(Instances) \in Nat
  BY InstanceFacts DEF Inv
<1>2. \A k \in Old : u[n + 1][k] = Node(u[n], k)
  <2>1. n + 1 \in 0 .. Len(Instances) /\ n + 1 # 0 /\ (n + 1) - 1 = n
    BY <1>1
  <2>2. u[n + 1] = [l \in Old |-> IF n + 1 = 0 THEN <<>> ELSE Node(u[(n + 1) - 1], l)]
    BY <2>1 DEF IsUnfold
  <2> QED
    BY <2>1, <2>2
<1>3. ASSUME NEW k \in Old, NEW l \in Old, Number(k) = Number(l)
      PROVE  Node(u[n], k) = Node(u[n], l)
  <2>1. /\ Target(k) = Target(l)
        /\ Cites(Std(k)) \subseteq DOMAIN id_baseID /\ Cites(Std(l)) \subseteq DOMAIN id_baseID
    BY <1>3, NumberTarget, DoneFacts
  <2>2. /\ Instances[k].type = Instances[l].type /\ DOMAIN Std(k) = DOMAIN Std(l)
        /\ \A j \in DOMAIN Std(k) :
             /\ Leaf(Std(k)[j]) = Leaf(Std(l)[j])
             /\ Std(k)[j].kind = "ref" => id_baseID[Std(k)[j].val] = id_baseID[Std(l)[j].val]
    BY <1>1, <2>1, RenumberEqual
  <2>3. ASSUME NEW j \in DOMAIN Std(k)
        PROVE  Piece(u[n], Std(k)[j]) = Piece(u[n], Std(l)[j])
    <3>1. /\ Std(k)[j] \in Tokens /\ Std(l)[j] \in Tokens
          /\ Std(k)[j].kind = "ref" => Std(k)[j].val \in Refs(k)
          /\ Std(l)[j].kind = "ref" => Std(l)[j].val \in Refs(l)
      BY <1>1, <2>2, FlatFacts
    <3>2. Std(k)[j].kind = Std(l)[j].kind
      BY <2>2, <3>1, LeafFacts
    <3>3. CASE Std(k)[j].kind = "ref"
      <4>1. /\ At(Std(k)[j].val) \in Old /\ Instances[At(Std(k)[j].val)].id = Std(k)[j].val
            /\ At(Std(l)[j].val) \in Old /\ Instances[At(Std(l)[j].val)].id = Std(l)[j].val
        BY <3>1, <3>2, <3>3, AtFacts
      <4>2. Number(At(Std(k)[j].val)) = Number(At(Std(l)[j].val))
        BY <2>2, <3>3, <4>1 DEF Number
      <4>3. u[n][At(Std(k)[j].val)] = u[n][At(Std(l)[j].val)]
        BY <4>1, <4>2
      <4>4. (IF Std(k)[j].kind = "ref" THEN u[n][At(Std(k)[j].val)] ELSE <<>>)
              = (IF Std(l)[j].kind = "ref" THEN u[n][At(Std(l)[j].val)] ELSE <<>>)
        BY <3>2, <3>3, <4>3
      <4>5. Leaf(Std(k)[j]) = Leaf(Std(l)[j])
        BY <2>2
      <4> QED
        BY <4>4, <4>5, PieceFacts
    <3>4. CASE Std(k)[j].kind # "ref"
      BY <2>2, <3>2, <3>4, PieceFacts
    <3> QED
      BY <3>3, <3>4
  <2> QED
    BY <2>2, <2>3, NodeFacts
<1> QED
  BY <1>2, <1>3

\* An instance of depth n has the number of any instance that has its tree.
LEMMA SameTreeSameNumber ==
  ASSUME Inv, Flat, pc = "done", Closed, NEW u, IsUnfold(u, Len(Instances)),
         NEW r, IsReached(r, Len(Instances)),
         NEW n \in 0 .. (Len(Instances) - 1),
         \A k \in r[n] : \A l \in Old : u[n][k] = u[n][l] => Number(k) = Number(l)
  PROVE  \A k \in r[n + 1] : \A l \in Old : u[n + 1][k] = u[n + 1][l] => Number(k) = Number(l)
<1>1. Types /\ Len(Instances) \in Nat
  BY InstanceFacts DEF Inv
<1>2. n + 1 \in 0 .. Len(Instances) /\ n + 1 # 0 /\ (n + 1) - 1 = n
  BY <1>1
<1>3. \A k \in Old : u[n + 1][k] = Node(u[n], k)
  <2>1. u[n + 1] = [l \in Old |-> IF n + 1 = 0 THEN <<>> ELSE Node(u[(n + 1) - 1], l)]
    BY <1>2 DEF IsUnfold
  <2> QED
    BY <1>2, <2>1
<1>4. r[n + 1] = Deeper(r[n])
  <2>1. r[n + 1] = IF n + 1 = 0 THEN {} ELSE Deeper(r[(n + 1) - 1])
    BY <1>2 DEF IsReached
  <2> QED
    BY <1>2, <2>1
<1>5. ASSUME NEW k \in Old, \A id \in Refs(k) : At(id) \in r[n],
             NEW l \in Old, Node(u[n], k) = Node(u[n], l)
      PROVE  Number(k) = Number(l)
  <2>1. /\ Instances[k].type = Instances[l].type /\ DOMAIN Std(k) = DOMAIN Std(l)
        /\ \A j \in DOMAIN Std(k) : Piece(u[n], Std(k)[j]) = Piece(u[n], Std(l)[j])
    BY <1>5, NodeFacts
  <2>2. ASSUME NEW j \in DOMAIN Std(k)
        PROVE  /\ Leaf(Std(k)[j]) = Leaf(Std(l)[j])
               /\ Std(k)[j].kind = "ref" => id_baseID[Std(k)[j].val] = id_baseID[Std(l)[j].val]
    <3>1. /\ Std(k)[j] \in Tokens /\ Std(l)[j] \in Tokens
          /\ Std(k)[j].kind = "ref" => Std(k)[j].val \in Refs(k)
          /\ Std(l)[j].kind = "ref" => Std(l)[j].val \in Refs(l)
      BY <1>1, <2>1, FlatFacts
    <3>2. /\ Leaf(Std(k)[j]) = Leaf(Std(l)[j])
          /\ (IF Std(k)[j].kind = "ref" THEN u[n][At(Std(k)[j].val)] ELSE <<>>)
               = (IF Std(l)[j].kind = "ref" THEN u[n][At(Std(l)[j].val)] ELSE <<>>)
      BY <2>1, PieceFacts
    <3>3. Std(k)[j].kind = Std(l)[j].kind
      BY <3>1, <3>2, LeafFacts
    <3>4. ASSUME Std(k)[j].kind = "ref"
          PROVE  id_baseID[Std(k)[j].val] = id_baseID[Std(l)[j].val]
      <4>1. /\ At(Std(k)[j].val) \in Old /\ Instances[At(Std(k)[j].val)].id = Std(k)[j].val
            /\ At(Std(l)[j].val) \in Old /\ Instances[At(Std(l)[j].val)].id = Std(l)[j].val
        BY <3>1, <3>3, <3>4, AtFacts
      <4>2. At(Std(k)[j].val) \in r[n]
        BY <1>5, <3>1, <3>4
      <4>3. u[n][At(Std(k)[j].val)] = u[n][At(Std(l)[j].val)]
        BY <3>2, <3>3, <3>4
      <4>4. Number(At(Std(k)[j].val)) = Number(At(Std(l)[j].val))
        BY <4>1, <4>2, <4>3
      <4> QED
        BY <4>1, <4>4 DEF Number
    <3> QED
      BY <3>2, <3>4
  <2>3. Cites(Std(k)) \subseteq DOMAIN id_baseID /\ Cites(Std(l)) \subseteq DOMAIN id_baseID
    BY DoneFacts
  <2>4. Target(k) = Target(l)
    BY <1>1, <2>1, <2>2, <2>3, RenumberEqual
  <2> QED
    BY <2>4, NumberTarget
<1> QED
  BY <1>3, <1>4, <1>5 DEF Deeper

\* Merging is exact (ifccompressor_impl.cpp 75-217): two instances of a well-formed
\* flat file get one representative if and only if they unfold to the same tree.
THEOREM FlatFilesMergedExactly == Spec => [](Flat => MergesExactlyEqual)
<1>1. ASSUME Inv, Flat, pc = "done", WellFormed
      PROVE  \A k, l \in Old : Number(k) = Number(l) <=> Tree(k) = Tree(l)
  <2> DEFINE L == Len(Instances)
  <2>1. Types /\ Closed /\ Acyclic /\ L \in Nat
    BY <1>1, InstanceFacts DEF Inv, WellFormed
  <2>2. PICK u : IsUnfold(u, L) /\ \A k \in Old : Tree(k) = u[L][k]
    BY <2>1, UnfoldFacts
  <2>3. PICK r : IsReached(r, L) /\ r[L] = Old
    BY <2>1, ReachedFacts
  <2> DEFINE S == {n \in 0 .. L : \A k, l \in Old : Number(k) = Number(l) => u[n][k] = u[n][l]}
             T == {n \in 0 .. L :
                     \A k \in r[n] : \A l \in Old : u[n][k] = u[n][l] => Number(k) = Number(l)}
  <2>4. 0 \in S
    <3>1. u[0] = [l \in Old |-> IF 0 = 0 THEN <<>> ELSE Node(u[0 - 1], l)]
      BY <2>1, <2>2 DEF IsUnfold
    <3> QED
      BY <2>1, <3>1
  <2>5. 0 \in T
    <3>1. r[0] = {}
      BY <2>1, <2>3 DEF IsReached
    <3> QED
      BY <2>1, <3>1
  <2>6. ASSUME NEW n \in 0 .. (L - 1), n \in S PROVE n + 1 \in S
    <3>1. n + 1 \in 0 .. L
      BY <2>1
    <3>2. \A k, l \in Old : Number(k) = Number(l) => u[n + 1][k] = u[n + 1][l]
      BY <1>1, <2>1, <2>2, <2>6, SameNumberSameTree
    <3> QED
      BY <3>1, <3>2
  <2>7. ASSUME NEW n \in 0 .. (L - 1), n \in T PROVE n + 1 \in T
    <3>1. n + 1 \in 0 .. L
      BY <2>1
    <3>2. \A k \in r[n + 1] : \A l \in Old : u[n + 1][k] = u[n + 1][l] => Number(k) = Number(l)
      BY <1>1, <2>1, <2>2, <2>3, <2>7, SameTreeSameNumber
    <3> QED
      BY <3>1, <3>2
  <2>8. L \in 0 .. L
    BY <2>1
  <2> HIDE DEF S, T
  <2>9. L \in S /\ L \in T
    BY <2>1, <2>4, <2>5, <2>6, <2>7, <2>8, Induction
  <2> QED
    BY <2>2, <2>3, <2>9 DEF S, T
<1>2. Inv => (Flat => MergesExactlyEqual)
  BY <1>1 DEF MergesExactlyEqual, Number
<1> QED
  BY <1>2, CompressorInvariant, PTL

=============================================================================
