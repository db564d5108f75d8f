--------------------------- MODULE IfcCompressor ----------------------------
(***************************************************************************)
(* IfcCompressorImpl::compress() (ifccompressor_impl.cpp): instances of an *)
(* IFC file that have the same type and, up to the instances they refer    *)
(* to, the same content are merged, and the rest is renumbered.            *)
(*                                                                         *)
(* An instance is [id, type, content]; its content is the sequence of the  *)
(* pieces between commas, each a token [kind, val, opens, closes]: a       *)
(* reference "#val", a number (val tenths) or a text, after `opens' left   *)
(* and before `closes' right brackets.                                     *)
(***************************************************************************)
EXTENDS Integers, Sequences, FiniteSets, Functions

CONSTANTS
  Inputs,     \* files: [instances : Seq(instance), ended : BOOLEAN]
  Requests    \* the caller's IfcCompressorArg::fpr

Tokens == [kind : {"ref", "num", "text"}, val : Int, opens : Nat, closes : Nat]

ASSUME CompressorAssumption ==
  /\ Requests \subseteq BOOLEAN
  /\ \A f \in Inputs :
       f.instances \in Seq([id : Int, type : STRING, content : Seq(Tokens)])

VARIABLES
  file, pc, i,
  fpr,            \* what the caller asked for
  FPR, MAX_PRECISION,
  newInc, deleteCount, totalCount,
  id_baseID,      \* old id -> new id
  type_content,   \* <<type, content>> -> new id
  instance,       \* umSet.instance: [id, type, content, flag]
  unmatched,      \* umSet.flag
  index,          \* mSet.index
  output          \* the instances written

vars == <<file, pc, i, fpr, FPR, MAX_PRECISION, newInc, deleteCount, totalCount,
          id_baseID, type_content, instance, unmatched, index, output>>
settings == <<file, fpr, FPR, MAX_PRECISION>>
matches == <<newInc, deleteCount, id_baseID, type_content>>

Point == "IFCCARTESIANPOINT"
Empty == [x \in {} |-> x]
Put(f, x, y) == [z \in DOMAIN f \cup {x} |-> IF z = x THEN y ELSE f[z]]
Insert(f, x, y) == IF x \in DOMAIN f THEN f ELSE Put(f, x, y)   \* std::map::insert

Init ==
  /\ file \in Inputs /\ fpr \in Requests
  /\ pc = "call" /\ i = 1
  /\ FPR = FALSE /\ MAX_PRECISION = 2
  /\ newInc = 0 /\ deleteCount = 0 /\ totalCount = 0
  /\ id_baseID = Empty /\ type_content = Empty
  /\ instance = <<>> /\ unmatched = <<>> /\ index = <<>> /\ output = <<>>

-----------------------------------------------------------------------------
(* Content                                                                 *)

\* Only one bracket is stripped before a piece is looked at.
IsCite(t) == t.kind = "ref" /\ t.opens <= 1
Cites(content) == {content[k].val : k \in {j \in DOMAIN content : IsCite(content[j])}}

\* Fixed notation with p decimals (tenths; ties do not occur).
RoundTo(n, p) == IF p >= 1 THEN n ELSE 10 * ((n + 5) \div 10)

\* What strtod() reads to the end of the piece: no bracket is left before the
\* number, and none behind it, or one if a bracket was stripped before it.
IsNumber(t) == t.kind = "num" /\ t.opens <= 1 /\ t.closes <= t.opens + 1

\* A piece printed anew has at most one bracket behind it.
OneBracket(closes) == IF closes > 1 THEN 1 ELSE closes
Reprint(t, v) ==
  [kind |-> t.kind, val |-> v, opens |-> t.opens, closes |-> OneBracket(t.closes)]

\* StandardContent(type, content, cite, FPR)
Standard(type, content) ==
  [k \in DOMAIN content |->
     IF IsNumber(content[k]) /\ type = Point /\ FPR
       THEN Reprint(content[k], RoundTo(content[k].val, MAX_PRECISION))
       ELSE content[k]]

\* Variant: references keep their old numbers.
Renumber_plain(content, rel) == content

\* StandardContent(content, rel): a reference that is found is printed anew.
Renumber(content, rel) ==
  [k \in DOMAIN content |->
     IF IsCite(content[k]) THEN Reprint(content[k], rel[content[k].val]) ELSE content[k]]

AllFind(content) == Cites(content) \subseteq DOMAIN id_baseID

\* A content is rewritten as a whole or not at all.
Rewrite(x) ==
  IF AllFind(x.content)
    THEN [x EXCEPT !.content = Renumber(@, id_baseID), !.flag = TRUE]
    ELSE [x EXCEPT !.flag = FALSE]

-----------------------------------------------------------------------------
\* compress(): fpr is passed as the precision, and TRUE as fpr.
Compress ==
  /\ pc = "call"
  /\ FPR' = TRUE /\ MAX_PRECISION' = IF fpr THEN 1 ELSE 0
  /\ pc' = "read"
  /\ UNCHANGED <<file, fpr, i, matches, totalCount, instance, unmatched, index, output>>

\* Look the instance up; a new one gets the next number.
Known(x) == <<x.type, x.content>> \in DOMAIN type_content
Match(x) ==
  IF Known(x)
    THEN /\ deleteCount' = deleteCount + 1
         /\ id_baseID' = Insert(id_baseID, x.id, type_content[<<x.type, x.content>>])
         /\ UNCHANGED <<newInc, type_content>>
    ELSE /\ newInc' = newInc + 1
         /\ type_content' = Put(type_content, <<x.type, x.content>>, newInc + 1)
         /\ id_baseID' = Insert(id_baseID, x.id, newInc + 1)
         /\ UNCHANGED deleteCount

\* Step 1: an instance without references is matched at once, any other kept.
read_instance(x) ==
  /\ pc = "read" /\ i <= Len(file.instances)
  /\ i' = i + 1
  /\ IF Cites(x.content) = {}
       THEN /\ Match(x)
            /\ IF Known(x)
                 THEN UNCHANGED <<instance, unmatched, index, totalCount>>
                 ELSE /\ index' = Append(index, Len(instance) + 1)
                      /\ instance' = Append(instance, [x EXCEPT !.id = newInc + 1])
                      /\ unmatched' = Append(unmatched, FALSE)
                      /\ totalCount' = totalCount - 1
       ELSE /\ instance' = Append(instance, x)
            /\ unmatched' = Append(unmatched, TRUE)
            /\ UNCHANGED <<matches, index, totalCount>>
  /\ UNCHANGED <<settings, pc, output>>

\* IfcInstanceAna(): the instance on the line, with its content standardised.
Parsed(x, content) ==
  [id |-> x.id, type |-> x.type, content |-> content, flag |-> Cites(content) = {}]

ReadInstance ==
  LET x == file.instances[i]
  IN  read_instance(Parsed(x, Standard(x.type, x.content)))

\* "ENDSEC;".  Without it the loop never ends.
EndSection ==
  /\ pc = "read" /\ i > Len(file.instances)
  /\ file.ended
  /\ totalCount' = totalCount + Len(instance)
  /\ instance' = [k \in DOMAIN instance |-> Rewrite(instance[k])]
  /\ i' = 1 /\ pc' = "merge"
  /\ UNCHANGED <<settings, matches, unmatched, index, output>>

\* Step 2: one instance of a pass.  The counter is tested before a pass only.
merge_instance(count) ==
  /\ pc = "merge" /\ i <= Len(instance) /\ (i = 1 => totalCount # 0)
  /\ i' = i + 1
  /\ IF unmatched[i] /\ instance[i].flag
       THEN /\ Match(instance[i])
            /\ IF Known(instance[i])
                 THEN UNCHANGED <<instance, index>>
                 ELSE /\ index' = Append(index, i)
                      /\ instance' = [instance EXCEPT ![i].id = newInc + 1]
            /\ totalCount' = count
            /\ unmatched' = [unmatched EXCEPT ![i] = FALSE]
       ELSE UNCHANGED <<matches, instance, index, totalCount, unmatched>>
  /\ UNCHANGED <<settings, pc, output>>

\* Variant: only an instance that is kept is counted off.
MergeInstance_counts_new ==
  merge_instance(IF Known(instance[i]) THEN totalCount ELSE totalCount - 1)

\* Every instance matched is counted off, kept or not.
MergeInstance == merge_instance(totalCount - 1)

end_pass(again) ==
  /\ pc = "merge" /\ i > Len(instance) /\ i > 1
  /\ instance' = [k \in DOMAIN instance |->
                    IF k \in again THEN Rewrite(instance[k]) ELSE instance[k]]
  /\ i' = 1
  /\ UNCHANGED <<settings, pc, matches, totalCount, unmatched, index, output>>

\* Variant: instances that have been matched are rewritten again.
EndPass_all == end_pass(DOMAIN instance)

\* What is still unmatched is tried again with the numbers found by now.
EndPass == end_pass({k \in DOMAIN instance : unmatched[k]})

Waiting == {k \in DOMAIN unmatched : unmatched[k]}

InOrder(S) ==
  CHOOSE s \in [1 .. Cardinality(S) -> S] : \A a, b \in DOMAIN s : a < b => s[a] < s[b]

\* The matched instances in the order they were found, then what is left.
WriteFile ==
  /\ pc = "merge" /\ i = 1 /\ totalCount = 0
  /\ LET numbers == index \o InOrder(Waiting)
     IN  output' = [k \in DOMAIN numbers |-> instance[numbers[k]]]
  /\ pc' = "done"
  /\ UNCHANGED <<settings, i, matches, totalCount, instance, unmatched, index>>

-----------------------------------------------------------------------------
Next == Compress \/ ReadInstance \/ EndSection \/ MergeInstance \/ EndPass \/ WriteFile

Spec == Init /\ [][Next]_vars
FairSpec == Spec /\ WF_vars(Next)

-----------------------------------------------------------------------------
(* The reference: a file is a labelled graph, and two instances are equal  *)
(* if they unfold to the same tree.                                        *)

Instances == file.instances
Old == DOMAIN Instances
At(id) == CHOOSE k \in Old : Instances[k].id = id
Refs(k) ==
  {Instances[k].content[j].val : j \in {n \in DOMAIN Instances[k].content :
                                          Instances[k].content[n].kind = "ref"}}
\* Identifiers are unique and references lead to instances, in no cycle.
Closed ==
  /\ \A k, l \in Old : Instances[k].id = Instances[l].id => k = l
  /\ \A k \in Old : \A id \in Refs(k) : \E l \in Old : Instances[l].id = id
Acyclic ==
  LET reached[n \in 0 .. Len(Instances)] ==   \* instances whose trees have depth <= n
        IF n = 0 THEN {}
        ELSE {k \in Old : \A id \in Refs(k) : At(id) \in reached[n - 1]}
  IN  reached[Len(Instances)] = Old
WellFormed == file.ended /\ Closed /\ Acyclic

Tree(k) ==
  LET unfold[n \in 0 .. Len(Instances)] ==
        [l \in Old |->
           IF n = 0 THEN <<>>
           ELSE LET content == Standard(Instances[l].type, Instances[l].content)
                IN  <<Instances[l].type,
                      [j \in DOMAIN content |->
                         [token |-> [content[j] EXCEPT !.val = IF content[j].kind = "ref"
                                                               THEN 0 ELSE @],
                          sub |-> IF content[j].kind = "ref"
                                    THEN unfold[n - 1][At(content[j].val)] ELSE <<>>]]>>]
  IN  unfold[Len(Instances)][k]

-----------------------------------------------------------------------------
(* Counters and maps of a run stay in step: numbers are given out without  *)
(* a gap, instances wait or are written, and the counter of the loop is    *)
(* the number of those that wait.                                          *)
TypeOK ==
  /\ newInc \in Nat /\ deleteCount \in Nat /\ totalCount \in Int
  /\ Len(instance) = Len(unmatched)
  /\ Len(index) = newInc
  /\ Range(type_content) = 1 .. newInc
  /\ pc = "merge" => totalCount = Cardinality(Waiting)

(* The compressed file says what the original said: every instance has a   *)
(* representative of its type, whose content is its own (standardised)     *)
(* with each reference led to that one's representative.                   *)
Faithful ==
  pc = "done" /\ WellFormed =>
    \A k \in Old :
      LET x == Instances[k]
          y == output[id_baseID[x.id]]
          content == Standard(x.type, x.content)
      IN  /\ y.id = id_baseID[x.id] /\ y.type = x.type
          /\ y.content = [j \in DOMAIN content |->
                            IF content[j].kind = "ref"
                              THEN [content[j] EXCEPT !.val = id_baseID[@]]
                              ELSE content[j]]

(* Merging is exact: two instances get one representative if and only if   *)
(* they unfold to the same tree, however deep and in whatever order.       *)
MergesExactlyEqual ==
  pc = "done" /\ WellFormed =>
    \A k, l \in Old :
      id_baseID[Instances[k].id] = id_baseID[Instances[l].id] <=> Tree(k) = Tree(l)

(* compress() ends on every well-formed file.                              *)
Terminates == (pc = "call" /\ WellFormed) ~> (pc = "done")

(* Nothing is lost when the caller asks for no rounding: the compressed    *)
(* file matches the original in both directions.                           *)
Lossless ==
  pc = "done" /\ WellFormed /\ ~fpr =>
    \A k \in Old : \A j \in DOMAIN Instances[k].content :
      Instances[k].content[j].kind = "num" =>
        output[id_baseID[Instances[k].id]].content[j] = Instances[k].content[j]

=============================================================================
