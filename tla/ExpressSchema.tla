---------------------------- MODULE ExpressSchema ----------------------------
(***************************************************************************)
(* From an EXPRESS file to SQL (express_parser.cpp, express_defs.c,        *)
(* express_parser_cli.cpp): a scan that declares names, a grammar-driven   *)
(* pass that fills the declarations in, and the generator that orders the  *)
(* entities with TopoGraph and writes a table for each.                    *)
(*                                                                         *)
(* A file is a sequence of items.  The scan and the grammar read the text  *)
(* differently: scan is the name the scan declares at the item (None when  *)
(* the keyword is not in capitals), lex says whether the grammar sees it   *)
(* (it skips comments and bodies), name is what the grammar reads.         *)
(*   type   : base, refs (names), list                                     *)
(*   entity : subs (names), super (a name or None), attrs                  *)
(*   error  : the grammar stops here (lex); the text ends in a keyword (~lex) *)
(* An attribute is [base, ref, list]; ref is a name or None.               *)
(* Descriptors are numbered from 1; 0 is the null pointer (entity id -1).  *)
(***************************************************************************)
EXTENDS TopoGraph, SequencesExt

CONSTANTS Files, None

\* Every descriptor has a node, None is not a name and is_list is a Boolean.
ASSUME FilesAssumption ==
  \A f \in Files :
    /\ f \in Seq(Elements(f)) /\ 0 .. Len(f) \subseteq Nodes
    /\ \A d \in Elements(f) : d.kind # "error" => d.name # None
    /\ \A d \in Elements(f) : d.kind = "type" => d.list \in BOOLEAN
    /\ \A d \in Elements(f) : d.kind = "entity" =>
         /\ d.subs \in Seq(Elements(d.subs)) /\ d.attrs \in Seq(Elements(d.attrs))
         /\ \A a \in Elements(d.attrs) : a.list \in BOOLEAN

VARIABLES
  file,     \* the text
  pc,       \* what main() is doing
  pos, sub, \* loop counters
  types,    \* schema->types
  entities, \* schema->entities
  tables    \* the CREATE TABLE statements generated so far

fileVars == <<file, pc, pos, sub, types, entities, tables>>
vars == <<fileVars, graphVars>>

Final == {"written", "shown", "exited", "crashed", "bare_name", "no_type"}

TypeOK ==
  /\ GraphTypeOK
  /\ pc \in {"preprocess", "parse", "ready", "graph", "sort", "emit", "climb", "print"} \cup Final
  /\ pos \in Nat /\ sub \in Nat
  /\ \A t \in Elements(types) : t.ref \in 0 .. Len(types) /\ t.list \in BOOLEAN
                                  /\ Elements(t.select) \subseteq 0 .. Len(types)
  /\ \A e \in Elements(entities) :
       /\ Elements(e.subs) \cup {e.super} \subseteq 0 .. Len(entities)
       /\ \A a \in Elements(e.attrs) : /\ a.type \in 0 .. Len(types)
                                    /\ a.entity \in 0 .. Len(entities)
  /\ \A t \in Elements(tables) : t.id \in 1 .. Len(entities)

Init ==
  /\ file \in Files /\ pc = "preprocess" /\ pos = 1 /\ sub = 1
  /\ types = <<>> /\ entities = <<>> /\ tables = <<>>
  /\ GraphInit /\ node = 0

More == pos <= Len(file)
Item == file[pos]
Goto(l) == pc' = l /\ pos' = 1 /\ sub' = 1

-----------------------------------------------------------------------------
(* preprocess() *)

new_type(n) == [name |-> n, base |-> "UNKNOWN", ref |-> 0, list |-> FALSE, select |-> <<>>]

\* set is FALSE as long as subtype_num and attr_num have no value.
new_entity(n) == [name |-> n, set |-> FALSE, subs |-> <<>>, super |-> 0, attrs |-> <<>>]

scan_item ==
  /\ pc = "preprocess" /\ More /\ Item.kind # "error"
  /\ types' = IF Item.kind = "type" /\ Item.scan # None
              THEN Append(types, new_type(Item.scan)) ELSE types
  /\ entities' = IF Item.kind = "entity" /\ Item.scan # None
                 THEN Append(entities, new_entity(Item.scan)) ELSE entities
  /\ pos' = pos + 1
  /\ UNCHANGED <<file, pc, sub, tables, graphVars>>

scan_error ==
  /\ pc = "preprocess" /\ More /\ Item.kind = "error"
  /\ IF Item.lex THEN pos' = pos + 1 /\ UNCHANGED <<pc, sub>> ELSE Goto("exited")
  /\ UNCHANGED <<file, types, entities, tables, graphVars>>

end_scan ==
  /\ pc = "preprocess" /\ ~More
  /\ Goto("parse")
  /\ UNCHANGED <<file, types, entities, tables, graphVars>>

-----------------------------------------------------------------------------
(* express_parse() *)

\* find_type_by_name(), find_entity_by_name(): the first of that name, or 0.
find_by_name(s, n) == SelectInSeq(s, LAMBDA d : d.name = n)

\* type_id_index[n], entity_id_index[n]: the last; a missing key is created
\* with value 0 and stands for the first descriptor.
id_index(s, n) ==
  IF find_by_name(s, n) = 0 THEN 1 ELSE SelectLastInSeq(s, LAMBDA d : d.name = n)

\* Variant: entities are not looked up.
Unresolved_types(item) == \E n \in Elements(item.refs) : find_by_name(types, n) = 0

Unresolved(item) ==
  \E n \in Elements(item.refs) : find_by_name(types, n) = 0 /\ find_by_name(entities, n) = 0

init_type ==
  LET id == id_index(types, Item.name) IN
  /\ pc = "parse" /\ More /\ Item.lex /\ Item.kind = "type"
  /\ \/ /\ types = <<>> /\ Goto("crashed") /\ UNCHANGED types
     \/ /\ types # <<>> /\ Unresolved(Item)
        /\ Goto("exited") /\ UNCHANGED types
     \/ /\ types # <<>> /\ ~Unresolved(Item)
        /\ types' = [types EXCEPT ![id] =
             [@ EXCEPT !.base = Item.base, !.list = Item.list,
                       !.ref = IF Item.base = "DERIVED" THEN find_by_name(types, Item.refs[1])
                               ELSE types[id].ref,
                       !.select = IF Item.base = "SELECT"
                                  THEN [i \in DOMAIN Item.refs |-> find_by_name(types, Item.refs[i])]
                                  ELSE types[id].select]]
        /\ pos' = pos + 1 /\ UNCHANGED <<pc, sub>>
  /\ UNCHANGED <<file, entities, tables, graphVars>>

\* An attribute's type: a declared type, a reference to an entity (or to
\* nothing), or a type of its own, which has neither name nor schema.
attr_type(a) ==
  CASE a.ref = None -> [type |-> 0, base |-> a.base, list |-> a.list, entity |-> 0]
    [] a.ref # None /\ find_by_name(types, a.ref) # 0 ->
         [type |-> find_by_name(types, a.ref), base |-> a.base, list |-> a.list, entity |-> 0]
    [] OTHER -> [type |-> 0, base |-> "REFERENCE", list |-> a.list,
                 entity |-> find_by_name(entities, a.ref)]

\* The members of a SELECT are looked up in the schema, which is null here.
OwnSelect(a) == a.ref = None /\ a.base = "SELECT"

\* Variant: a declared type keeps its flag.
mark_lists_none(as) == types

\* attr_type_decl->is_list = ...: also when the type is a declared one.
mark_lists(as) ==
  [i \in DOMAIN types |-> [types[i] EXCEPT !.list =
     LET u == SelectLastInSeq(as, LAMBDA a : a.type = i)
     IN  IF u = 0 THEN @ ELSE as[u].list]]

init_entity ==
  LET id == id_index(entities, Item.name)
      as == [i \in DOMAIN Item.attrs |-> attr_type(Item.attrs[i])]
      ok == /\ entities # <<>> /\ entities[id].name = Item.name
            /\ Item.super # None => find_by_name(entities, Item.super) # 0
            /\ \A a \in Elements(Item.attrs) : ~OwnSelect(a)
  IN
  /\ pc = "parse" /\ More /\ Item.lex /\ Item.kind = "entity"
  /\ \/ ~ok /\ Goto("crashed") /\ UNCHANGED <<types, entities>>
     \/ /\ ok
        /\ entities' = [entities EXCEPT ![id] =
             [@ EXCEPT !.set = TRUE, !.attrs = as,
                       !.subs = [i \in DOMAIN Item.subs |-> find_by_name(entities, Item.subs[i])],
                       !.super = IF Item.super = None THEN entities[id].super
                                 ELSE find_by_name(entities, Item.super)]]
        /\ types' = mark_lists(as)
        /\ pos' = pos + 1 /\ UNCHANGED <<pc, sub>>
  /\ UNCHANGED <<file, tables, graphVars>>

skip_item ==
  /\ pc = "parse" /\ More /\ ~Item.lex
  /\ pos' = pos + 1
  /\ UNCHANGED <<file, pc, sub, types, entities, tables, graphVars>>

\* parse() returns the context whatever the result; main() compares the sizes
\* of entity_id_index and of the array.
end_parse ==
  /\ pc = "parse" /\ (More => Item.lex /\ Item.kind = "error")
  /\ IF \A i, j \in DOMAIN entities : entities[i].name = entities[j].name => i = j
     THEN Goto("ready") ELSE Goto("crashed")
  /\ UNCHANGED <<file, types, entities, tables, graphVars>>

-----------------------------------------------------------------------------
(* The commands "type" and "entity": the latter climbs from an entity to   *)
(* its root and prints the attributes on the way.                          *)

\* serialize_type_tree() of type u ends if it ends for the types in C; lucky
\* are those for whose name it reads behind TYPE_NAMES, without harm.
PrintsGiven(u, C, lucky) ==
  CASE types[u].base = "DERIVED" -> types[u].ref \in C \cup {0}
    [] types[u].base = "UNKNOWN" -> u \in lucky
    [] types[u].base = "SELECT" ->
         \A m \in Elements(types[u].select) :
           LET child == IF m # 0 /\ types[m].base = "DERIVED" THEN types[m].ref ELSE m
           IN  child # 0 =>
                 IF types[child].base \in {"SELECT", "ENUM"} \/ types[child].list THEN child \in C
                 ELSE types[child].base = "UNKNOWN" => child \in lucky
    [] OTHER -> TRUE

\* Each of them by a recursion of its own: the least set that is closed.
serialize_type_tree(lucky) ==
  {t \in DOMAIN types : \A C \in SUBSET DOMAIN types :
     (\A u \in DOMAIN types : PrintsGiven(u, C, lucky) => u \in C) => t \in C}

Luck == {{}, {u \in DOMAIN types : types[u].base = "UNKNOWN"}}

\* The first descriptor is read although there is none.
show_nothing ==
  /\ pc = "ready"
  /\ (types = <<>> /\ Goto("no_type")) \/ (entities = <<>> /\ Goto("crashed"))
  /\ UNCHANGED <<file, types, entities, tables, graphVars>>

show_type(t) ==
  /\ pc = "ready"
  /\ \E lucky \in Luck :
       IF t \in serialize_type_tree(lucky) THEN Goto("shown") ELSE Goto("crashed")
  /\ UNCHANGED <<file, types, entities, tables, graphVars>>

show_entity(e) ==
  /\ pc = "ready"
  /\ \/ /\ 0 \notin Elements(entities[e].subs)
        /\ pc' = IF entities[e].super = 0 THEN "print" ELSE "climb"
     \/ /\ ~entities[e].set \/ 0 \in Elements(entities[e].subs)
        /\ pc' = "crashed"
  /\ pos' = e /\ sub' = e
  /\ UNCHANGED <<file, types, entities, tables, graphVars>>

climb ==
  /\ pc = "climb"
  /\ \/ pos = 0 /\ pc' = "print" /\ pos' = sub
     \/ pos # 0 /\ pos' = entities[pos].super /\ UNCHANGED pc
  /\ UNCHANGED <<file, sub, types, entities, tables, graphVars>>

\* The attributes of the entity and of what it has climbed over, in the
\* opposite order; a reference to nothing is followed.
print_attributes ==
  LET Printed(a, lucky) ==
        IF a.type = 0 THEN a.base = "REFERENCE" => a.entity # 0
        ELSE a.type \in serialize_type_tree(lucky)
  IN
  /\ pc = "print"
  /\ \/ pos = 0 /\ Goto("shown")
     \/ pos # 0 /\ ~entities[pos].set /\ Goto("crashed")
     \/ /\ pos # 0
        /\ \E lucky \in Luck :
             IF \A a \in Elements(entities[pos].attrs) : Printed(a, lucky)
               THEN pos' = entities[pos].super /\ UNCHANGED <<pc, sub>>
               ELSE Goto("crashed")
  /\ UNCHANGED <<file, types, entities, tables, graphVars>>

-----------------------------------------------------------------------------
(* The command "sql": generate_pgsql_for_schema() *)

\* The file's name without "/" makes substr() throw before anything is done.
sql ==
  /\ pc = "ready" /\ (Goto("graph") \/ Goto("bare_name"))
  /\ UNCHANGED <<file, types, entities, tables, graphVars>>

\* Variant: only the first subtype is linked.
link_first ==
  /\ pc = "graph" /\ pos <= Len(entities) /\ sub <= Len(entities[pos].subs)
  /\ IF sub = 1 THEN add_edge(pos, entities[pos].subs[sub]) ELSE UNCHANGED graphVars
  /\ sub' = sub + 1
  /\ UNCHANGED <<file, pc, pos, types, entities, tables>>

link ==
  /\ pc = "graph" /\ pos <= Len(entities) /\ sub <= Len(entities[pos].subs)
  /\ add_edge(pos, entities[pos].subs[sub])
  /\ sub' = sub + 1
  /\ UNCHANGED <<file, pc, pos, types, entities, tables>>

next_entity ==
  /\ pc = "graph" /\ pos <= Len(entities) /\ sub > Len(entities[pos].subs)
  /\ \/ pos' = pos + 1 /\ sub' = 1 /\ UNCHANGED pc
     \/ ~entities[pos].set /\ Goto("crashed")
  /\ UNCHANGED <<file, types, entities, tables, graphVars>>

start_sort ==
  /\ pc = "graph" /\ pos > Len(entities)
  /\ topo_sort /\ Goto("sort")
  /\ UNCHANGED <<file, types, entities, tables>>

sort ==
  /\ pc = "sort" /\ SortStep
  /\ UNCHANGED fileVars

\* topo_order[0] is read from an empty vector, or its entity must be a root.
check_first ==
  /\ pc = "sort" /\ phase = "sorted"
  /\ IF res = <<>> \/ res[1] = 0 \/ entities[res[1]].super # 0 THEN Goto("crashed") ELSE Goto("emit")
  /\ UNCHANGED <<file, types, entities, tables, graphVars>>

\* The declarations that typecast_express_to_sql() visits, from type id on:
\* 0 when it has arrived.
Chain(id) ==
  LET c[k \in 0 .. Len(types)] ==
        IF k = 0 THEN id
        ELSE IF c[k - 1] = 0 \/ types[c[k - 1]].base # "DERIVED" THEN 0
        ELSE types[c[k - 1]].ref
  IN  c

\* It never arrives: the recursion runs out of stack.
Endless(a) == Chain(a.type)[Len(types)] # 0

typecast_express_to_sql(a) ==
  IF a.type = 0 THEN [base |-> a.base, array |-> a.list]
  ELSE LET c    == Chain(a.type)
           last == c[SelectInSeq([k \in 1 .. Len(types) |-> c[k]], LAMBDA i : i = 0) - 1]
       IN  [base  |-> IF types[last].base = "ENUM" THEN types[last].name ELSE types[last].base,
            array |-> \E k \in DOMAIN c : c[k] # 0 /\ types[c[k]].list]

\* An ENUM of the attribute's own has no name to make a string of.
Nameless(a) == a.type = 0 /\ a.base = "ENUM"

Invalid(a) == typecast_express_to_sql(a).base \in {"UNKNOWN", "DERIVED"}

create_pgsql_for_entity ==
  LET id  == res[pos]
      ent == IF id = 0 THEN new_entity(None) ELSE entities[id]
      as  == ent.attrs
      bad == SelectInSeq(as, LAMBDA a : Endless(a) \/ Nameless(a) \/ Invalid(a))
  IN
  /\ pc = "emit" /\ pos <= Len(res)
  /\ \/ ~ent.set /\ Goto("crashed") /\ UNCHANGED tables
     \/ /\ bad # 0
        /\ IF Endless(as[bad]) \/ Nameless(as[bad]) THEN Goto("crashed") ELSE Goto("exited")
        /\ UNCHANGED tables
     \/ /\ id # 0 /\ bad = 0
        /\ tables' = Append(tables, [id |-> id,
             columns |-> [i \in DOMAIN as |-> typecast_express_to_sql(as[i])]])
        /\ pos' = pos + 1 /\ UNCHANGED <<pc, sub>>
  /\ UNCHANGED <<file, types, entities, graphVars>>

write_file ==
  /\ pc = "emit" /\ pos > Len(res)
  /\ Goto("written")
  /\ UNCHANGED <<file, types, entities, tables, graphVars>>

-----------------------------------------------------------------------------
Next ==
  \/ scan_item \/ scan_error \/ end_scan
  \/ init_type \/ init_entity \/ skip_item \/ end_parse
  \/ show_nothing \/ (\E t \in DOMAIN types : show_type(t))
  \/ (\E e \in DOMAIN entities : show_entity(e)) \/ climb \/ print_attributes
  \/ sql \/ link \/ next_entity \/ start_sort \/ sort \/ check_first
  \/ create_pgsql_for_entity \/ write_file

Spec == Init /\ [][Next]_vars /\ WF_vars(Next)

-----------------------------------------------------------------------------
(* What the text says. *)

Declared(kind) == {d \in Elements(file) : d.kind = kind /\ d.lex}

\* The scan and the grammar read the same declarations, one for each name.
Plain ==
  /\ \A d \in Elements(file) : d.kind # "error" /\ d.lex /\ d.scan = d.name
  /\ \A i, j \in DOMAIN file : file[i].name = file[j].name => i = j

Names(kind) == {d.name : d \in Declared(kind)}

\* Every name that is used is declared.
Closed ==
  /\ \A t \in Declared("type") : Elements(t.refs) \subseteq Names("type") \cup Names("entity")
  /\ \A e \in Declared("entity") :
       /\ Elements(e.subs) \subseteq Names("entity") /\ e.super \in Names("entity") \cup {None}
       /\ \A a \in Elements(e.attrs) : a.ref \in Names("type") \cup Names("entity") \cup {None}

\* Supertype and subtype name each other.
TwoSided ==
  \A d, e \in Declared("entity") : e.name \in Elements(d.subs) <=> e.super = d.name

SuperCycle ==
  \E S \in SUBSET Declared("entity") \ {{}} : \A e \in S : \E d \in S : e.super = d.name

\* The types that type t is derived from, and t: the least set that holds t and
\* what its members are derived from.
Derivation(t) ==
  {d \in Declared("type") : \A C \in SUBSET Declared("type") :
     /\ t \in C
     /\ \A u \in C, v \in Declared("type") : u.base = "DERIVED" /\ u.refs[1] = v.name => v \in C
     => d \in C}

WellFormed ==
  /\ Plain /\ Closed /\ TwoSided /\ ~SuperCycle
  /\ \E e \in Declared("entity") : e.subs # <<>>
  /\ \A t \in Declared("type") : \E u \in Derivation(t) : u.base # "DERIVED"

\* The types that type t is made of, and t.
MadeOf(t) ==
  {d \in Declared("type") : \A C \in SUBSET Declared("type") :
     /\ t \in C
     /\ \A u \in C, v \in Declared("type") : v.name \in Elements(u.refs) => v \in C
     => d \in C}

\* What EXPRESS asks for beyond that: an ENUMERATION or a SELECT belongs to a
\* TYPE, and no type is made of itself.
Legal ==
  /\ \A e \in Declared("entity") : \A a \in Elements(e.attrs) :
       a.ref = None => a.base \notin {"ENUM", "SELECT"}
  /\ \A t, u \in Declared("type") : u.name \in Elements(t.refs) => t \notin MadeOf(u)

\* The column an attribute asks for.
ColumnOf(a) ==
  IF a.ref = None THEN [base |-> a.base, array |-> a.list]
  ELSE IF a.ref \in Names("entity") THEN [base |-> "REFERENCE", array |-> a.list]
  ELSE LET t == CHOOSE d \in Declared("type") : d.name = a.ref
           u == CHOOSE d \in Derivation(t) : d.base # "DERIVED"
       IN  [base  |-> IF u.base = "ENUM" THEN u.name ELSE u.base,
            array |-> a.list \/ \E d \in Derivation(t) : d.list]

\* All attributes of a declared type agree with its declaration on being a
\* list; or all make a list of it, later in the file, and no type derives from it.
UsedOneWay ==
  \A i \in DOMAIN file : file[i].kind = "type" =>
    LET Uses(j) == {a \in Elements(file[j].attrs) : a.ref = file[i].name}
        Users   == {j \in DOMAIN file : file[j].kind = "entity" /\ Uses(j) # {}}
    IN  \/ \A j \in Users : \A a \in Uses(j) : a.list = file[i].list
        \/ /\ \A j \in Users : i < j /\ \A a \in Uses(j) : a.list
           /\ \A d \in Declared("type") : d.base = "DERIVED" => d.refs[1] # file[i].name

Entity(t) == CHOOSE d \in Declared("entity") : d.name = entities[t.id].name

(* The generated file of a well-formed schema creates each table of an     *)
(* inheritance hierarchy once, a supertype's before its subtypes', and     *)
(* nothing else: an entity outside every hierarchy has no table.           *)
TablesInOrder ==
  pc = "written" /\ WellFormed =>
    /\ {Entity(t) : t \in Elements(tables)} =
         {e \in Declared("entity") : e.subs # <<>> \/ e.super # None}
    /\ \A i, j \in DOMAIN tables :
         /\ tables[i].id = tables[j].id => i = j
         /\ Entity(tables[j]).super = Entity(tables[i]).name => i < j

\* Every column has the type its attribute is declared with.
ColumnsDeclared ==
  \A t \in Elements(tables) :
    t.columns = [i \in DOMAIN Entity(t).attrs |-> ColumnOf(Entity(t).attrs[i])]

(* Declared types are shared by the attributes that name them and an       *)
(* attribute writes its own list flag into them: the columns come out as   *)
(* declared as long as each type is used one way.                          *)
ColumnsAsDeclared == tables # <<>> /\ WellFormed /\ UsedOneWay => ColumnsDeclared

(* A column is an array where the attribute or its type is a list          *)
(* (express_defs.h:77 says of is_list that it marks the current type as a  *)
(* list type).  Not so: the last attribute that names a type decides.      *)
ListsKept == tables # <<>> /\ WellFormed => ColumnsDeclared

(* Every command ends unless supertypes form a cycle, however broken the   *)
(* file is; on a well-formed and legal file none stops the program, except *)
(* "sql" when the file was named without a "/" (express_parser_cli.cpp:257)*)
(* and "type" when it declares no type.                                    *)
CommandEnds ==
  /\ ~SuperCycle => <>(pc \in Final)
  /\ WellFormed /\ Legal => <>(pc \in {"written", "shown", "bare_name", "no_type"})

(* With a legal file, started as the usage line says ("-f <file.exp>",     *)
(* express_parser_cli.cpp:188), every command does its work.  Not so for   *)
(* "sql" when the name has no "/".                                         *)
UsageWorks == WellFormed /\ Legal => <>(pc \in {"written", "shown", "no_type"})

=============================================================================
