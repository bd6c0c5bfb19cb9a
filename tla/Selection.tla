----------------------------- MODULE Selection -----------------------------
(***************************************************************************)
(* Which points and lines a search takes (GridStore::IsSelected): those    *)
(* whose fields pass every filter.  An integer is compared by the          *)
(* difference of the two, which is put into an int whatever its size, a    *)
(* text by its length first and then byte by byte.  A field the object     *)
(* does not have passes as a smaller one, but not as an unequal one.       *)
(*                                                                         *)
(* The fields of one name are of one type; a number is a sequence of one.  *)
(* Widths are those of the model: IntBits for the 32 bits of an int,       *)
(* beside which a bigint has 64.                                           *)
(***************************************************************************)
EXTENDS Integers, Sequences

CONSTANTS
  IntNames, TextNames, \* names of fields
  Numbers, Texts,      \* their values
  IntBits,             \* bits of an int
  MaxFilters,          \* bound of the model: filters of a search
  Absent

ASSUME SelectAssumption ==
  /\ IntNames \intersect TextNames = {} /\ Numbers \subseteq Int /\ Texts \subseteq Seq(Nat)
  /\ IntBits \in Nat \ {0} /\ MaxFilters \in Nat /\ Absent \notin Seq(Int)

VARIABLES
  fields,  \* the fields of the point or line
  filters,  \* what they have to pass
  at,       \* the filter the loop is at
  selected  \* what IsSelected returns: "yes", "no", or "open" while it runs

selectVars == <<fields, filters, at, selected>>

CmpModes == {"left", "leftEquals", "equals", "rightEquals", "right", "unequals"}
Names    == IntNames \union TextNames
ValuesOf(name) == IF name \in IntNames THEN {<<x>> : x \in Numbers} ELSE Texts
FILTER == UNION {[cmp : CmpModes, name : {name}, field : ValuesOf(name)] : name \in Names}

SelectInit ==
  /\ fields \in {f \in [Names -> UNION {ValuesOf(name) : name \in Names} \union {Absent}] :
                   \A name \in Names : f[name] \in ValuesOf(name) \union {Absent}}
  /\ filters \in UNION {[1 .. n -> FILTER] : n \in 0 .. MaxFilters}
  /\ at = 1 /\ selected = "open"

-----------------------------------------------------------------------------
(* What is left of a number in an int.                                     *)
IntHalf == 2 ^ (IntBits - 1)
AsInt(x) == ((x + IntHalf) % (2 * IntHalf)) - IntHalf

FirstDifference(s, t) == CHOOSE i \in DOMAIN s : s[i] # t[i] /\ \A j \in 1 .. i - 1 : s[j] = t[j]

CompareTexts(s, t) ==
  IF Len(s) # Len(t) THEN Len(s) - Len(t)
  ELSE IF s = t THEN 0 ELSE s[FirstDifference(s, t)] - t[FirstDifference(s, t)]

ret(name, value, other) ==
  IF name \in TextNames THEN CompareTexts(value, other) ELSE AsInt(value[1] - other[1])

PassingEqual(cmp, r) ==   \* mutant: left and right let what is equal through
  \/ r = 0 /\ cmp # "unequals"
  \/ r < 0 /\ cmp \in {"unequals", "left", "leftEquals"}
  \/ r > 0 /\ cmp \in {"unequals", "right", "rightEquals"}

Passing(cmp, r) ==
  \/ r = 0 /\ cmp \in {"equals", "leftEquals", "rightEquals"}
  \/ r < 0 /\ cmp \in {"unequals", "left", "leftEquals"}
  \/ r > 0 /\ cmp \in {"unequals", "right", "rightEquals"}

Passes(filter) ==
  LET value == fields[filter.name]
  IN IF value = Absent THEN filter.cmp \in {"left", "leftEquals"}
     ELSE Passing(filter.cmp, ret(filter.name, value, filter.field))

IsSelected ==
  /\ selected = "open"
  /\ \/ at > Len(filters) /\ selected' = "yes" /\ UNCHANGED at
     \/ at <= Len(filters) /\ ~Passes(filters[at]) /\ selected' = "no" /\ UNCHANGED at
     \/ at <= Len(filters) /\ Passes(filters[at]) /\ at' = at + 1 /\ UNCHANGED selected
  /\ UNCHANGED <<fields, filters>>

SelectSpec == SelectInit /\ [][IsSelected]_selectVars

-----------------------------------------------------------------------------
(* The order the filters speak of: of numbers their own, of texts of one   *)
(* length that of their first difference, and longer ones after shorter.   *)
Smaller(name, x, y) ==
  IF name \in IntNames THEN x[1] < y[1]
  ELSE \/ Len(x) < Len(y)
       \/ Len(x) = Len(y) /\ \E i \in DOMAIN x : x[i] < y[i] /\ \A j \in 1 .. i - 1 : x[j] = y[j]

Stands(filter) ==
  LET value == fields[filter.name]
      cmp   == filter.cmp
  IN IF value = Absent THEN cmp \in {"left", "leftEquals"}
     ELSE CASE cmp = "left"        -> Smaller(filter.name, value, filter.field)
            [] cmp = "leftEquals"  -> ~Smaller(filter.name, filter.field, value)
            [] cmp = "equals"      -> value = filter.field
            [] cmp = "rightEquals" -> ~Smaller(filter.name, value, filter.field)
            [] cmp = "right"       -> Smaller(filter.name, filter.field, value)
            [] cmp = "unequals"    -> value # filter.field

Near(filter) ==
  filter.name \in IntNames /\ fields[filter.name] # Absent =>
    fields[filter.name][1] - filter.field[1] \in -IntHalf .. IntHalf - 1

(* A point or line is selected when its fields stand to those of every     *)
(* filter as the filter says, as long as no two numbers that are compared  *)
(* differ by more than an int holds (GridStore::IsSelected).               *)
SelectedRight ==
  selected # "open" /\ (\A i \in DOMAIN filters : Near(filters[i])) =>
    (selected = "yes" <=> \A i \in DOMAIN filters : Stands(filters[i]))
=============================================================================
