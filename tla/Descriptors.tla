-------------------------- MODULE Descriptors --------------------------
(***************************************************************************)
(* Descriptor sets (panvk_v9_entrypoints.c): a set is an array with one    *)
(* slot per descriptor of its layout; a pipeline layout numbers the        *)
(* descriptors of all its sets per class; a draw collects the bound sets'  *)
(* slots into the table of each class, which the command buffer has eight  *)
(* entries for.  A set may be allocated with fewer descriptors than its    *)
(* layout declares; the loops over it go to the declared number all the    *)
(* same.  The application writes descriptors that exist, and a write may   *)
(* go on into the next binding, as Vulkan allows.                          *)
(***************************************************************************)
EXTENDS Integers, Sequences, FiniteSets, RunningSum

CONSTANTS
  Sets,       \* addresses of descriptor sets
  Layouts,    \* the pipeline's set layouts: [bindings, variable], variable 0 for none;
              \* a binding is [number, type, count]
  None,       \* NULL, and a slot that was never written
  BoundSets,  \* places for bound sets in a command buffer: 8
  TableSize,  \* entries of a table: 8
  MaxWrites   \* bound: writes and copies

Classes == {"ubo", "image"}

ASSUME LayoutsAssumption ==
  /\ Layouts \in Seq([bindings : Seq([number : Nat, type : Classes, count : Nat]), variable : Nat])
  /\ \A l \in DOMAIN Layouts : Layouts[l].variable \in 0..Len(Layouts[l].bindings)
ASSUME BoundsAssumption == BoundSets \in Nat /\ TableSize \in Nat /\ MaxWrites \in Nat

VARIABLES
  sets,    \* the sets: None, or [layout, requested, slots]
  bound,   \* commandBuffer->descriptor_sets
  writes,  \* those made so far: their number marks what they write
  last,    \* the last slots written: [layout, size, top], top the first slot beyond them
  told     \* history: per set what the application wrote, by binding and element

descriptors == <<sets, bound, writes, last, told>>

Bindings(l) == Layouts[l].bindings
PerBinding(l) == [b \in DOMAIN Bindings(l) |-> Bindings(l)[b].count]

\* vkCreateDescriptorSetLayout: descriptor_count and binding_offsets.
Total(l) == SumOf(PerBinding(l))
Offset(l, b) == SumTo(PerBinding(l), b - 1)

\* The counts of the bindings of one class.
OfClass(l, class) ==
  [b \in DOMAIN Bindings(l) |-> IF Bindings(l)[b].type = class THEN Bindings(l)[b].count ELSE 0]
PerSet(class) == [l \in DOMAIN Layouts |-> SumOf(OfClass(l, class))]

\* Mutant of ResourceIndex: bindings are counted, not descriptors.
ResourceIndexOfBinding(l, b) ==
  Cardinality({c \in 1..b - 1 : Bindings(l)[c].type = Bindings(l)[b].type})

\* vkCreatePipelineLayout: a running count per class, over the sets and their bindings.
ResourceIndex(l, b) ==
  LET class == Bindings(l)[b].type
  IN SumTo(PerSet(class), l - 1) + SumTo(OfClass(l, class), b - 1)

\* Both are fixed when the layouts are created.
Offsets == [l \in DOMAIN Layouts |-> [b \in DOMAIN Bindings(l) |-> Offset(l, b)]]
Indices == [l \in DOMAIN Layouts |-> [b \in DOMAIN Bindings(l) |-> ResourceIndex(l, b)]]

\* The bindings of all the sets.
Places == UNION {{l} \X DOMAIN Bindings(l) : l \in DOMAIN Layouts}

DescriptorInit ==
  /\ sets = [s \in Sets |-> None] /\ bound = [l \in DOMAIN Layouts |-> None]
  /\ writes = 0 /\ last = [layout |-> 1, size |-> 0, top |-> 0]
  /\ told = [s \in Sets |-> <<>>]

Declared(l) == Bindings(l)[Layouts[l].variable].count
Shrinks(l, requested) == Layouts[l].variable # 0 /\ requested < Declared(l)

\* Mutant of Size: what is requested is taken off, not what is left out.
SizeOfRequest(l, requested) ==
  Total(l) - (IF Shrinks(l, requested) THEN requested ELSE 0)

\* The slots of a set whose variable binding has the given count.
Size(l, requested) ==
  Total(l) - (IF Shrinks(l, requested) THEN Declared(l) - requested ELSE 0)

\* What a set may be allocated with, and what it is then.
Requests(l) == IF Layouts[l].variable = 0 THEN {0} ELSE 1..Declared(l)
Values == 1..MaxWrites \cup {None}
SetOf(l) ==
  UNION {[layout : {l}, requested : {requested}, slots : [0..Size(l, requested) - 1 -> Values]] :
           requested \in Requests(l)}

ASSUME NoneAssumption == None \notin Sets /\ \A l \in DOMAIN Layouts : None \notin SetOf(l)

\* vkAllocateDescriptorSets.
AllocateSet ==
  /\ \E s \in Sets, l \in DOMAIN Layouts :
       \E requested \in Requests(l) :
         /\ sets[s] = None
         /\ sets' = [sets EXCEPT ![s] = [layout |-> l, requested |-> requested,
                       slots |-> [i \in 0..Size(l, requested) - 1 |-> None]]]
         /\ told' = [told EXCEPT ![s] = [b \in DOMAIN Bindings(l) |->
                                           [e \in 0..Bindings(l)[b].count - 1 |-> None]]]
  /\ UNCHANGED <<bound, writes, last>>

\* vkFreeDescriptorSets, of a set no draw will use any more.
FreeSet ==
  /\ \E s \in {t \in Sets : sets[t] # None} :
       /\ \A l \in DOMAIN bound : bound[l] # s
       /\ sets' = [sets EXCEPT ![s] = None]
  /\ UNCHANGED <<bound, writes, last, told>>

\* The elements a binding of a set has.
Room(s, b) ==
  LET l == sets[s].layout
  IN IF b = Layouts[l].variable THEN sets[s].requested ELSE Bindings(l)[b].count

\* What stands in told for an element whose last write never reached the array: nothing
\* is said of it until it is written again.
Void == 0
Claimed(mark) == mark \notin {None, Void}

\* Slots or elements from a place on hold values.
Stored(array, first, values) ==
  [i \in DOMAIN array |-> IF i - first \in DOMAIN values THEN values[i - first] ELSE array[i]]

One(value) == [i \in {0} |-> value]

\* memcpy to the slots of a set.  What goes beyond the array is not in it.
Store(s, first, values) ==
  /\ sets' = [sets EXCEPT ![s].slots = Stored(@, first, values)]
  /\ last' = [layout |-> sets[s].layout, size |-> Size(sets[s].layout, sets[s].requested),
              top |-> first + Cardinality(DOMAIN values)]

\* The elements of a write that stays in its binding.
WriteBinding(s, b, first, values) ==
  /\ Store(s, Offsets[sets[s].layout][b] + first, values)
  /\ told' = [told EXCEPT ![s][b] = Stored(@, first, values)]

\* A write that goes on into the next binding: no binding matches it and it is dropped.
WriteBeyond(s, b, first, count) ==
  LET l == sets[s].layout
      dropped == [i \in 0..count - 1 |-> Void]
  IN /\ b # Layouts[l].variable
     /\ \E next \in DOMAIN Bindings(l) :
          /\ Bindings(l)[next].number = Bindings(l)[b].number + 1
          /\ Bindings(l)[next].type = Bindings(l)[b].type
          /\ told' = [told EXCEPT ![s][b] = Stored(@, first, dropped),
                                 ![s][next] = Stored(@, first - Room(s, b), dropped)]
     /\ UNCHANGED <<sets, last>>

\* vkUpdateDescriptorSets, a write of some elements.
Update ==
  /\ writes < MaxWrites /\ writes' = writes + 1
  /\ \E s \in {t \in Sets : sets[t] # None} : \E b \in DOMAIN Bindings(sets[s].layout) :
       \E first \in 0..Room(s, b) - 1, count \in 1..2 :
         IF first + count <= Room(s, b)
         THEN WriteBinding(s, b, first, [i \in 0..count - 1 |-> writes'])
         ELSE WriteBeyond(s, b, first, count)
  /\ UNCHANGED bound

\* vkUpdateDescriptorSets, a copy of one descriptor from set to set: from beyond the array
\* it copies anything.
Copy ==
  /\ writes < MaxWrites /\ writes' = writes + 1
  /\ \E s, d \in {t \in Sets : sets[t] # None} :
     \E b \in DOMAIN Bindings(sets[s].layout), c \in DOMAIN Bindings(sets[d].layout) :
       \E e \in 0..Room(s, b) - 1, f \in 0..Room(d, c) - 1 :
         LET from == Offsets[sets[s].layout][b] + e
             slots == sets[s].slots
             mark == IF from \in DOMAIN slots THEN told[s][b][e] ELSE Void
         IN /\ Bindings(sets[s].layout)[b].type = Bindings(sets[d].layout)[c].type
            /\ told[s][b][e] # None
            /\ \E value \in IF from \in DOMAIN slots THEN {slots[from]} ELSE Values :
                 Store(d, Offsets[sets[d].layout][c] + f, One(value))
            /\ told' = [told EXCEPT ![d][c] = Stored(@, f, One(mark))]
  /\ UNCHANGED bound

\* vkCmdBindDescriptorSets: a set beyond the places for them is not bound.
BindSet ==
  /\ \E s \in {t \in Sets : sets[t] # None} :
       /\ sets[s].layout <= BoundSets
       /\ bound' = [bound EXCEPT ![sets[s].layout] = s]
  /\ UNCHANGED <<sets, writes, last, told>>

\* The descriptors of a class in the bound sets: set, binding and element.
Asked(class) ==
  UNION {{[l |-> p[1], b |-> p[2], elem |-> e] : e \in 0..Bindings(p[1])[p[2]].count - 1} :
           p \in {q \in Places : /\ q[1] <= BoundSets /\ bound[q[1]] # None
                                 /\ Bindings(q[1])[q[2]].type = class}}

\* The order of the loops over them.
Before(x, y) ==
  \/ x.l < y.l
  \/ x.l = y.l /\ x.b < y.b
  \/ x.l = y.l /\ x.b = y.b /\ x.elem < y.elem

Index(x) == Indices[x.l][x.b] + x.elem

SlotAt(x) == Offsets[x.l][x.b] + x.elem
InArray(x) == SlotAt(x) \in DOMAIN sets[bound[x.l]].slots

\* What a draw may find in the slots: they are read up to the declared number of
\* descriptors, and what is beyond the array is anything.
Contents(class) ==
  {[x \in Asked(class) |-> IF InArray(x) THEN sets[bound[x.l]].slots[SlotAt(x)] ELSE beyond[x]] :
     beyond \in [{x \in Asked(class) : ~InArray(x)} -> Values]}

\* The descriptors that go to the table: the first of those that are not NULL.
Taken(class, contents) ==
  LET written == {x \in Asked(class) : contents[x] # None}
  IN {x \in written : Cardinality({y \in written : Before(y, x)}) < TableSize}

\* The command buffer refuses a table with an index beyond its size: the old one stays.
Refused(class, contents) == \E x \in Taken(class, contents) : Index(x) >= TableSize

\* command_buffer_apply_ubos, _ssbos, _textures: the table that is not refused.
Table(class, contents) ==
  LET taken == Taken(class, contents)
  IN [i \in 0..TableSize - 1 |-> IF \E x \in taken : Index(x) = i
        THEN contents[CHOOSE x \in taken : Index(x) = i] ELSE None]

DescriptorNext == AllocateSet \/ FreeSet \/ Update \/ Copy \/ BindSet

------------------------------------------------------------------------
DescriptorTypeOK ==
  /\ writes \in 0..MaxWrites
  /\ \A s \in Sets : sets[s] # None => \E l \in DOMAIN Layouts : sets[s] \in SetOf(l)
  /\ \A l \in DOMAIN Layouts : bound[l] # None => sets[bound[l]] \in SetOf(l)

\* All descriptors of a class have a place in the table.
Fits(class) == SumOf(PerSet(class)) <= TableSize

\* The binding of variable count is the last of the array, as it is when the application
\* lists the bindings by their numbers.
VariableLast(l) == Layouts[l].variable \in {0, Len(Bindings(l))}

\* A draw made at any time hands the shader, at the resource index of a descriptor, what
\* the application wrote last for that set, binding and element, over any history of
\* allocations, writes, copies and bindings, and whatever lies behind the arrays of sets
\* with fewer descriptors.  The draw's whole table may be refused, never if its class
\* fits, and has no place for a number beyond its size.  Excepted are descriptors whose
\* last write went on into the next binding, and those a set has lost from its array
\* because its variable binding is not the last.
TableFaithful ==
  \A class \in Classes : \A contents \in Contents(class) :
    \/ Refused(class, contents) /\ ~Fits(class)
    \/ /\ ~Refused(class, contents)
       /\ \A x \in Asked(class) :
            LET wrote == told[bound[x.l]][x.b][x.elem]
            IN Claimed(wrote) /\ (VariableLast(x.l) \/ InArray(x)) /\ Index(x) < TableSize
                 => Table(class, contents)[Index(x)] = wrote

\* "just shrink the total allocation": what is written to a set lies in its array, though
\* it was allocated with fewer descriptors than its layout declares.
WritesInBounds == VariableLast(last.layout) => last.top <= last.size

========================================================================
