------------------------------- MODULE V8Values -------------------------------
(***************************************************************************)
(* deserializeV8: how a value of the table _cf_KV is shown.  The value was    *)
(* written by V8's ValueSerializer, of which the code keeps its own account:  *)
(* a value here is a heap of objects and arrays that may share and contain    *)
(* each other, is written the way V8 does (external) and read as the code     *)
(* does.  No array has named properties.                                      *)
(***************************************************************************)
EXTENDS Integers, Sequences, FiniteSets, SequencesExt, FiniteSetsExt

CONSTANTS
  Kinds,    \* kinds of the nodes of a heap: "o" (object), "A" (array)
  Leaves,   \* other values: [tag, n], see Leaf
  MaxNodes, \* bound: objects and arrays of a heap
  MaxKids   \* bound: elements of each

VARIABLES
  heap,     \* node -> [kind, kids]; a kid is [ref |-> node] or a leaf; node 1 is the value
  shown     \* what the cell shows: <<>> before, then [error, nodes, value]

vars == <<heap, shown>>

\* The codes of the tags; a byte of a payload is PayloadByte.
Code == [I |-> 73, Latin1 |-> 34, c |-> 99, D |-> 68, N |-> 78, Z |-> 90, T |-> 84, F |-> 70,
         null |-> 48, undefined |-> 95, o |-> 111, A |-> 65, ref |-> 94,
         endObject |-> 123, endArray |-> 36, padding |-> 0]
PayloadByte == 97

\* Numbers, strings of n characters of one or two bytes, dates and the constants.
SmallInt(n) == [tag |-> "I", n |-> n]
OneByte(n) == [tag |-> "Latin1", n |-> n]
TwoByte(n) == [tag |-> "c", n |-> n]
Date == [tag |-> "D", n |-> 0]
Double == [tag |-> "N", n |-> 0]
Big(n) == [tag |-> "Z", n |-> n]       \* a bigint of n bytes
Plain(t) == [tag |-> t, n |-> 0]     \* "T", "F", "null", "undefined"
Ref(n) == [tag |-> "ref", n |-> n]

-----------------------------------------------------------------------------
(***************************************************************************)
(* V8's side: st carries the bytes, the numbers given to objects, the nodes   *)
(* in the order they were reached, and whether a two-byte string had to be    *)
(* moved to an even place.  Every object gets a number, a date as well.       *)
(***************************************************************************)
RECURSIVE Varint(_)
Varint(n) == IF n < 128 THEN <<n>> ELSE <<128 + (n % 128)>> \o Varint(n \div 128)
ZigZag(n) == IF n >= 0 THEN 2 * n ELSE -2 * n - 1

Emit(st, bytes) == [st EXCEPT !.bytes = @ \o bytes]
Payload(n) == [k \in 1..n |-> PayloadByte]

WriteLeaf(st, v) ==
  CASE v.tag = "I" -> Emit(st, <<Code.I>> \o Varint(ZigZag(v.n)))
    [] v.tag = "Latin1" -> Emit(st, <<Code.Latin1>> \o Varint(v.n) \o Payload(v.n))
    [] v.tag = "c" ->
         LET odd == (Len(st.bytes) + 1 + Len(Varint(2 * v.n))) % 2 = 1
         IN Emit([st EXCEPT !.padded = @ \/ odd],
                 (IF odd THEN <<Code.padding>> ELSE <<>>) \o <<Code.c>> \o Varint(2 * v.n) \o Payload(2 * v.n))
    [] v.tag = "D" -> Emit([st EXCEPT !.next = @ + 1, !.dates = @ \cup {st.next}],
                           <<Code.D>> \o Payload(8))
    [] v.tag = "N" -> Emit(st, <<Code.N>> \o Payload(8))
    [] v.tag = "Z" -> Emit(st, <<Code.Z>> \o Varint(2 * v.n) \o Payload(v.n))
    [] OTHER -> Emit(st, <<Code[v.tag]>>)

RECURSIVE Write(_, _)
Write(st, v) ==
  IF v.tag # "ref" THEN WriteLeaf(st, v)
  ELSE IF v.n \in DOMAIN st.ids
  THEN Emit([st EXCEPT !.asked = @ \cup {st.ids[v.n]}], <<Code.ref>> \o Varint(st.ids[v.n]))
  ELSE LET node == heap[v.n]
           open == [st EXCEPT !.ids = [m \in DOMAIN st.ids \cup {v.n} |->
                                         IF m = v.n THEN st.next ELSE st.ids[m]],
                              !.order = Append(@, v.n), !.next = @ + 1]
           count == Len(node.kids)
           Entry(s, k) == Write(IF node.kind = "o" THEN WriteLeaf(s, SmallInt(k)) ELSE s, node.kids[k])
           Body(s) == FoldLeft(Entry, s, [k \in 1..count |-> k])
       IN IF node.kind = "o"
          THEN Emit(Body(Emit(open, <<Code.o>>)), <<Code.endObject>> \o Varint(count))
          ELSE Emit(Body(Emit(open, <<Code.A>> \o Varint(count))), <<Code.endArray>> \o Varint(0) \o Varint(count))

Written ==
  Write([bytes |-> <<255, 15>>, ids |-> <<>>, order |-> <<>>, next |-> 0,
         padded |-> FALSE, dates |-> {}, asked |-> {}], Ref(1))

-----------------------------------------------------------------------------
(***************************************************************************)
(* The code's side.  Each reader returns [value, at, nodes, error]: at is     *)
(* the next offset and nodes the registry, a node of which is filled in when  *)
(* its end is reached.                                                        *)
(***************************************************************************)
Got(value, at, nodes) == [value |-> value, at |-> at, nodes |-> nodes, error |-> ""]
Throws(error) == [value |-> Plain("undefined"), at |-> 0, nodes |-> <<>>, error |-> error]

RECURSIVE DecodeVarint(_, _)
DecodeVarint(b, at) ==       \* [n, at]
  IF b[at] < 128 THEN [n |-> b[at], at |-> at + 1]
  ELSE LET rest == DecodeVarint(b, at + 1) IN [n |-> b[at] - 128 + 128 * rest.n, at |-> rest.at]

\* Fault: the sign is taken from the highest bit instead of the lowest.
DecodeZigZagHigh(n) == IF n >= 128 THEN -((n + 1) \div 2) ELSE n \div 2

DecodeZigZag(n) == IF n % 2 = 0 THEN n \div 2 ELSE -((n + 1) \div 2)

\* Fault: a node is registered once it is complete.
RegisterLate(nodes) == nodes

Register(nodes) == Append(nodes, [kind |-> "open", kids |-> <<>>])

RECURSIVE DeserializeValue(_, _, _), DeserializeJSObject(_, _, _, _, _), DeserializeElements(_, _, _, _)

\* Pairs up to the end mark, whose count has to agree.
DeserializeJSObject(b, at, nodes, id, kids) ==
  IF b[at] = Code.endObject
  THEN LET count == DecodeVarint(b, at + 1)
       IN IF count.n # Len(kids) THEN Throws("properties")
          ELSE Got(Ref(id), count.at, [nodes EXCEPT ![id] = [kind |-> "o", kids |-> kids]])
  ELSE LET key == DeserializeValue(b, at, nodes)
           val == DeserializeValue(b, key.at, key.nodes)
       IN IF key.error # "" THEN key ELSE IF val.error # "" THEN val
          ELSE DeserializeJSObject(b, val.at, val.nodes, id, Append(kids, val.value))

DeserializeElements(b, r, left, kids) ==      \* r: what the last reader returned
  IF r.error # "" \/ left = 0 THEN [r EXCEPT !.value = kids]
  ELSE LET val == DeserializeValue(b, r.at, r.nodes)
       IN DeserializeElements(b, val, left - 1, Append(kids, val.value))

DeserializeDenseJSArray(b, at, nodes) ==
  LET length == DecodeVarint(b, at)
      id == Len(nodes) + 1
      body == DeserializeElements(b, Got(Plain("undefined"), length.at, Register(nodes)), length.n, <<>>)
      properties == DecodeVarint(b, body.at + 1)
      final == DecodeVarint(b, properties.at)
  IN IF body.error # "" THEN Throws(body.error)
     ELSE IF b[body.at] # Code.endArray THEN Throws("array marker")
     ELSE Got(Ref(id), final.at, [body.nodes EXCEPT ![id] = [kind |-> "A", kids |-> body.value]])

DeserializeValue(b, at, nodes) ==
  CASE b[at] = Code.I -> LET v == DecodeVarint(b, at + 1) IN Got(SmallInt(DecodeZigZag(v.n)), v.at, nodes)
    [] b[at] = Code.Latin1 -> LET v == DecodeVarint(b, at + 1) IN Got(OneByte(v.n), v.at + v.n, nodes)
    [] b[at] = Code.c -> LET v == DecodeVarint(b, at + 1) IN Got(TwoByte(v.n \div 2), v.at + v.n, nodes)
    [] b[at] = Code.D -> Got(Date, at + 9, nodes)       \* not registered
    [] b[at] = Code.N -> Got(Double, at + 9, nodes)
    [] b[at] = Code.Z -> LET field == DecodeVarint(b, at + 1)
                         IN Got(Big(field.n \div 2), field.at + field.n \div 2, nodes)
    [] \E t \in {"T", "F", "null", "undefined"} : b[at] = Code[t] ->
         Got(Plain(CHOOSE t \in {"T", "F", "null", "undefined"} : b[at] = Code[t]), at + 1, nodes)
    [] b[at] = Code.o -> DeserializeJSObject(b, at + 1, Register(nodes), Len(nodes) + 1, <<>>)
    [] b[at] = Code.A -> DeserializeDenseJSArray(b, at + 1, nodes)
    [] b[at] = Code.ref -> LET id == DecodeVarint(b, at + 1)
                      IN IF id.n < Len(nodes) THEN Got(Ref(id.n + 1), id.at, nodes)
                         ELSE Throws("reference")
    [] OTHER -> Throws("type")

DeserializeV8(b) ==
  IF b[1] # 255 THEN Throws("format") ELSE IF b[2] # 15 THEN Throws("version")
  ELSE DeserializeValue(b, 3, <<>>)

-----------------------------------------------------------------------------
Kids == Leaves \cup {Ref(n) : n \in 1..MaxNodes}

Init ==
  /\ heap \in [1..MaxNodes -> [kind : Kinds, kids : SeqOf(Kids, MaxKids)]]
  /\ shown = <<>>

\* JSON.stringify refuses bigints and circular references.
RECURSIVE Printable(_, _, _)
Printable(nodes, v, path) ==
  /\ v.tag # "Z"
  /\ v.tag = "ref" =>
       /\ v.n \notin path
       /\ \A k \in DOMAIN nodes[v.n].kids : Printable(nodes, nodes[v.n].kids[k], path \cup {v.n})

\* CloudflareKvValue: an object or array is shown as JSON, and an error instead of the value.
Show ==
  /\ shown = <<>>
  /\ LET r == DeserializeV8(Written.bytes)
         unprintable == r.error = "" /\ ~Printable(r.nodes, r.value, {})
     IN shown' = [error |-> IF unprintable THEN "JSON" ELSE r.error, nodes |-> r.nodes, value |-> r.value]
  /\ UNCHANGED heap

Next == Show
Spec == Init /\ [][Next]_vars

-----------------------------------------------------------------------------
\* The heap as the registry should have it: nodes numbered in the order they are reached.
Expected ==
  LET order == Written.order
      Number(v) == IF v.tag = "ref" THEN Ref(CHOOSE k \in DOMAIN order : order[k] = v.n) ELSE v
  IN [k \in DOMAIN order |->
        [kind |-> heap[order[k]].kind,
         kids |-> [j \in DOMAIN heap[order[k]].kids |-> Number(heap[order[k]].kids[j])]]]

\* A date took a number that a later reference is counted past.
Shifted == \E d \in Written.dates, a \in Written.asked : a > d

(***************************************************************************)
(* Invariant.  What is read is what was stored: the same objects and arrays,  *)
(* shared and circular references included, and the cell shows an error only  *)
(* of a value JSON cannot write -- unless V8 had to pad a two-byte string, or *)
(* a date was numbered before an object that is referred to later.            *)
(***************************************************************************)
ShownIsStored ==
  shown # <<>> /\ ~Written.padded /\ ~Shifted =>
    /\ shown.nodes = Expected /\ shown.value = Ref(1)
    /\ shown.error = IF Printable(Expected, Ref(1), {}) THEN "" ELSE "JSON"
=============================================================================
