---------------------------- MODULE AllocationTable ----------------------------
(***************************************************************************)
(* The table in which a debug context of src/string/avString.c keeps the   *)
(* string memories that are allocated: addAllocation, removeAllocation and *)
(* the StringDebugContext_T they work on.                                  *)
(*                                                                         *)
(* A memory keeps the id it was added under, while its position among the  *)
(* first count entries changes as others are removed: the last entry takes *)
(* the removed one's place.  memoryIndex gives the position of each id and *)
(* memoryReference the id at each position.                                *)
(***************************************************************************)
EXTENDS Naturals

CONSTANT NoMemory  (* the NULL of an entry not in use *)

Entries(t) == 0..(t.capacity - 1)

(* The table avStringDebugContextStart_ makes: STRING_DEBUG_INITIAL_CAPACITY is 1. *)
NewTable ==
    [count |-> 0, capacity |-> 1, memoryIndex |-> [i \in {0} |-> i],
     memoryReference |-> [i \in {0} |-> i], memories |-> [i \in {0} |-> NoMemory]]

(* A reallocated array: what f had, then what g has. *)
Extended(f, g) == [i \in DOMAIN g |-> IF i \in DOMAIN f THEN f[i] ELSE g[i]]

Doubled(t) ==
    LET slots == 0..(2 * t.capacity - 1)
    IN [count |-> t.count, capacity |-> 2 * t.capacity,
        memoryIndex |-> Extended(t.memoryIndex, [i \in slots |-> i]),
        memoryReference |-> Extended(t.memoryReference, [i \in slots |-> i]),
        memories |-> Extended(t.memories, [i \in slots |-> NoMemory])]

WithRoom(t) == IF t.count >= t.capacity THEN Doubled(t) ELSE t

(* The id the next memory is added under. *)
NextId(t) == WithRoom(t).memoryReference[t.count]

(* addAllocation *)
Added(t, m) ==
    LET r == WithRoom(t)
    IN [count |-> t.count + 1, capacity |-> r.capacity, memoryIndex |-> r.memoryIndex,
        memoryReference |-> r.memoryReference, memories |-> [r.memories EXCEPT ![t.count] = m]]

(* The tests removeAllocation makes before it touches the table. *)
Holds(t, m, id) ==
    /\ id \in Entries(t)
    /\ t.memoryIndex[id] < t.count
    /\ t.memories[t.memoryIndex[id]] = m

(* Mutation: the removed id is not given the position that becomes free. *)
RemovedForgotten(t, id) ==
    LET index == t.memoryIndex[id]
        last == t.count - 1
    IN [count |-> last, capacity |-> t.capacity,
        memoryIndex |-> [t.memoryIndex EXCEPT ![t.memoryReference[last]] = index],
        memoryReference |-> [t.memoryReference EXCEPT ![index] = t.memoryReference[last]],
        memories |-> [t.memories EXCEPT ![index] = t.memories[last], ![last] = NoMemory]]

(* removeAllocation.  The code returns early when the entry is the last    *)
(* one: the assignments below then leave both index arrays as they are.    *)
Removed(t, id) ==
    LET index == t.memoryIndex[id]
        last == t.count - 1
        lastId == t.memoryReference[last]
    IN [count |-> last, capacity |-> t.capacity,
        memoryIndex |-> [t.memoryIndex EXCEPT ![lastId] = index, ![id] = last],
        memoryReference |-> [t.memoryReference EXCEPT ![last] = id, ![index] = lastId],
        memories |-> [t.memories EXCEPT ![index] = t.memories[last], ![last] = NoMemory]]

(* The two index arrays are inverse to each other, and the entries in use  *)
(* are the first count ones: what addAllocation asserts after each call.   *)
Sound(t) ==
    /\ t.count \in 0..t.capacity
    /\ \A i \in Entries(t) : /\ t.memoryReference[i] \in Entries(t)
                             /\ t.memoryIndex[t.memoryReference[i]] = i
                             /\ t.memories[i] = NoMemory <=> i >= t.count
================================================================================
