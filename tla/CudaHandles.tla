----------------------------- MODULE CudaHandles ----------------------------
(***************************************************************************)
(* Who owns what the CUDA runtime made: streams, events, graphs and        *)
(* executable graphs behind a unique_ptr (cuda_stream.h, cuda_graph.h,     *)
(* cuda_graph_exec.h), the memory of a cudaDeviceVector (cuda_memory.h),   *)
(* and the current device inside nested cudaScopedDevice (cuda_device.h).  *)
(*                                                                         *)
(* The program makes objects, moves them about, to themselves too, takes   *)
(* what is inside out of them and adopts what it made by other means.      *)
(***************************************************************************)
EXTENDS Integers, Sequences, FiniteSets, SequencesExt

CONSTANTS
    Slot,           \* places in which the program keeps objects
    Devices,        \* the devices, of which MinDevice is current at first
    MaxNatives,     \* bound on what the runtime makes
    MaxScopes       \* bound on the nested scopes

VARIABLES
    objects,    \* in each place the kind of the object and what it owns, Null for nothing
    natives,    \* what the runtime made: its kind, whether it captures, how often it was freed
    loose,      \* what the program holds outside of any object
    current,    \* the current device
    scopes      \* the open scopes: _p, and the device that was current before

handleVars == <<objects, natives, loose, current, scopes>>

Null == 0
Nothing == [kind |-> "none", native |-> Null]
Kinds == {"stream", "event", "graph", "exec", "vector"}
\* What the runtime returns for a kind, once it was made.
Native(kind) == [kind |-> kind, capturing |-> FALSE, freed |-> 0]
New == Len(natives) + 1
MinDevice == CHOOSE d \in Devices : \A e \in Devices : d <= e

Init ==
    /\ objects = [s \in Slot |-> Nothing]
    /\ natives = <<>> /\ loose = {}
    /\ current = MinDevice /\ scopes = <<>>

\* The deleter of the kind, and the destructor of a vector, for what is not null.
Freed(n) == IF n = Null THEN natives ELSE [natives EXCEPT ![n].freed = @ + 1]

-----------------------------------------------------------------------------
Make(kind) == /\ Len(natives) < MaxNatives
              /\ natives' = Append(natives, Native(kind))

Put(s, kind, n) == objects' = [objects EXCEPT ![s] = [kind |-> kind, native |-> n]]

MakeEvent(s)  == Put(s, "event", New) /\ Make("event")
MakeStream(s) == Put(s, "stream", New) /\ Make("stream")
MakeGraph(s)  == Put(s, "graph", New) /\ Make("graph")

\* The constructor of an executable graph from a graph, which keeps its owner.
Instantiate(s) ==
    /\ \E n \in DOMAIN natives : natives[n].kind = "graph" /\ natives[n].freed = 0
    /\ Put(s, "exec", New) /\ Make("exec")

MakeEmptyExec(s) == Put(s, "exec", Null) /\ UNCHANGED natives

\* The constructor of a vector of N elements allocates but for N = 0.
MakeVector(s, N) ==
    IF N # 0 THEN Put(s, "vector", New) /\ Make("vector")
    ELSE Put(s, "vector", Null) /\ UNCHANGED natives

Construct(s) ==
    /\ objects[s] = Nothing
    /\ \/ MakeEvent(s) \/ MakeStream(s) \/ MakeGraph(s)
       \/ Instantiate(s) \/ MakeEmptyExec(s)
       \/ \E N \in 0 .. 1 : MakeVector(s, N)
    /\ UNCHANGED <<loose, current, scopes>>

\* The creator that returns what it is given: the object becomes its owner.
Adopt(s, n) ==
    /\ objects[s] = Nothing
    /\ n \in loose
    /\ Put(s, natives[n].kind, n) /\ loose' = loose \ {n}
    /\ UNCHANGED <<natives, current, scopes>>

\* unique_ptr::release.
Release(s) ==
    /\ objects[s].kind \in Kinds \ {"vector"} /\ objects[s].native # Null
    /\ objects' = [objects EXCEPT ![s].native = Null]
    /\ loose' = loose \cup {objects[s].native}
    /\ UNCHANGED <<natives, current, scopes>>

MoveConstruct(s, from) ==
    /\ objects[s] = Nothing /\ objects[from] # Nothing
    /\ objects' = [objects EXCEPT ![s] = objects[from], ![from].native = Null]
    /\ UNCHANGED <<natives, loose, current, scopes>>

\* A unique_ptr takes the other's first and frees its own then, if they differ.
MoveHandle(s, from) ==
    /\ objects[s].kind # "vector"
    /\ IF s = from THEN UNCHANGED <<objects, natives>>
       ELSE /\ objects' = [objects EXCEPT ![s] = objects[from], ![from].native = Null]
            /\ natives' = Freed(objects[s].native)

\* A vector frees its own first, and then takes the other's, which is emptied.
MoveVector(s, from) ==
    /\ objects[s].kind = "vector"
    /\ natives' = Freed(objects[s].native)
    /\ objects' = [objects EXCEPT ![s] = objects[from], ![from].native = Null]

MoveAssign(s, from) ==
    /\ objects[s] # Nothing /\ objects[from].kind = objects[s].kind
    /\ MoveHandle(s, from) \/ MoveVector(s, from)
    /\ UNCHANGED <<loose, current, scopes>>

Destruct(s) ==
    /\ objects[s] # Nothing
    /\ natives' = Freed(objects[s].native)
    /\ objects' = [objects EXCEPT ![s] = Nothing]
    /\ UNCHANGED <<loose, current, scopes>>

-----------------------------------------------------------------------------
Capturing(s) == objects[s].native # Null /\ natives[objects[s].native].capturing

BeginCapture(s) ==
    /\ objects[s].kind = "stream" /\ objects[s].native # Null /\ ~Capturing(s)
    /\ natives' = [natives EXCEPT ![objects[s].native].capturing = TRUE]
    /\ UNCHANGED <<objects, loose, current, scopes>>

\* The graph that was captured belongs to the program.
EndCapture(s) ==
    /\ Capturing(s) /\ Len(natives) < MaxNatives
    /\ natives' = Append([natives EXCEPT ![objects[s].native].capturing = FALSE],
                         Native("graph"))
    /\ loose' = loose \cup {New}
    /\ UNCHANGED <<objects, current, scopes>>

-----------------------------------------------------------------------------
\* The constructor of a scope remembers no device when it has none to change.
OpenScope(dev) ==
    /\ Len(scopes) < MaxScopes
    /\ scopes' = Append(scopes, [p |-> IF current = dev THEN -1 ELSE current, was |-> current])
    /\ current' = dev
    /\ UNCHANGED <<objects, natives, loose>>

CloseScope ==
    /\ scopes # <<>>
    /\ current' = IF Last(scopes).p # -1 THEN Last(scopes).p ELSE current
    /\ scopes' = Front(scopes)
    /\ UNCHANGED <<objects, natives, loose>>

Next ==
    \/ \E s \in Slot :
          \/ Construct(s) \/ Release(s) \/ Destruct(s) \/ BeginCapture(s) \/ EndCapture(s)
          \/ \E n \in loose : Adopt(s, n)
          \/ \E from \in Slot : MoveConstruct(s, from) \/ MoveAssign(s, from)
    \/ (\E dev \in Devices : OpenScope(dev)) \/ CloseScope

-----------------------------------------------------------------------------
Owners(n) == {s \in Slot : objects[s].native = n} \cup {m \in loose : m = n}

\* What the runtime made is freed once, when its one owner lets go of it, and never
\* while another place refers to it, whatever is moved where (unique ownership).
OwnedOnce ==
    \A n \in DOMAIN natives :
        IF natives[n].freed = 0 THEN Cardinality(Owners(n)) = 1
        ELSE natives[n].freed = 1 /\ Owners(n) = {}

\* Leaving the scopes one after the other gets back to the devices they were opened
\* on (cudaScopedDevice).
Restored(k) == \* the device that is current when only k scopes are open
    FoldRight(LAMBDA scope, dev : IF scope.p # -1 THEN scope.p ELSE dev,
              SubSeq(scopes, k + 1, Len(scopes)), current)
ScopesRestore == \A k \in 0 .. Len(scopes) - 1 : Restored(k) = scopes[k + 1].was

HandlesExact == OwnedOnce /\ ScopesRestore
=============================================================================
