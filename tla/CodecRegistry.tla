---------------------------- MODULE CodecRegistry ----------------------------
(***************************************************************************)
(* The registry of codecs (bson/bsoncodec/registry.go), for encoders; the  *)
(* decoders have the same code once more, except that LookupDecoder        *)
(* refuses a nil type at once. A RegistryBuilder collects codecs for       *)
(* types, for interfaces (hooks) and for kinds; Build makes a Registry,    *)
(* which keeps every answer of a lookup in its map of types.               *)
(*                                                                         *)
(* Maps and the arrays under slices are shared by reference in Go, so they *)
(* are kept by address here: a builder and every registry have an address  *)
(* each, which maps and arrays are indexed by. The variable registered is  *)
(* what the application has registered, however the builder stores it.     *)
(***************************************************************************)
EXTENDS Integers, Sequences, FiniteSets

CONSTANTS
  Goroutines,
  MaxRegistrations,
  MaxRegistries,
  MaxLookups
ASSUME BoundsAssumption ==
  MaxRegistrations \in Nat /\ MaxRegistries \in Nat /\ MaxLookups \in Nat

VARIABLES
  maps,       \* the maps of types, by address
  arrays,     \* the arrays of hooks, by address
  kinds,      \* the maps of kinds, by address
  registered, \* what was registered with the builder
  built,      \* what was registered when a registry was built, by address
  registrations,
  lookups,
  looking,    \* what every goroutine looks up, where, and what it found
  answer      \* the last answer: registry, type and codec

crVars == <<maps, arrays, kinds, registered, built, registrations, lookups, looking, answer>>
-----------------------------------------------------------------------------
\* Three Go types besides nil, and two interfaces. A pointer to "account"
\* implements "first" and "account" itself "second"; "number" implements
\* neither; "pointer" is a pointer that implements "first".
GoTypes == {"account", "number", "pointer", "nil"}
Interfaces == {"first", "second"}
Kinds == {"struct", "int", "ptr"}
Kind(t) == IF t = "account" THEN "struct" ELSE IF t = "number" THEN "int" ELSE "ptr"
Implements(t, i) == <<t, i>> \in {<<"account", "second">>, <<"pointer", "first">>}
PointerImplements(t, i) == t = "account"

Absent == <<"absent">> \* no entry in the map
Nil == <<"nil">>       \* an entry that says that there is no encoder
NewCodec == <<"codec", registrations>> \* every registration brings another one
\* newCondAddrEncoder: one encoder for values with an address, one for others.
CondAddr(c, otherwise) == <<"conditional", c, otherwise>>

Builder == 1
Addresses == 1 .. MaxRegistries + 1
Empty == [types |-> [t \in GoTypes |-> Absent], hooks |-> <<>>,
          kinds |-> [k \in Kinds |-> Absent]]
NotBuilt == [at |-> 0]
Idle == [at |-> 0]

Init ==
  /\ maps = [a \in Addresses |-> Empty.types]
  /\ arrays = [a \in Addresses |-> Empty.hooks]
  /\ kinds = [a \in Addresses |-> Empty.kinds]
  /\ registered = Empty
  /\ built = [a \in Addresses |-> NotBuilt]
  /\ registrations = 0
  /\ lookups = 0
  /\ looking = [g \in Goroutines |-> Idle]
  /\ answer = <<>>

Register ==
  /\ registrations < MaxRegistrations
  /\ registrations' = registrations + 1
  /\ UNCHANGED <<built, lookups, looking, answer>>

\* RegisterTypeEncoder.
RegisterTypeEncoder(t) ==
  /\ Register
  /\ maps' = [maps EXCEPT ![Builder][t] = NewCodec]
  /\ registered' = [registered EXCEPT !.types[t] = NewCodec]
  /\ UNCHANGED <<arrays, kinds>>

\* RegisterHookEncoder replaces the encoder of an interface where it is, or
\* appends it.
AppendHook(hooks, i, c) == Append(hooks, [i |-> i, ve |-> c])
SetHook(hooks, i, c) ==
  IF \E n \in 1 .. Len(hooks) : hooks[n].i = i
    THEN [n \in 1 .. Len(hooks) |-> IF hooks[n].i = i THEN [i |-> i, ve |-> c] ELSE hooks[n]]
    ELSE Append(hooks, [i |-> i, ve |-> c])
RegisterHookEncoder(i) ==
  /\ Register
  /\ arrays' = [arrays EXCEPT ![Builder] = SetHook(@, i, NewCodec)]
  /\ registered' = [registered EXCEPT !.hooks = SetHook(@, i, NewCodec)]
  /\ UNCHANGED <<maps, kinds>>

RegisterDefaultEncoder(k) ==
  /\ Register
  /\ kinds' = [kinds EXCEPT ![Builder][k] = NewCodec]
  /\ registered' = [registered EXCEPT !.kinds[k] = NewCodec]
  /\ UNCHANGED <<maps, arrays>>

\* The address of the map of types that a new registry uses.
SharedMap(a) == Builder
OwnMap(a) == a

Build(a) ==
  /\ a # Builder /\ built[a] = NotBuilt
  /\ a - 1 = Builder \/ built[a - 1] # NotBuilt
  /\ maps' = [maps EXCEPT ![OwnMap(a)] = maps[Builder]]
  /\ arrays' = [arrays EXCEPT ![a] = arrays[Builder]]
  /\ kinds' = [kinds EXCEPT ![a] = kinds[Builder]]
  /\ built' = [built EXCEPT ![a] = registered]
  /\ UNCHANGED <<registered, registrations, lookups, looking, answer>>

\* lookupInterfaceEncoder without addresses, and with them.
First(S) == CHOOSE n \in S : \A m \in S : n <= m
Direct(a, t) == {n \in 1 .. Len(arrays[a]) : Implements(t, arrays[a][n].i)}
ByAddress(a, t) ==
  {n \in 1 .. Len(arrays[a]) : Kind(t) # "ptr" /\ PointerImplements(t, arrays[a][n].i)}
lookupInterfaceEncoder(a, t) ==
  LET hook(n) == arrays[a][n].ve
      all == Direct(a, t) \cup ByAddress(a, t)
      otherwise == IF Direct(a, t) # {} THEN hook(First(Direct(a, t))) ELSE kinds[a][Kind(t)]
  IN  IF t = "nil" \/ all = {} THEN Absent
      ELSE IF First(all) \in Direct(a, t) THEN hook(First(all))
      ELSE CondAddr(hook(First(all)), otherwise)

\* What LookupEncoder finds when its map has no entry.
Search(a, t) ==
  LET hook == lookupInterfaceEncoder(a, t)
  IN  IF hook # Absent THEN hook
      ELSE IF t = "nil" \/ kinds[a][Kind(t)] = Absent THEN Nil
      ELSE kinds[a][Kind(t)]

Answer(g, a, t, enc) ==
  /\ answer' = <<a, t, enc>>
  /\ looking' = [looking EXCEPT ![g] = Idle]

\* LookupEncoder reads the map under the read lock ...
LookupEncoder(g, a, t) ==
  /\ built[a] # NotBuilt /\ looking[g] = Idle /\ lookups < MaxLookups
  /\ lookups' = lookups + 1
  /\ LET enc == maps[OwnMap(a)][t]
     IN  IF enc # Absent
           THEN Answer(g, a, t, enc)
           ELSE /\ looking' = [looking EXCEPT ![g] = [at |-> a, t |-> t]]
                /\ UNCHANGED answer
  /\ UNCHANGED <<maps, arrays, kinds, registered, built, registrations>>

\* ... and writes what it found under the lock, after others may have.
StoreEncoder(g) ==
  LET a == looking[g].at
      t == looking[g].t
      enc == Search(a, t)
  IN  /\ looking[g] # Idle
      /\ maps' = [maps EXCEPT ![OwnMap(a)][t] = enc]
      /\ Answer(g, a, t, enc)
      /\ UNCHANGED <<arrays, kinds, registered, built, registrations, lookups>>

Next ==
  \/ \E t \in GoTypes : RegisterTypeEncoder(t)
  \/ \E i \in Interfaces : RegisterHookEncoder(i)
  \/ \E k \in Kinds : RegisterDefaultEncoder(k)
  \/ \E a \in Addresses : Build(a)
  \/ \E g \in Goroutines, a \in Addresses, t \in GoTypes : LookupEncoder(g, a, t)
  \/ \E g \in Goroutines : StoreEncoder(g)

Spec == Init /\ [][Next]_crVars
-----------------------------------------------------------------------------
(* The type invariant: a registry that was built has hooks for different   *)
(* interfaces, and the answer comes from one that was built.             *)
TypeOK ==
  /\ \A a \in Addresses : \A t \in GoTypes : Len(maps[a][t]) \in 1..3
  /\ \A a \in Addresses : \A m, n \in 1 .. Len(arrays[a]) :
       m # n => arrays[a][m].i # arrays[a][n].i
  /\ registrations \in 0 .. MaxRegistrations
  /\ lookups \in 0 .. MaxLookups
  /\ \A g \in Goroutines : looking[g].at \in Addresses \cup {0}
  /\ answer = <<>> \/ built[answer[1]] # NotBuilt

\* The precedence that LookupEncoder documents, of what was registered.
Hooks(b, P(_)) == {n \in 1 .. Len(b.hooks) : P(b.hooks[n].i)}
Documented(b, t) ==
  LET own(i) == t # "nil" /\ Implements(t, i)
      byPointer(i) == own(i) \/ (Kind(t) # "ptr" /\ PointerImplements(t, i))
      kind == IF t = "nil" THEN Absent ELSE b.kinds[Kind(t)]
      hook == b.hooks[First(Hooks(b, byPointer))]
      direct == IF Hooks(b, own) = {} THEN kind ELSE b.hooks[First(Hooks(b, own))].ve
  IN  IF b.types[t] # Absent THEN b.types[t]
      ELSE IF Hooks(b, byPointer) # {}
      THEN IF own(hook.i) THEN hook.ve ELSE CondAddr(hook.ve, direct)
      ELSE IF kind # Absent THEN kind
      ELSE Nil

(* A registry answers every lookup by the documented precedence, as of the *)
(* moment it was built: neither what the builder registers later, nor what *)
(* it or another registry keeps of earlier answers, nor other goroutines   *)
(* change that (registry.go, Build and LookupEncoder).                     *)
AnswersAsBuilt == answer # <<>> => answer[3] = Documented(built[answer[1]], answer[2])
=============================================================================
