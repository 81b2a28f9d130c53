----------------------------- MODULE DataProofs -----------------------------
(***************************************************************************)
(* Proofs about CodecRegistry and ServerSelection, which MCData checks in  *)
(* one run.                                                                *)
(*                                                                         *)
(* A registry answers as it was built. Inv says that the builder keeps     *)
(* what was registered with it, that a registry keeps what the builder had *)
(* when it was built, and that the entries it adds to its map of types are *)
(* those that a lookup would find again. The properties of CodecRegistry   *)
(* are parts of it.                                                        *)
(*                                                                         *)
(* A server is selected as it was asked for. SelectionInv says how old     *)
(* descriptions may be; what SelectServer returns follows from it, since   *)
(* every bound that the selectors compute is one on what they cannot see.  *)
(***************************************************************************)
EXTENDS CodecRegistry, ServerSelection, FiniteSetTheorems, NaturalsInduction, WellFoundedInduction, TLAPS

Base == {"codec"} \X Nat
Entry == Base \cup {Absent}
Conditional == {"conditional"} \X Base \X Entry
Found == Entry \cup {Nil} \cup Conditional
HookRecord == [i : Interfaces, ve : Base]
Registered == [types : [GoTypes -> Entry], hooks : Seq(HookRecord), kinds : [Kinds -> Entry]]
Lookup == [at : Addresses, t : GoTypes]

Differ(hooks) == \A m, n \in 1 .. Len(hooks) : m # n => hooks[m].i # hooks[n].i

(* The types of the variables, and that no interface has two hooks. *)
Types ==
  /\ maps \in [Addresses -> [GoTypes -> Found]]
  /\ arrays \in [Addresses -> Seq(HookRecord)]
  /\ kinds \in [Addresses -> [Kinds -> Entry]]
  /\ registered \in Registered
  /\ built \in [Addresses -> Registered \cup {NotBuilt}]
  /\ registrations \in 0 .. MaxRegistrations
  /\ lookups \in 0 .. MaxLookups
  /\ looking \in [Goroutines -> Lookup \cup {Idle}]
  /\ \A a \in Addresses : Differ(arrays[a])

(* The builder stores what was registered with it, and is no registry. *)
BuilderInv ==
  /\ built[Builder] = NotBuilt
  /\ maps[Builder] = registered.types
  /\ arrays[Builder] = registered.hooks
  /\ kinds[Builder] = registered.kinds

(* A registry has the hooks and kinds it was built with; an entry of its   *)
(* map is the documented answer, and where it has none a lookup searches,  *)
(* for no codec was registered for the type.                               *)
KeepsTypes(a) ==
  \A t \in GoTypes :
    /\ maps[a][t] # Absent => maps[a][t] = Documented(built[a], t)
    /\ maps[a][t] = Absent => built[a].types[t] = Absent
CopyInv ==
  \A a \in Addresses : built[a] # NotBuilt =>
    arrays[a] = built[a].hooks /\ kinds[a] = built[a].kinds /\ KeepsTypes(a)

(* A goroutine between its two locks looks for what the registry that it   *)
(* asks was not given.                                                     *)
LookInv ==
  \A g \in Goroutines : looking[g] # Idle =>
    /\ built[looking[g].at] # NotBuilt
    /\ built[looking[g].at].types[looking[g].t] = Absent

AnswerInv ==
  answer # <<>> =>
    /\ answer[1] \in Addresses /\ answer[2] \in GoTypes
    /\ built[answer[1]] # NotBuilt
    /\ answer[3] = Documented(built[answer[1]], answer[2])

Inv == Types /\ BuilderInv /\ CopyInv /\ LookInv /\ AnswerInv

-----------------------------------------------------------------------------
(* Entries, answers and records of different kinds are never equal. *)
LEMMA EntriesDiffer ==
  /\ Absent # Nil
  /\ \A c \in Base : c # Absent /\ c # Nil /\ Len(c) = 2
  /\ \A c \in Base, d \in Entry : CondAddr(c, d) \in Conditional
  /\ \A c \in Conditional : c # Absent /\ c # Nil /\ Len(c) = 3
  /\ Len(Absent) = 1 /\ Len(Nil) = 1
<1>1. Absent # Nil /\ Len(Absent) = 1 /\ Len(Nil) = 1
  BY DEF Absent, Nil
<1>2. ASSUME NEW c \in Base
      PROVE  c # Absent /\ c # Nil /\ Len(c) = 2
  <2>1. PICK n \in Nat : c = <<"codec", n>>
    BY DEF Base
  <2> QED
    BY <2>1 DEF Absent, Nil
<1>3. \A c \in Base, d \in Entry : CondAddr(c, d) \in Conditional
  BY DEF CondAddr, Conditional
<1>4. ASSUME NEW c \in Conditional
      PROVE  c # Absent /\ c # Nil /\ Len(c) = 3
  <2>1. PICK b \in Base, d \in Entry : c = <<"conditional", b, d>>
    BY DEF Conditional
  <2> HIDE DEF Base, Entry
  <2> QED
    BY <2>1 DEF Absent, Nil
<1> QED
  BY <1>1, <1>2, <1>3, <1>4

(* What was registered is not the mark of an address without a registry. *)
LEMMA BuiltDiffers ==
  ASSUME NEW b \in Registered
  PROVE  b # NotBuilt
<1>1. DOMAIN b = {"types", "hooks", "kinds"}
  BY DEF Registered
<1>2. DOMAIN NotBuilt = {"at"}
  BY DEF NotBuilt
<1> QED
  BY <1>1, <1>2

(* A lookup under way is not the mark of an idle goroutine. *)
LEMMA LookupDiffers ==
  ASSUME NEW l \in Lookup
  PROVE  l # Idle
BY BoundsAssumption DEF Lookup, Idle, Addresses

(* First finds a member of a set of positions that is not empty. *)
LEMMA FirstIsMember ==
  ASSUME NEW T \in SUBSET Nat, T # {}
  PROVE  First(T) \in T
<1> DEFINE R == {ss \in Nat \X Nat : ss[1] < ss[2]}
<1>1. IsWellFoundedOn(R, Nat)
  BY NatLessThanWellFounded DEF OpToRel
<1>2. \A x, y \in Nat : <<y, x>> \in R <=> y < x
  OBVIOUS
<1> HIDE DEF R
<1>3. \E x \in T : \A y \in T : ~(<<y, x>> \in R)
  BY <1>1, WFMin
<1>4. PICK x \in T : \A y \in T : ~(<<y, x>> \in R)
  BY <1>3
<1>5. x \in Nat /\ \A y \in T : y \in Nat /\ ~(y < x)
  BY <1>2, <1>4
<1>6. \A y \in T : x <= y
  BY <1>5
<1> QED
  BY <1>6 DEF First

-----------------------------------------------------------------------------
(* SetHook keeps a list of hooks, with one for each interface. *)
LEMMA SetHookKeeps ==
  ASSUME NEW hooks \in Seq(HookRecord), Differ(hooks),
         NEW i \in Interfaces, NEW c \in Base
  PROVE  SetHook(hooks, i, c) \in Seq(HookRecord) /\ Differ(SetHook(hooks, i, c))
<1> DEFINE h == [i |-> i, ve |-> c]
<1>1. h \in HookRecord /\ h.i = i
  BY DEF HookRecord
<1>2. \A n \in 1 .. Len(hooks) : hooks[n] \in HookRecord
  OBVIOUS
<1> HIDE DEF h
<1>3. CASE \E n \in 1 .. Len(hooks) : hooks[n].i = i
  <2> DEFINE s == [n \in 1 .. Len(hooks) |-> IF hooks[n].i = i THEN h ELSE hooks[n]]
  <2>1. SetHook(hooks, i, c) = s
    BY <1>3 DEF SetHook, h
  <2>2. s \in Seq(HookRecord) /\ Len(s) = Len(hooks)
    BY <1>1, <1>2
  <2>3. \A n \in 1 .. Len(hooks) : s[n].i = hooks[n].i
    BY <1>1
  <2> HIDE DEF s
  <2> QED
    BY <2>1, <2>2, <2>3 DEF Differ
<1>4. CASE ~ \E n \in 1 .. Len(hooks) : hooks[n].i = i
  <2> DEFINE s == Append(hooks, h)
  <2>1. SetHook(hooks, i, c) = s
    BY <1>4 DEF SetHook, h
  <2>2. s \in Seq(HookRecord) /\ Len(s) = Len(hooks) + 1
    BY <1>1
  <2>3. \A n \in 1 .. Len(s) : s[n] = IF n = Len(hooks) + 1 THEN h ELSE hooks[n]
    OBVIOUS
  <2> HIDE DEF s
  <2>4. ASSUME NEW m \in 1 .. Len(s), NEW n \in 1 .. Len(s), m # n
        PROVE  s[m].i # s[n].i
    <3>1. CASE m = Len(hooks) + 1
      BY <1>1, <1>4, <2>2, <2>3, <2>4, <3>1
    <3>2. CASE n = Len(hooks) + 1
      BY <1>1, <1>4, <2>2, <2>3, <2>4, <3>2
    <3>3. CASE m # Len(hooks) + 1 /\ n # Len(hooks) + 1
      BY <2>2, <2>3, <2>4, <3>3 DEF Differ
    <3> QED
      BY <3>1, <3>2, <3>3
  <2> QED
    BY <2>1, <2>2, <2>4 DEF Differ
<1> QED
  BY <1>3, <1>4


(* A search through hooks and kinds finds what the precedence documents    *)
(* for a type without a codec of its own, and always finds something.      *)
LEMMA SearchIsDocumented ==
  ASSUME NEW a, NEW b \in Registered, NEW t \in GoTypes,
         arrays[a] = b.hooks, kinds[a] = b.kinds, b.types[t] = Absent
  PROVE  Search(a, t) = Documented(b, t) /\ Search(a, t) \in Found \ {Absent}
<1> DEFINE own(i) == t # "nil" /\ Implements(t, i)
           byPointer(i) == own(i) \/ (Kind(t) # "ptr" /\ PointerImplements(t, i))
           D == Direct(a, t)
           all == Direct(a, t) \cup ByAddress(a, t)
           kind == IF t = "nil" THEN Absent ELSE b.kinds[Kind(t)]
           direct == IF D = {} THEN kind ELSE b.hooks[First(D)].ve
<1>1. /\ t = "nil" => Kind(t) = "ptr" /\ \A i \in Interfaces : ~Implements(t, i)
      /\ Kind(t) \in Kinds
  BY DEF Kind, Kinds, Implements, GoTypes
<1>2. \A n \in 1 .. Len(b.hooks) : b.hooks[n].i \in Interfaces /\ b.hooks[n].ve \in Base
  <2>1. b.hooks \in Seq(HookRecord)
    BY DEF Registered
  <2>2. \A n \in 1 .. Len(b.hooks) : b.hooks[n] \in HookRecord
    BY <2>1
  <2> QED
    BY <2>2 DEF HookRecord
<1>3. kind \in Entry /\ b.kinds[Kind(t)] \in Entry
  BY <1>1 DEF Registered, Entry
<1>4. Hooks(b, own) = D
  <2>1. Hooks(b, own) = {n \in 1 .. Len(b.hooks) : t # "nil" /\ Implements(t, b.hooks[n].i)}
    BY DEF Hooks
  <2>2. \A n \in 1 .. Len(b.hooks) :
          (t # "nil" /\ Implements(t, b.hooks[n].i)) <=> Implements(t, b.hooks[n].i)
    BY <1>1, <1>2
  <2> QED
    BY <2>1, <2>2 DEF Direct
<1>5. Hooks(b, byPointer) = all
  <2> DEFINE P == {n \in 1 .. Len(b.hooks) :
                     (t # "nil" /\ Implements(t, b.hooks[n].i))
                       \/ (Kind(t) # "ptr" /\ PointerImplements(t, b.hooks[n].i))}
  <2>1. Hooks(b, byPointer) = P
    BY DEF Hooks
  <2>2. \A n \in 1 .. Len(b.hooks) :
          (t # "nil" /\ Implements(t, b.hooks[n].i)) <=> Implements(t, b.hooks[n].i)
    BY <1>1, <1>2
  <2>3. P = all
    BY <2>2 DEF Direct, ByAddress
  <2> QED
    BY <2>1, <2>3
<1>6. D \subseteq 1 .. Len(b.hooks) /\ all \subseteq 1 .. Len(b.hooks) /\ D \subseteq all
  BY DEF Direct, ByAddress
<1>7. t = "nil" => all = {}
  BY <1>1, <1>2 DEF Direct, ByAddress
<1>8. (D # {} => First(D) \in D) /\ (all # {} => First(all) \in all)
  BY <1>6, FirstIsMember
<1>9. direct \in Entry
  BY <1>2, <1>3, <1>6, <1>8 DEF Entry
<1>10. Documented(b, t) =
         IF all # {} THEN IF own(b.hooks[First(all)].i) THEN b.hooks[First(all)].ve
                          ELSE CondAddr(b.hooks[First(all)].ve, direct)
         ELSE IF kind # Absent THEN kind ELSE Nil
  BY <1>4, <1>5 DEF Documented
<1>11. all # {} => (own(b.hooks[First(all)].i) <=> First(all) \in D)
  BY <1>1, <1>6, <1>7, <1>8 DEF Direct
<1>12. lookupInterfaceEncoder(a, t) =
         IF all = {} THEN Absent
         ELSE IF First(all) \in D THEN b.hooks[First(all)].ve
         ELSE CondAddr(b.hooks[First(all)].ve, direct)
  BY <1>7 DEF lookupInterfaceEncoder
<1>13. Search(a, t) = IF lookupInterfaceEncoder(a, t) # Absent THEN lookupInterfaceEncoder(a, t)
                      ELSE IF kind = Absent THEN Nil ELSE kind
  BY DEF Search
<1> HIDE DEF own, byPointer, D, all, kind, direct
<1>14. CASE all = {}
  BY <1>3, <1>10, <1>12, <1>13, <1>14, EntriesDiffer DEF Found, Entry
<1>15. CASE all # {}
  <2> DEFINE ve == b.hooks[First(all)].ve
  <2>1. ve \in Base
    BY <1>2, <1>6, <1>8, <1>15
  <2>2. CondAddr(ve, direct) \in Conditional
    BY <1>9, <2>1, EntriesDiffer
  <2>3. /\ lookupInterfaceEncoder(a, t) = IF First(all) \in D THEN ve ELSE CondAddr(ve, direct)
        /\ Documented(b, t) = IF First(all) \in D THEN ve ELSE CondAddr(ve, direct)
    BY <1>10, <1>11, <1>12, <1>15
  <2> HIDE DEF ve
  <2>4. ve \in Found \ {Absent} /\ CondAddr(ve, direct) \in Found \ {Absent}
    BY <2>1, <2>2, EntriesDiffer DEF Found, Entry
  <2> QED
    BY <1>13, <2>3, <2>4
<1> QED
  BY <1>14, <1>15

(* A type with a codec of its own has that one.                            *)
LEMMA OwnIsDocumented ==
  ASSUME NEW b, NEW t, b.types[t] # Absent
  PROVE  Documented(b, t) = b.types[t]
BY DEF Documented

-----------------------------------------------------------------------------
(* At the start nothing is registered and nothing built. *)
LEMMA InitInv ==
  ASSUME Init
  PROVE  Inv
<1>1. Builder \in Addresses
  BY BoundsAssumption DEF Builder, Addresses
<1>2. Empty \in Registered
  BY DEF Empty, Registered, Entry
<1>3. Empty.types \in [GoTypes -> Found]
  BY DEF Empty, Found, Entry
<1>4. Differ(Empty.hooks)
  BY DEF Differ, Empty
<1>5. Empty.kinds \in [Kinds -> Entry] /\ Empty.hooks \in Seq(HookRecord)
  BY <1>2 DEF Registered
<1> HIDE DEF Empty
<1>6. Types
  BY <1>2, <1>3, <1>4, <1>5, BoundsAssumption DEF Types, Init
<1>7. BuilderInv
  BY <1>1 DEF BuilderInv, Init
<1>8. CopyInv /\ LookInv /\ AnswerInv
  BY DEF CopyInv, LookInv, AnswerInv, Init
<1> QED
  BY <1>6, <1>7, <1>8 DEF Inv


(* What no registration touches: registries, lookups and answers.         *)
LEMMA RegisterKeeps ==
  ASSUME Inv, Register,
         \A a \in Addresses \ {Builder} :
           maps'[a] = maps[a] /\ arrays'[a] = arrays[a] /\ kinds'[a] = kinds[a]
  PROVE  /\ CopyInv' /\ LookInv' /\ AnswerInv'
         /\ registrations' \in 0 .. MaxRegistrations /\ lookups' \in 0 .. MaxLookups
         /\ NewCodec \in Base
         /\ built' = built /\ looking' = looking
<1>1. built' = built /\ lookups' = lookups /\ looking' = looking /\ answer' = answer
  BY DEF Register
<1>2. registrations \in 0 .. MaxRegistrations /\ lookups \in 0 .. MaxLookups
  BY DEF Inv, Types
<1>3. registrations' \in 0 .. MaxRegistrations
  BY <1>2, BoundsAssumption DEF Register
<1>4. NewCodec \in Base
  BY <1>2, BoundsAssumption DEF NewCodec, Base
<1>5. \A a \in Addresses : built[a] # NotBuilt => a \in Addresses \ {Builder}
  BY DEF Inv, BuilderInv
<1>6. CopyInv'
  BY <1>1, <1>5 DEF CopyInv, KeepsTypes, Inv
<1>7. LookInv' /\ AnswerInv'
  BY <1>1 DEF LookInv, AnswerInv, Inv
<1> QED
  BY <1>1, <1>2, <1>3, <1>4, <1>6, <1>7

(* The builder's address is one. *)
LEMMA BuilderAddress == Builder \in Addresses
BY BoundsAssumption DEF Builder, Addresses

(* RegisterTypeEncoder keeps the invariant. *)
LEMMA RegisterTypeInv ==
  ASSUME Inv, NEW t \in GoTypes, RegisterTypeEncoder(t)
  PROVE  Inv'
<1> USE BuilderAddress
<1>a. /\ Register /\ arrays' = arrays /\ kinds' = kinds
      /\ maps' = [maps EXCEPT ![Builder][t] = NewCodec]
      /\ registered' = [registered EXCEPT !.types[t] = NewCodec]
  BY DEF RegisterTypeEncoder
<1>b. Types /\ BuilderInv
  BY DEF Inv
<1>1. maps \in [Addresses -> [GoTypes -> Found]]
  BY <1>b DEF Types
<1>2. \A a \in Addresses \ {Builder} : maps'[a] = maps[a]
  BY <1>a, <1>1
<1>3. /\ CopyInv' /\ LookInv' /\ AnswerInv'
      /\ registrations' \in 0 .. MaxRegistrations /\ lookups' \in 0 .. MaxLookups
      /\ NewCodec \in Base
      /\ built' = built /\ looking' = looking
  BY <1>a, <1>2, RegisterKeeps
<1>4. NewCodec \in Base
  BY <1>3
<1> HIDE DEF NewCodec
<1>5. NewCodec \in Found /\ NewCodec \in Entry
  BY <1>4 DEF Found, Entry
<1>6. maps' \in [Addresses -> [GoTypes -> Found]]
  BY <1>a, <1>1, <1>5
<1>7. registered \in Registered
  BY <1>b DEF Types
<1>8. /\ registered' \in Registered
      /\ registered'.types = [registered.types EXCEPT ![t] = NewCodec]
      /\ registered'.hooks = registered.hooks /\ registered'.kinds = registered.kinds
  BY <1>a, <1>5, <1>7 DEF Registered
<1>9. Types'
  BY <1>a, <1>b, <1>3, <1>6, <1>8 DEF Types
<1>10. BuilderInv'
  BY <1>a, <1>b, <1>1, <1>3, <1>8 DEF BuilderInv
<1> QED
  BY <1>3, <1>9, <1>10 DEF Inv

(* RegisterHookEncoder keeps the invariant. *)
LEMMA RegisterHookInv ==
  ASSUME Inv, NEW i \in Interfaces, RegisterHookEncoder(i)
  PROVE  Inv'
<1> USE BuilderAddress
<1>a. /\ Register /\ maps' = maps /\ kinds' = kinds
      /\ arrays' = [arrays EXCEPT ![Builder] = SetHook(@, i, NewCodec)]
      /\ registered' = [registered EXCEPT !.hooks = SetHook(@, i, NewCodec)]
  BY DEF RegisterHookEncoder
<1>b. Types /\ BuilderInv
  BY DEF Inv
<1>1. arrays \in [Addresses -> Seq(HookRecord)] /\ Differ(arrays[Builder])
  BY <1>b DEF Types
<1>2. \A a \in Addresses \ {Builder} : arrays'[a] = arrays[a]
  BY <1>a, <1>1
<1>3. /\ CopyInv' /\ LookInv' /\ AnswerInv'
      /\ registrations' \in 0 .. MaxRegistrations /\ lookups' \in 0 .. MaxLookups
      /\ NewCodec \in Base
      /\ built' = built /\ looking' = looking
  BY <1>a, <1>2, RegisterKeeps
<1>4. NewCodec \in Base
  BY <1>3
<1> DEFINE hooks == SetHook(arrays[Builder], i, NewCodec)
<1>5. hooks \in Seq(HookRecord) /\ Differ(hooks)
  BY <1>1, <1>4, SetHookKeeps
<1>6. registered \in Registered /\ registered.hooks = arrays[Builder]
  BY <1>b DEF Types, BuilderInv
<1>7. arrays' = [arrays EXCEPT ![Builder] = hooks]
  BY <1>a
<1>8. registered' = [registered EXCEPT !.hooks = hooks]
  BY <1>a, <1>6
<1> HIDE DEF hooks
<1>9. /\ arrays' \in [Addresses -> Seq(HookRecord)]
      /\ arrays'[Builder] = hooks
      /\ \A a \in Addresses : Differ(arrays'[a])
  BY <1>b, <1>1, <1>2, <1>5, <1>7 DEF Types
<1>10. /\ registered' \in Registered /\ registered'.hooks = hooks
       /\ registered'.types = registered.types /\ registered'.kinds = registered.kinds
  BY <1>5, <1>6, <1>8 DEF Registered
<1>11. Types'
  BY <1>a, <1>b, <1>3, <1>9, <1>10 DEF Types
<1>12. BuilderInv'
  BY <1>a, <1>b, <1>3, <1>9, <1>10 DEF BuilderInv
<1> QED
  BY <1>3, <1>11, <1>12 DEF Inv

(* RegisterDefaultEncoder keeps the invariant. *)
LEMMA RegisterDefaultInv ==
  ASSUME Inv, NEW k \in Kinds, RegisterDefaultEncoder(k)
  PROVE  Inv'
<1> USE BuilderAddress
<1>a. /\ Register /\ maps' = maps /\ arrays' = arrays
      /\ kinds' = [kinds EXCEPT ![Builder][k] = NewCodec]
      /\ registered' = [registered EXCEPT !.kinds[k] = NewCodec]
  BY DEF RegisterDefaultEncoder
<1>b. Types /\ BuilderInv
  BY DEF Inv
<1>1. kinds \in [Addresses -> [Kinds -> Entry]]
  BY <1>b DEF Types
<1>2. \A a \in Addresses \ {Builder} : kinds'[a] = kinds[a]
  BY <1>a, <1>1
<1>3. /\ CopyInv' /\ LookInv' /\ AnswerInv'
      /\ registrations' \in 0 .. MaxRegistrations /\ lookups' \in 0 .. MaxLookups
      /\ NewCodec \in Base
      /\ built' = built /\ looking' = looking
  BY <1>a, <1>2, RegisterKeeps
<1>4. NewCodec \in Entry
  BY <1>3 DEF Entry
<1> HIDE DEF NewCodec
<1>5. kinds' \in [Addresses -> [Kinds -> Entry]]
  BY <1>a, <1>1, <1>4
<1>6. registered \in Registered
  BY <1>b DEF Types
<1>7. /\ registered' \in Registered
      /\ registered'.kinds = [registered.kinds EXCEPT ![k] = NewCodec]
      /\ registered'.hooks = registered.hooks /\ registered'.types = registered.types
  BY <1>a, <1>4, <1>6 DEF Registered
<1>8. Types'
  BY <1>a, <1>b, <1>3, <1>5, <1>7 DEF Types
<1>9. BuilderInv'
  BY <1>a, <1>b, <1>1, <1>3, <1>7 DEF BuilderInv
<1> QED
  BY <1>3, <1>8, <1>9 DEF Inv


(* Build keeps the invariant: the registry starts with copies of what the  *)
(* builder has, which is what was registered.                              *)
LEMMA BuildInv ==
  ASSUME Inv, NEW a \in Addresses, Build(a)
  PROVE  Inv'
<1> USE BuilderAddress
<1>a. /\ a # Builder /\ built[a] = NotBuilt
      /\ maps' = [maps EXCEPT ![a] = maps[Builder]]
      /\ arrays' = [arrays EXCEPT ![a] = arrays[Builder]]
      /\ kinds' = [kinds EXCEPT ![a] = kinds[Builder]]
      /\ built' = [built EXCEPT ![a] = registered]
      /\ UNCHANGED <<registered, registrations, lookups, looking, answer>>
  BY DEF Build, OwnMap
<1>b. Types /\ BuilderInv /\ CopyInv /\ LookInv /\ AnswerInv
  BY DEF Inv
<1>1. Types'
  BY <1>a, <1>b DEF Types
<1>2. /\ maps'[a] = registered.types /\ arrays'[a] = registered.hooks
      /\ kinds'[a] = registered.kinds /\ built'[a] = registered
  BY <1>a, <1>b DEF Types, BuilderInv
<1>3. \A x \in Addresses : x # a =>
        maps'[x] = maps[x] /\ arrays'[x] = arrays[x] /\ kinds'[x] = kinds[x] /\ built'[x] = built[x]
  BY <1>a, <1>b DEF Types
<1>4. BuilderInv'
  BY <1>a, <1>b, <1>3 DEF BuilderInv
<1>5. ASSUME NEW x \in Addresses, built'[x] # NotBuilt
      PROVE  arrays'[x] = built'[x].hooks /\ kinds'[x] = built'[x].kinds /\ KeepsTypes(x)'
  <2>1. CASE x = a
    <3>1. ASSUME NEW t \in GoTypes
          PROVE  /\ maps'[a][t] # Absent => maps'[a][t] = Documented(built'[a], t)
                 /\ maps'[a][t] = Absent => built'[a].types[t] = Absent
      BY <1>2, OwnIsDocumented
    <3> QED
      BY <1>2, <2>1, <3>1 DEF KeepsTypes
  <2>2. CASE x # a
    BY <1>b, <1>3, <1>5, <2>2 DEF CopyInv, KeepsTypes
  <2> QED
    BY <2>1, <2>2
<1>6. CopyInv'
  BY <1>5 DEF CopyInv
<1>7. LookInv'
  <2> SUFFICES ASSUME NEW g \in Goroutines, looking[g] # Idle
               PROVE  /\ built'[looking[g].at] # NotBuilt
                      /\ built'[looking[g].at].types[looking[g].t] = Absent
    BY <1>a DEF LookInv
  <2>1. looking[g].at \in Addresses
    BY <1>b DEF Types, Lookup
  <2> QED
    BY <1>a, <1>b, <1>3, <2>1 DEF LookInv
<1>8. AnswerInv'
  BY <1>a, <1>b, <1>3 DEF AnswerInv
<1> QED
  BY <1>1, <1>4, <1>6, <1>7, <1>8 DEF Inv

(* An answer that is the documented one keeps what is said of answers and  *)
(* of the goroutines that look up.                                         *)
LEMMA AnswerKeeps ==
  ASSUME Inv, NEW g \in Goroutines, NEW a \in Addresses, NEW t \in GoTypes, NEW enc,
         built[a] # NotBuilt, enc = Documented(built[a], t), Answer(g, a, t, enc),
         built' = built
  PROVE  AnswerInv' /\ LookInv' /\ looking' \in [Goroutines -> Lookup \cup {Idle}]
<1>1. looking \in [Goroutines -> Lookup \cup {Idle}]
  BY DEF Inv, Types
<1>2. answer' = <<a, t, enc>> /\ looking' = [looking EXCEPT ![g] = Idle]
  BY DEF Answer
<1>3. AnswerInv'
  BY <1>2 DEF AnswerInv
<1>4. looking' \in [Goroutines -> Lookup \cup {Idle}]
  BY <1>1, <1>2
<1>5. \A h \in Goroutines : looking'[h] # Idle => looking'[h] = looking[h]
  BY <1>1, <1>2
<1>6. LookInv'
  BY <1>5 DEF LookInv, Inv
<1> QED
  BY <1>3, <1>4, <1>6

(* The read of the map in LookupEncoder keeps the invariant. *)
LEMMA LookupInv ==
  ASSUME Inv, NEW g \in Goroutines, NEW a \in Addresses, NEW t \in GoTypes,
         LookupEncoder(g, a, t)
  PROVE  Inv'
<1>a. /\ built[a] # NotBuilt /\ lookups < MaxLookups /\ lookups' = lookups + 1
      /\ UNCHANGED <<maps, arrays, kinds, registered, built, registrations>>
  BY DEF LookupEncoder
<1>b. Types /\ BuilderInv /\ CopyInv /\ LookInv /\ AnswerInv
  BY DEF Inv
<1>1. lookups' \in 0 .. MaxLookups
  BY <1>a, <1>b, BoundsAssumption DEF Types
<1>2. BuilderInv' /\ CopyInv'
  BY <1>a, <1>b DEF BuilderInv, CopyInv, KeepsTypes
<1>3. KeepsTypes(a)
  BY <1>a, <1>b DEF CopyInv
<1>4. AnswerInv' /\ LookInv' /\ looking' \in [Goroutines -> Lookup \cup {Idle}]
  <2>1. CASE maps[a][t] # Absent
    <3>1. Answer(g, a, t, maps[a][t])
      BY <2>1 DEF LookupEncoder, OwnMap
    <3>2. maps[a][t] = Documented(built[a], t)
      BY <1>3, <2>1 DEF KeepsTypes
    <3> QED
      BY <1>a, <3>1, <3>2, AnswerKeeps
  <2>2. CASE maps[a][t] = Absent
    <3>1. looking' = [looking EXCEPT ![g] = [at |-> a, t |-> t]] /\ answer' = answer
      BY <2>2 DEF LookupEncoder, OwnMap
    <3> DEFINE l == [at |-> a, t |-> t]
    <3>2. l \in Lookup /\ l.at = a /\ l.t = t
      BY DEF Lookup
    <3>3. looking' = [looking EXCEPT ![g] = l]
      BY <3>1
    <3> HIDE DEF l
    <3>4. looking \in [Goroutines -> Lookup \cup {Idle}]
      BY <1>b DEF Types
    <3>5. looking' \in [Goroutines -> Lookup \cup {Idle}]
      BY <3>2, <3>3, <3>4
    <3>6. built[a].types[t] = Absent
      BY <1>3, <2>2 DEF KeepsTypes
    <3>7. \A h \in Goroutines : looking'[h] = IF h = g THEN l ELSE looking[h]
      BY <3>3, <3>4
    <3>8. LookInv'
      BY <1>a, <1>b, <3>2, <3>6, <3>7 DEF LookInv
    <3>9. AnswerInv'
      BY <1>a, <1>b, <3>1 DEF AnswerInv
    <3> QED
      BY <3>5, <3>8, <3>9
  <2> QED
    BY <2>1, <2>2
<1>5. Types'
  BY <1>a, <1>b, <1>1, <1>4 DEF Types
<1> QED
  BY <1>2, <1>4, <1>5 DEF Inv

(* Storing what was found keeps the invariant, also when another goroutine *)
(* has stored an entry since the map was read: it is the same.             *)
LEMMA StoreInv ==
  ASSUME Inv, NEW g \in Goroutines, StoreEncoder(g)
  PROVE  Inv'
<1>b. Types /\ BuilderInv /\ CopyInv /\ LookInv /\ AnswerInv
  BY DEF Inv
<1> DEFINE a == looking[g].at
           t == looking[g].t
           enc == Search(a, t)
<1>a. /\ looking[g] # Idle /\ maps' = [maps EXCEPT ![a][t] = enc]
      /\ Answer(g, a, t, enc)
      /\ UNCHANGED <<arrays, kinds, registered, built, registrations, lookups>>
  BY DEF StoreEncoder, OwnMap
<1>1. a \in Addresses /\ t \in GoTypes
  BY <1>a, <1>b DEF Types, Lookup
<1>2. built[a] # NotBuilt /\ built[a].types[t] = Absent
  BY <1>a, <1>b DEF LookInv
<1>3. arrays[a] = built[a].hooks /\ kinds[a] = built[a].kinds /\ KeepsTypes(a)
  BY <1>b, <1>1, <1>2 DEF CopyInv
<1>4. built[a] \in Registered
  BY <1>b, <1>1, <1>2 DEF Types
<1>5. enc = Documented(built[a], t) /\ enc \in Found /\ enc # Absent
  BY <1>1, <1>2, <1>3, <1>4, SearchIsDocumented
<1>6. a # Builder
  BY <1>b, <1>2 DEF BuilderInv
<1> HIDE DEF a, t, enc
<1>7. AnswerInv' /\ LookInv' /\ looking' \in [Goroutines -> Lookup \cup {Idle}]
  BY <1>a, <1>1, <1>2, <1>5, AnswerKeeps
<1>8. maps \in [Addresses -> [GoTypes -> Found]]
  BY <1>b DEF Types
<1>9. maps' \in [Addresses -> [GoTypes -> Found]]
  BY <1>a, <1>1, <1>5, <1>8
<1>10. \A x \in Addresses, y \in GoTypes :
         maps'[x][y] = IF x = a /\ y = t THEN enc ELSE maps[x][y]
  BY <1>a, <1>1, <1>8
<1>11. maps'[Builder] = maps[Builder]
  BY <1>a, <1>6, <1>8, BuilderAddress
<1>12. Types'
  BY <1>a, <1>b, <1>7, <1>9 DEF Types
<1>13. BuilderInv'
  BY <1>a, <1>b, <1>11 DEF BuilderInv
<1>14. ASSUME NEW x \in Addresses, built[x] # NotBuilt
       PROVE  KeepsTypes(x)'
  <2>1. KeepsTypes(x)
    BY <1>b, <1>14 DEF CopyInv
  <2> QED
    BY <1>a, <1>5, <1>10, <2>1 DEF KeepsTypes
<1>15. CopyInv'
  BY <1>a, <1>b, <1>14 DEF CopyInv
<1> QED
  BY <1>7, <1>12, <1>13, <1>15 DEF Inv

(* Every step keeps the invariant. *)
LEMMA StepInv ==
  ASSUME Inv, [Next]_crVars
  PROVE  Inv'
<1>1. CASE UNCHANGED crVars
  BY <1>1 DEF crVars, Inv, Types, BuilderInv, CopyInv, KeepsTypes, LookInv, AnswerInv
<1>2. CASE \E t \in GoTypes : RegisterTypeEncoder(t)
  BY <1>2, RegisterTypeInv
<1>3. CASE \E i \in Interfaces : RegisterHookEncoder(i)
  BY <1>3, RegisterHookInv
<1>4. CASE \E k \in Kinds : RegisterDefaultEncoder(k)
  BY <1>4, RegisterDefaultInv
<1>5. CASE \E a \in Addresses : Build(a)
  BY <1>5, BuildInv
<1>6. CASE \E g \in Goroutines, a \in Addresses, t \in GoTypes : LookupEncoder(g, a, t)
  BY <1>6, LookupInv
<1>7. CASE \E g \in Goroutines : StoreEncoder(g)
  BY <1>7, StoreInv
<1> QED
  BY <1>1, <1>2, <1>3, <1>4, <1>5, <1>6, <1>7 DEF Next

(* The invariant implies the type invariant of the runs. *)
LEMMA InvTypes ==
  ASSUME Inv
  PROVE  TypeOK
<1>1. Types /\ AnswerInv
  BY DEF Inv
<1>2. \A c \in Found : Len(c) \in 1 .. 3
  BY EntriesDiffer DEF Found, Entry
<1>3. \A a \in Addresses : \A t \in GoTypes : Len(maps[a][t]) \in 1 .. 3
  <2>1. \A a \in Addresses, t \in GoTypes : maps[a][t] \in Found
    BY <1>1 DEF Types
  <2> QED
    BY <1>2, <2>1
<1>4. \A a \in Addresses : \A m, n \in 1 .. Len(arrays[a]) :
        m # n => arrays[a][m].i # arrays[a][n].i
  BY <1>1 DEF Types, Differ
<1>5. \A g \in Goroutines : looking[g].at \in Addresses \cup {0}
  BY <1>1 DEF Types, Lookup, Idle
<1>6. answer = <<>> \/ built[answer[1]] # NotBuilt
  BY <1>1 DEF AnswerInv
<1>7. registrations \in 0 .. MaxRegistrations /\ lookups \in 0 .. MaxLookups
  BY <1>1 DEF Types
<1> QED
  BY <1>3, <1>4, <1>5, <1>6, <1>7 DEF TypeOK

-----------------------------------------------------------------------------
(* The invariant holds always: Spec starts in it and every step keeps it.  *)
THEOREM InvAlways == Spec => []Inv
<1>1. Init => Inv
  BY InitInv
<1>2. Inv /\ [Next]_crVars => Inv'
  BY StepInv
<1> QED
  BY <1>1, <1>2, PTL DEF Spec

(* The builder never has two hooks for one interface, nor has a registry,  *)
(* and every answer is that of a registry that was built (registry.go,     *)
(* RegisterHookEncoder and LookupEncoder), for any number of goroutines,   *)
(* registries, registrations and lookups.                                  *)
THEOREM TypeCorrect == Spec => []TypeOK
<1>1. Inv => TypeOK
  BY InvTypes
<1> QED
  BY <1>1, InvAlways, PTL

(* A registry answers every lookup by the documented precedence of what    *)
(* was registered when it was built: its maps are its own, a cached answer *)
(* is the one a new search would find, and two goroutines that miss the    *)
(* cache at once store the same (registry.go, Build, LookupEncoder and     *)
(* lookupInterfaceEncoder).                                                *)
THEOREM RegistryAnswersAsBuilt == Spec => []AnswersAsBuilt
<1>1. Inv => AnswersAsBuilt
  BY DEF Inv, AnswerInv, AnswersAsBuilt
<1> QED
  BY <1>1, InvAlways, PTL

-----------------------------------------------------------------------------
(* What server selection knows of the replica set: a description says      *)
(* nothing that the server had not written, it is not older than a         *)
(* heartbeat interval, the primary's write time is not older than an idle  *)
(* write period, and neither is that of its description when it was made.  *)
Views ==
  /\ \A s \in Servers :
       /\ ssWrite[s] <= ssNow /\ ssView[s].lastWrite <= ssWrite[s]
       /\ ssView[s].kind # "Unknown" => ssNow <= ssView[s].lastUpdate + HeartbeatInterval
       /\ s = "primary" => ssView[s].kind # "RSSecondary"
       /\ s # "primary" => ssView[s].kind # "RSPrimary"
  /\ ssAlive => ssNow <= ssWrite["primary"] + IdleWritePeriod
  /\ ssView["primary"].kind # "Unknown" =>
       ssView["primary"].lastUpdate <= ssView["primary"].lastWrite + IdleWritePeriod
SelectionInv == SelectionTypeOK /\ Views

(* The descriptions of servers. *)
ViewType == [kind : {"Unknown", "RSPrimary", "RSSecondary"}, lastWrite : 0 .. MaxNow,
             lastUpdate : 0 .. MaxNow, profile : Profiles]

(* The numbers, one by one. *)
LEMMA ViewTypes ==
  ASSUME SelectionTypeOK
  PROVE  /\ MaxNow \in Nat /\ HeartbeatInterval \in Nat /\ IdleWritePeriod \in Nat
         /\ ssNow \in Int /\ 0 <= ssNow /\ ssNow <= MaxNow /\ ssAlive \in BOOLEAN
         /\ "primary" \in Servers
         /\ \A s \in Servers : /\ ssWrite[s] \in Int /\ 0 <= ssWrite[s] /\ ssWrite[s] <= MaxNow
                               /\ ssView[s].lastWrite \in Int /\ ssView[s].lastUpdate \in Int
                               /\ ssView[s].kind \in {"Unknown", "RSPrimary", "RSSecondary"}
                               /\ ssView[s].profile \in Profiles
<1>1. MaxNow \in Nat /\ HeartbeatInterval \in Nat /\ IdleWritePeriod \in Nat
  BY SelectionAssumption
<1>2. ssNow \in 0 .. MaxNow /\ ssAlive \in BOOLEAN
  BY DEF SelectionTypeOK
<1>3. "primary" \in Servers
  BY DEF Servers
<1>4. \A s \in Servers : ssWrite[s] \in 0 .. MaxNow /\ ssView[s] \in ViewType
  BY DEF SelectionTypeOK, ViewType
<1>5. ASSUME NEW s \in Servers
      PROVE  /\ ssWrite[s] \in Int /\ 0 <= ssWrite[s] /\ ssWrite[s] <= MaxNow
             /\ ssView[s].lastWrite \in Int /\ ssView[s].lastUpdate \in Int
             /\ ssView[s].kind \in {"Unknown", "RSPrimary", "RSSecondary"}
             /\ ssView[s].profile \in Profiles
  BY <1>1, <1>4 DEF ViewType
<1> QED
  BY <1>1, <1>2, <1>3, <1>5

(* The description of a server of which nothing is known. *)
LEMMA UnknownType == Unknown \in ViewType /\ Unknown.kind = "Unknown" /\ Unknown.lastWrite = 0
<1>1. PICK p : p = CHOOSE q \in Profiles : TRUE
  OBVIOUS
<1>2. p \in Profiles
  BY <1>1, SelectionAssumption
<1>3. Unknown = [kind |-> "Unknown", lastWrite |-> 0, lastUpdate |-> 0, profile |-> p]
  BY <1>1 DEF Unknown
<1>4. 0 \in 0 .. MaxNow
  BY SelectionAssumption
<1> QED
  BY <1>2, <1>3, <1>4 DEF ViewType

(* The invariant holds before anything is known. *)
LEMMA SelectionInitGood == SelectionInit => SelectionInv
<1>1. SUFFICES ASSUME SelectionInit PROVE SelectionInv
  OBVIOUS
<1>2. MaxNow \in Nat /\ IdleWritePeriod \in Nat /\ "primary" \in Servers
  BY SelectionAssumption DEF Servers
<1>3. ssNow = 0 /\ ssAlive = TRUE /\ ssWrite = [s \in Servers |-> 0] /\ ssView = [s \in Servers |-> Unknown]
  BY <1>1 DEF SelectionInit
<1>4. SelectionTypeOK
  <2>1. ssNow \in 0 .. MaxNow /\ ssWrite \in [Servers -> 0 .. MaxNow]
    BY <1>2, <1>3
  <2>2. ssAlive \in BOOLEAN
    BY <1>3, Zenon
  <2>3. ssView \in [Servers -> ViewType]
    BY <1>3, UnknownType
  <2> QED
    BY <2>1, <2>2, <2>3 DEF SelectionTypeOK, ViewType
<1>5. Views
  <2>1. \A s \in Servers : ssWrite[s] = 0 /\ ssView[s].lastWrite = 0 /\ ssView[s].kind = "Unknown"
    BY <1>3, UnknownType
  <2> QED
    BY <1>2, <1>3, <2>1 DEF Views
<1> QED
  BY <1>4, <1>5 DEF SelectionInv

(* Time passes, where no heartbeat and no write is due. *)
LEMMA TickStep ==
  ASSUME SelectionInv, Tick
  PROVE  SelectionInv'
<1>1. SelectionTypeOK /\ Views
  BY DEF SelectionInv
<1>2. /\ ssNow < MaxNow /\ ssNow' = ssNow + 1 /\ ssAlive' = ssAlive /\ ssWrite' = ssWrite
      /\ ssView' = ssView /\ (ssAlive => ssNow < ssWrite["primary"] + IdleWritePeriod)
      /\ \A s \in Servers : ssView[s].kind # "Unknown" => ssNow < ssView[s].lastUpdate + HeartbeatInterval
  BY DEF Tick
<1>3. /\ MaxNow \in Nat /\ HeartbeatInterval \in Nat /\ IdleWritePeriod \in Nat
      /\ ssNow \in Int /\ 0 <= ssNow /\ ssNow <= MaxNow /\ "primary" \in Servers
      /\ \A s \in Servers : ssWrite[s] \in Int /\ ssView[s].lastUpdate \in Int
  BY <1>1, ViewTypes
<1>4. SelectionTypeOK'
  <2>1. ssNow' \in 0 .. MaxNow
    BY <1>2, <1>3
  <2> QED
    BY <1>1, <1>2, <2>1 DEF SelectionTypeOK
<1>5. Views'
  <2>1. ASSUME NEW s \in Servers
        PROVE  /\ ssWrite[s] <= ssNow'
               /\ ssView[s].kind # "Unknown" => ssNow' <= ssView[s].lastUpdate + HeartbeatInterval
    <3>1. ssWrite[s] <= ssNow /\ ssWrite[s] \in Int /\ ssView[s].lastUpdate \in Int
      BY <1>1, <1>3 DEF Views
    <3>2. ssView[s].kind # "Unknown" => ssNow < ssView[s].lastUpdate + HeartbeatInterval
      BY <1>2
    <3> QED
      BY <1>2, <1>3, <3>1, <3>2
  <2>2. ssAlive => ssNow' <= ssWrite["primary"] + IdleWritePeriod
    BY <1>2, <1>3
  <2> QED
    BY <1>1, <1>2, <2>1, <2>2 DEF Views
<1> QED
  BY <1>4, <1>5 DEF SelectionInv

(* A server has a later write than before. *)
LEMMA LaterWriteStep ==
  ASSUME SelectionInv, NEW t \in Int, NEW s \in Servers, ssWrite[s] <= t, t <= ssNow,
         ssWrite' = [ssWrite EXCEPT ![s] = t], UNCHANGED <<ssNow, ssAlive, ssView>>
  PROVE  SelectionInv'
<1>1. SelectionTypeOK /\ Views
  BY DEF SelectionInv
<1>2. ssNow' = ssNow /\ ssAlive' = ssAlive /\ ssView' = ssView
  OBVIOUS
<1>3. /\ MaxNow \in Nat /\ IdleWritePeriod \in Nat /\ ssNow \in Int /\ ssNow <= MaxNow
      /\ "primary" \in Servers
      /\ \A o \in Servers : ssWrite[o] \in Int /\ 0 <= ssWrite[o] /\ ssView[o].lastWrite \in Int
  BY <1>1, ViewTypes
<1>4. t \in 0 .. MaxNow
  BY <1>3
<1>5. ssWrite \in [Servers -> 0 .. MaxNow]
  BY <1>1 DEF SelectionTypeOK
<1>6. ssWrite' \in [Servers -> 0 .. MaxNow] /\ \A o \in Servers : ssWrite'[o] = IF o = s THEN t ELSE ssWrite[o]
  BY <1>4, <1>5
<1>7. SelectionTypeOK'
  BY <1>1, <1>2, <1>6 DEF SelectionTypeOK
<1>8. \A o \in Servers : ssWrite'[o] \in Int /\ ssWrite[o] <= ssWrite'[o] /\ ssWrite'[o] <= ssNow
  BY <1>1, <1>3, <1>6 DEF Views
<1>9. Views'
  <2>1. \A o \in Servers : ssWrite'[o] <= ssNow /\ ssView[o].lastWrite <= ssWrite'[o]
    <3>1. SUFFICES ASSUME NEW o \in Servers PROVE ssWrite'[o] <= ssNow /\ ssView[o].lastWrite <= ssWrite'[o]
      OBVIOUS
    <3>2. ssView[o].lastWrite <= ssWrite[o]
      BY <1>1 DEF Views
    <3> QED
      BY <1>3, <1>8, <3>2
  <2>2. ssAlive => ssNow <= ssWrite'["primary"] + IdleWritePeriod
    <3>1. ssAlive => ssNow <= ssWrite["primary"] + IdleWritePeriod
      BY <1>1 DEF Views
    <3> QED
      BY <1>3, <1>8, <3>1
  <2> QED
    BY <1>1, <1>2, <2>1, <2>2 DEF Views
<1> QED
  BY <1>7, <1>9 DEF SelectionInv

(* The primary writes, and a secondary copies what it wrote. *)
LEMMA WritesStep ==
  ASSUME SelectionInv, WriteAtPrimary \/ \E s \in Secondaries : Replicate(s)
  PROVE  SelectionInv'
<1>1. /\ ssNow \in Int /\ "primary" \in Servers /\ Secondaries \subseteq Servers
      /\ \A s \in Servers : ssWrite[s] \in Int /\ ssWrite[s] <= ssNow
  BY ViewTypes DEF SelectionInv, Views, Servers
<1>2. CASE WriteAtPrimary
  <2>1. ssWrite' = [ssWrite EXCEPT !["primary"] = ssNow] /\ UNCHANGED <<ssNow, ssAlive, ssView>>
    BY <1>2 DEF WriteAtPrimary
  <2>2. ssWrite["primary"] <= ssNow /\ ssNow <= ssNow
    BY <1>1
  <2> QED
    BY <1>1, <2>1, <2>2, LaterWriteStep
<1>3. ASSUME NEW s \in Secondaries, Replicate(s) PROVE SelectionInv'
  <2>1. PICK t \in {ssWrite["primary"], ssWrite[s] + 1} : ssWrite' = [ssWrite EXCEPT ![s] = t]
    BY <1>3 DEF Replicate
  <2>2. ssWrite[s] < ssWrite["primary"] /\ UNCHANGED <<ssNow, ssAlive, ssView>>
    BY <1>3 DEF Replicate
  <2>3. t \in Int /\ ssWrite[s] <= t /\ t <= ssNow /\ s \in Servers
    BY <1>1, <2>2
  <2> QED
    BY <2>1, <2>2, <2>3, LaterWriteStep
<1> QED
  BY <1>2, <1>3

(* The description of a server is replaced, by that of a heartbeat or by   *)
(* one that says nothing.                                                  *)
LEMMA NewViewStep ==
  ASSUME SelectionInv, NEW s \in Servers, NEW d \in ViewType, ssView' = [ssView EXCEPT ![s] = d],
         ssNow' = ssNow, ssWrite' = ssWrite, ssAlive' \in BOOLEAN, ssAlive' => ssAlive,
         d.lastWrite <= ssWrite[s], d.kind # "Unknown" => ssNow <= d.lastUpdate + HeartbeatInterval,
         s = "primary" => d.kind # "RSSecondary", s # "primary" => d.kind # "RSPrimary",
         s = "primary" /\ d.kind # "Unknown" => d.lastUpdate <= d.lastWrite + IdleWritePeriod
  PROVE  SelectionInv'
<1>1. SelectionTypeOK /\ Views
  BY DEF SelectionInv
<1>2. ssView \in [Servers -> ViewType] /\ "primary" \in Servers
  BY <1>1 DEF SelectionTypeOK, ViewType, Servers
<1>3. ssView' \in [Servers -> ViewType] /\ \A o \in Servers : ssView'[o] = IF o = s THEN d ELSE ssView[o]
  BY <1>2
<1>4. SelectionTypeOK'
  BY <1>1, <1>3 DEF SelectionTypeOK, ViewType
<1>5. Views'
  <2>1. ASSUME NEW o \in Servers
        PROVE  /\ ssWrite[o] <= ssNow /\ ssView'[o].lastWrite <= ssWrite[o]
               /\ ssView'[o].kind # "Unknown" => ssNow <= ssView'[o].lastUpdate + HeartbeatInterval
               /\ o = "primary" => ssView'[o].kind # "RSSecondary"
               /\ o # "primary" => ssView'[o].kind # "RSPrimary"
    BY <1>1, <1>3 DEF Views
  <2>2. ssView'["primary"].kind # "Unknown" =>
          ssView'["primary"].lastUpdate <= ssView'["primary"].lastWrite + IdleWritePeriod
    BY <1>1, <1>2, <1>3 DEF Views
  <2>3. ssAlive' => ssNow <= ssWrite["primary"] + IdleWritePeriod
    BY <1>1 DEF Views
  <2> QED
    BY <2>1, <2>2, <2>3 DEF Views
<1> QED
  BY <1>4, <1>5 DEF SelectionInv

(* A heartbeat, and the failure of the primary. *)
LEMMA HeartbeatStep ==
  ASSUME SelectionInv, PrimaryFails \/ \E s \in Servers, profile \in Profiles : Heartbeat(s, profile)
  PROVE  SelectionInv'
<1>1. SelectionTypeOK /\ Views
  BY DEF SelectionInv
<1>2. /\ MaxNow \in Nat /\ HeartbeatInterval \in Nat /\ IdleWritePeriod \in Nat /\ ssNow \in Int
      /\ 0 <= ssNow /\ ssNow <= MaxNow /\ ssAlive \in BOOLEAN /\ "primary" \in Servers
      /\ \A s \in Servers : ssWrite[s] \in Int /\ 0 <= ssWrite[s] /\ ssWrite[s] <= MaxNow
  BY <1>1, ViewTypes
<1>3. CASE PrimaryFails
  <2>1. /\ ssAlive' = FALSE /\ ssView' = [ssView EXCEPT !["primary"] = Unknown] /\ ssNow' = ssNow
        /\ ssWrite' = ssWrite
    BY <1>3 DEF PrimaryFails
  <2>2. ssAlive' \in BOOLEAN /\ (ssAlive' => ssAlive)
    BY <2>1, Zenon
  <2> QED
    BY <1>2, <2>1, <2>2, UnknownType, NewViewStep
<1>4. ASSUME NEW s \in Servers, NEW profile \in Profiles, Heartbeat(s, profile) PROVE SelectionInv'
  <2>1. PICK k : k = IF s = "primary" THEN "RSPrimary" ELSE "RSSecondary"
    OBVIOUS
  <2>2. PICK d : d = [kind |-> k, lastWrite |-> ssWrite[s], lastUpdate |-> ssNow, profile |-> profile]
    OBVIOUS
  <2>3. /\ ssView' = [ssView EXCEPT ![s] = d] /\ ssNow' = ssNow /\ ssWrite' = ssWrite
        /\ ssAlive' = ssAlive /\ (s = "primary" => ssAlive)
    BY <1>4, <2>1, <2>2 DEF Heartbeat, NewServer
  <2>4. ssNow \in 0 .. MaxNow /\ ssWrite[s] \in 0 .. MaxNow
    BY <1>2
  <2>5. /\ d \in ViewType /\ d.kind = k /\ d.lastWrite = ssWrite[s] /\ d.lastUpdate = ssNow
    BY <2>1, <2>2, <2>4 DEF ViewType
  <2>6. s = "primary" => ssNow <= ssWrite[s] + IdleWritePeriod
    BY <1>1, <2>3 DEF Views
  <2>7. ssAlive' \in BOOLEAN /\ (ssAlive' => ssAlive)
    BY <1>2, <2>3
  <2>8. /\ d.lastWrite <= ssWrite[s] /\ ssNow <= d.lastUpdate + HeartbeatInterval
        /\ s = "primary" => d.lastUpdate <= d.lastWrite + IdleWritePeriod
    BY <1>2, <2>5, <2>6
  <2>9. (s = "primary" => d.kind # "RSSecondary") /\ (s # "primary" => d.kind # "RSPrimary")
    BY <2>1, <2>5
  <2> QED
    BY <2>3, <2>5, <2>7, <2>8, <2>9, NewViewStep
<1> QED
  BY <1>3, <1>4

(* Every step of the replica set and its monitors keeps the invariant. *)
LEMMA SelectionStep ==
  ASSUME SelectionInv, [SelectionNext]_ssVars
  PROVE  SelectionInv'
<1>1. CASE Tick
  BY <1>1, TickStep
<1>2. CASE WriteAtPrimary \/ \E s \in Secondaries : Replicate(s)
  BY <1>2, WritesStep
<1>3. CASE PrimaryFails \/ \E s \in Servers, profile \in Profiles : Heartbeat(s, profile)
  BY <1>3, HeartbeatStep
<1>4. CASE UNCHANGED ssVars
  <2>1. ssNow' = ssNow /\ ssAlive' = ssAlive /\ ssWrite' = ssWrite /\ ssView' = ssView
    BY <1>4 DEF ssVars
  <2> QED
    BY <2>1 DEF SelectionInv, SelectionTypeOK, Views
<1> QED
  BY <1>1, <1>2, <1>3, <1>4 DEF SelectionNext

-----------------------------------------------------------------------------
(* Min finds the least element of a set of natural numbers. *)
LEMMA LeastElement ==
  ASSUME NEW T \in SUBSET Nat, T # {}
  PROVE  Min(T) \in T /\ \A y \in T : Min(T) <= y
<1> DEFINE R == {ss \in Nat \X Nat : ss[1] < ss[2]}
<1>1. IsWellFoundedOn(R, Nat)
  BY NatLessThanWellFounded DEF OpToRel
<1>2. \A x, y \in Nat : <<y, x>> \in R <=> y < x
  OBVIOUS
<1> HIDE DEF R
<1>3. \E x \in T : \A y \in T : ~(<<y, x>> \in R)
  BY <1>1, WFMin
<1>4. PICK x \in T : \A y \in T : ~(<<y, x>> \in R)
  BY <1>3
<1>5. x \in Nat /\ \A y \in T : y \in Nat /\ ~(y < x)
  BY <1>2, <1>4
<1>6. \A y \in T : x <= y
  BY <1>5
<1> QED
  BY <1>6 DEF Min

(* The latency window never leaves nothing, nor a faster server out. *)
LEMMA WindowIsRight ==
  ASSUME SelectionTypeOK, NEW S \in SUBSET Servers
  PROVE  /\ LatencySelector(S) \subseteq S /\ FastestSuitable(S, LatencySelector(S))
         /\ S = {"primary"} => LatencySelector(S) = {"primary"}
<1> DEFINE rtt(s) == ssView[s].profile.rtt
           timed == {s \in S : rtt(s) # NoRTT}
           times == {rtt(o) : o \in timed}
           window == {s \in timed : rtt(s) <= Min(times) + LocalThreshold}
<1>1. LatencySelector(S) = IF Cardinality(S) < 2 \/ timed = {} THEN S ELSE window
  BY DEF LatencySelector
<1>2. \A s \in S : rtt(s) \in Nat \cup {NoRTT}
  <2>1. \A s \in S : ssView[s].profile \in Profiles
    BY ViewTypes
  <2> QED
    BY <2>1, SelectionAssumption
<1>3. times \in SUBSET Nat /\ LocalThreshold \in Nat
  BY <1>2, SelectionAssumption
<1>4. LatencySelector(S) \subseteq S
  BY <1>1
<1>5. S = {"primary"} => LatencySelector(S) = {"primary"}
  <2>1. Cardinality({"primary"}) = 1
    BY FS_Singleton
  <2> QED
    BY <1>1, <2>1
<1>6. FastestSuitable(S, LatencySelector(S))
  <2>1. CASE LatencySelector(S) = S
    BY <2>1 DEF FastestSuitable
  <2>2. CASE LatencySelector(S) # S
    <3>1. timed # {} /\ LatencySelector(S) = window
      BY <1>1, <2>2
    <3>2. times # {}
      BY <3>1
    <3>3. Min(times) \in times /\ \A y \in times : Min(times) <= y
      BY <1>3, <3>2, LeastElement
    <3>4. PICK least : least = Min(times)
      OBVIOUS
    <3>5. least \in Nat /\ least \in times
      BY <1>3, <3>3, <3>4
    <3>6. PICK f \in timed : rtt(f) = least
      BY <3>5
    <3>7. f \in window
      BY <1>3, <3>4, <3>5, <3>6
    <3>8. ASSUME NEW s \in window, NEW o \in S \ window
          PROVE  rtt(o) = NoRTT \/ rtt(o) > rtt(s)
      <4>1. rtt(s) \in Nat /\ rtt(s) <= least + LocalThreshold
        BY <1>2, <3>4, <3>8
      <4>2. rtt(o) = NoRTT \/ (rtt(o) \in Nat /\ ~(rtt(o) <= least + LocalThreshold))
        BY <1>2, <3>4, <3>8
      <4> QED
        BY <1>3, <3>5, <4>1, <4>2
    <3> QED
      BY <3>1, <3>7, <3>8 DEF FastestSuitable
  <2> QED
    BY <2>1, <2>2
<1> QED
  BY <1>4, <1>5, <1>6

(* A tag set is used only where none before it matches. *)
LEMMA TagSetsInOrder ==
  ASSUME NEW C, NEW l \in TagSetLists
  PROVE  /\ selectByTagSet(C, l) \subseteq C /\ (l = <<>> => selectByTagSet(C, l) = C)
         /\ \A o \in C, i \in DOMAIN l : Has(o, l[i]) =>
              /\ selectByTagSet(C, l) # {}
              /\ \A s \in selectByTagSet(C, l) : \E j \in 1 .. i : Has(s, l[j])
<1> DEFINE matching == {i \in DOMAIN l : Tagged(C, l[i]) # {} \/ l[i] = {}}
<1>1. selectByTagSet(C, l) = IF l = <<>> THEN C
                             ELSE IF matching = {} THEN {} ELSE Tagged(C, l[Min(matching)])
  BY DEF selectByTagSet
<1>2. \A tags : Tagged(C, tags) \subseteq C /\ \A s \in C : s \in Tagged(C, tags) <=> Has(s, tags)
  BY DEF Tagged, Has
<1>3. selectByTagSet(C, l) \subseteq C /\ (l = <<>> => selectByTagSet(C, l) = C)
  BY <1>1, <1>2
<1>4. ASSUME NEW o \in C, NEW i \in DOMAIN l, Has(o, l[i])
      PROVE  /\ selectByTagSet(C, l) # {}
             /\ \A s \in selectByTagSet(C, l) : \E j \in 1 .. i : Has(s, l[j])
  <2>1. DOMAIN l = 1 .. Len(l) /\ Len(l) \in Nat
    BY SelectionAssumption
  <2>2. l # <<>>
    BY <1>4
  <2>3. i \in matching
    BY <1>2, <1>4
  <2>4. matching \in SUBSET Nat
    BY <2>1
  <2>5. PICK m : m = Min(matching)
    OBVIOUS
  <2>6. m \in matching /\ m <= i
    BY <2>3, <2>4, <2>5, LeastElement
  <2>7. m \in 1 .. i /\ selectByTagSet(C, l) = Tagged(C, l[m])
    <3>1. m \in 1 .. i
      <4>1. i \in 1 .. Len(l) /\ m \in 1 .. Len(l)
        BY <2>1, <2>6
      <4> QED
        BY <2>1, <2>6, <4>1
    <3>2. selectByTagSet(C, l) = Tagged(C, l[m])
      <4>1. matching # {}
        BY <2>3
      <4> HIDE DEF matching
      <4> QED
        BY <1>1, <2>2, <2>5, <4>1
    <3> QED
      BY <3>1, <3>2
  <2>8. selectByTagSet(C, l) # {}
    <3>1. CASE Tagged(C, l[m]) # {}
      BY <2>7, <3>1
    <3>2. CASE l[m] = {}
      BY <1>2, <2>7, <3>2 DEF Has
    <3> QED
      BY <2>6, <3>1, <3>2
  <2>9. \A s \in selectByTagSet(C, l) : Has(s, l[m])
    BY <1>2, <2>7
  <2> QED
    BY <2>7, <2>8, <2>9
<1> QED
  BY <1>3, <1>4

(* Of what is known, the primary is one server at most, and the            *)
(* secondaries are the others.                                             *)
LEMMA KindsKnown ==
  ASSUME SelectionInv
  PROVE  /\ selectByKind(Known, "RSPrimary") = IF "primary" \in Known THEN {"primary"} ELSE {}
         /\ selectByKind(Known, "RSSecondary") = Known \ {"primary"}
         /\ Known \subseteq Servers
<1>1. \A s \in Servers : /\ ssView[s].kind \in {"Unknown", "RSPrimary", "RSSecondary"}
                         /\ s = "primary" => ssView[s].kind # "RSSecondary"
                         /\ s # "primary" => ssView[s].kind # "RSPrimary"
  BY ViewTypes DEF SelectionInv, Views
<1> QED
  BY <1>1 DEF selectByKind, Known

(* What is left of the servers by a read preference that is not refused. *)
LEMMA WhatIsSuitable ==
  ASSUME SelectionInv, NEW rp \in ReadPrefs, ~Refused(rp, Known)
  PROVE  LET primaries == IF "primary" \in Known THEN {"primary"} ELSE {}
             secondaries == selectSecondaries(rp, Known)
             tagged == selectByTagSet(secondaries, rp.tagSets)
         IN  /\ Suitable(rp) \in {primaries, tagged, selectByTagSet(primaries \cup secondaries, rp.tagSets)}
             /\ rp.mode = "primary" => Suitable(rp) = primaries
             /\ rp.mode = "primaryPreferred" =>
                  Suitable(rp) = IF primaries # {} THEN primaries ELSE tagged
             /\ rp.mode = "secondaryPreferred" =>
                  Suitable(rp) = IF tagged # {} THEN tagged ELSE primaries
             /\ rp.mode = "secondary" => Suitable(rp) = tagged
             /\ rp.mode = "nearest" =>
                  Suitable(rp) = selectByTagSet(primaries \cup secondaries, rp.tagSets)
             /\ secondaries \subseteq Known \ {"primary"}
             /\ rp.maxStaleness = NoStaleness => secondaries = Known \ {"primary"}
             /\ rp.mode \in Modes /\ rp.tagSets \in TagSetLists
<1>1. rp.mode \in Modes /\ rp.tagSets \in TagSetLists
  BY DEF ReadPrefs
<1>2. selectByKind(Known, "RSPrimary") = IF "primary" \in Known THEN {"primary"} ELSE {}
  BY KindsKnown
<1>3. /\ selectSecondaries(rp, Known) \subseteq Known \ {"primary"}
      /\ rp.maxStaleness = NoStaleness => selectSecondaries(rp, Known) = Known \ {"primary"}
  <2>1. selectByKind(Known, "RSSecondary") = Known \ {"primary"}
    BY KindsKnown
  <2> QED
    BY <2>1 DEF selectSecondaries
<1>4. Suitable(rp) = selectForReplicaSet(rp, Known)
  BY DEF Suitable
<1> QED
  BY <1>1, <1>2, <1>3, <1>4 DEF selectForReplicaSet, Modes

(* A secondary that is suitable is not too stale: what it lacks of the     *)
(* primary's writes was written after its own last write, which its        *)
(* description shows, and before now, which is at most a heartbeat after   *)
(* that description; and the primary's description is at most an idle      *)
(* write period behind the primary.                                        *)
LEMMA StalenessBounded ==
  ASSUME SelectionInv, NEW rp \in ReadPrefs, NEW S, S \ {"primary"} \subseteq selectSecondaries(rp, Known)
  PROVE  BoundedStaleness(rp, S)
<1>1. SUFFICES ASSUME rp.maxStaleness # NoStaleness, ssView["primary"].kind # "Unknown",
                      NEW s \in S \ {"primary"}
               PROVE  ssWrite["primary"] - ssWrite[s] <= rp.maxStaleness + IdleWritePeriod
  BY DEF BoundedStaleness
<1>2. SelectionTypeOK /\ Views
  BY DEF SelectionInv
<1>3. "primary" \in Known /\ "primary" \in Servers
  BY <1>1 DEF Known, Servers
<1>4. s \in Known /\ s \in Servers /\ estimatedStaleness(s, Known) <= rp.maxStaleness
  BY <1>1, KindsKnown DEF selectSecondaries
<1>5. selectByKind(Known, "RSPrimary") # {}
  BY <1>3, KindsKnown
<1>6. PICK d : d = ssView[s]
  OBVIOUS
<1>7. PICK p : p = ssView["primary"]
  OBVIOUS
<1>8. (d.lastUpdate - d.lastWrite) - (p.lastUpdate - p.lastWrite) + HeartbeatInterval <= rp.maxStaleness
  BY <1>4, <1>5, <1>6, <1>7 DEF estimatedStaleness
<1>9. /\ ssWrite["primary"] <= ssNow /\ d.lastWrite <= ssWrite[s] /\ ssNow <= d.lastUpdate + HeartbeatInterval
      /\ p.lastUpdate <= p.lastWrite + IdleWritePeriod
  BY <1>1, <1>2, <1>3, <1>4, <1>6, <1>7 DEF Views, Known
<1>10. /\ ssNow \in Int /\ ssWrite["primary"] \in Int /\ ssWrite[s] \in Int /\ HeartbeatInterval \in Nat
       /\ IdleWritePeriod \in Nat /\ d.lastWrite \in Int /\ d.lastUpdate \in Int
       /\ p.lastWrite \in Int /\ p.lastUpdate \in Int
  BY <1>2, <1>3, <1>4, <1>6, <1>7, ViewTypes
<1>11. rp.maxStaleness \in Int
  BY SelectionAssumption DEF ReadPrefs, NoStaleness
<1> QED
  BY <1>8, <1>9, <1>10, <1>11

(* The invariant makes every selection right. *)
LEMMA SelectionInvIsRight ==
  ASSUME SelectionInv
  PROVE  SelectionIsRight
<1>1. SUFFICES ASSUME NEW rp \in ReadPrefs
               PROVE  /\ BoundedStaleness(rp, LatencySelector(Suitable(rp)))
                      /\ FastestSuitable(Suitable(rp), LatencySelector(Suitable(rp)))
                      /\ ModesHold(rp, LatencySelector(Suitable(rp)))
  BY DEF SelectionIsRight, SelectServer
<1>2. PICK S : S = Suitable(rp)
  OBVIOUS
<1>3. PICK chosen : chosen = LatencySelector(S)
  OBVIOUS
<1>4. CASE Refused(rp, Known)
  <2>1. S = {}
    BY <1>2, <1>4 DEF Suitable
  <2>2. chosen = {}
    BY <1>3, <2>1, WindowIsRight DEF SelectionInv
  <2> QED
    BY <1>2, <1>3, <1>4, <2>1, <2>2 DEF BoundedStaleness, FastestSuitable, ModesHold
<1>5. CASE ~Refused(rp, Known)
  <2>1. PICK primaries : primaries = IF "primary" \in Known THEN {"primary"} ELSE {}
    OBVIOUS
  <2>2. PICK secondaries : secondaries = selectSecondaries(rp, Known)
    OBVIOUS
  <2>3. PICK tagged : tagged = selectByTagSet(secondaries, rp.tagSets)
    OBVIOUS
  <2>4. PICK near : near = selectByTagSet(primaries \cup secondaries, rp.tagSets)
    OBVIOUS
  <2>5. /\ S \in {primaries, tagged, near}
        /\ rp.mode = "primary" => S = primaries
        /\ rp.mode = "primaryPreferred" => S = IF primaries # {} THEN primaries ELSE tagged
        /\ rp.mode = "secondaryPreferred" => S = IF tagged # {} THEN tagged ELSE primaries
        /\ rp.mode = "secondary" => S = tagged
        /\ rp.mode = "nearest" => S = near
        /\ secondaries \subseteq Known \ {"primary"}
        /\ rp.maxStaleness = NoStaleness => secondaries = Known \ {"primary"}
        /\ rp.mode \in Modes /\ rp.tagSets \in TagSetLists
    BY <1>2, <1>5, <2>1, <2>2, <2>3, <2>4, WhatIsSuitable
  <2>6. tagged \subseteq secondaries /\ near \subseteq primaries \cup secondaries
    BY <2>3, <2>4, <2>5, TagSetsInOrder
  <2>7. S \subseteq primaries \cup secondaries /\ S \in SUBSET Servers
    BY <2>1, <2>5, <2>6 DEF Known
  <2>8. /\ chosen \subseteq S /\ FastestSuitable(S, chosen)
        /\ S = {"primary"} => chosen = {"primary"}
    BY <1>3, <2>7, WindowIsRight DEF SelectionInv
  <2>9. BoundedStaleness(rp, chosen)
    <3>1. chosen \ {"primary"} \subseteq secondaries
      BY <2>1, <2>7, <2>8
    <3> QED
      BY <2>2, <3>1, StalenessBounded
  <2>10. ModesHold(rp, chosen)
    <3>1. rp.mode \in {"primary", "primaryPreferred"} /\ "primary" \in Known => chosen = {"primary"}
      BY <2>1, <2>5, <2>8
    <3>2. rp.mode = "secondary" => "primary" \notin chosen
      BY <2>5, <2>6, <2>8
    <3>3. ASSUME rp.mode = "secondaryPreferred", "primary" \in chosen
          PROVE  /\ chosen = {"primary"}
                 /\ rp.maxStaleness = NoStaleness =>
                      \A s \in Known \ {"primary"} : ~Matches(s, rp.tagSets)
      <4>1. tagged = {} /\ S = primaries /\ S = {"primary"}
        BY <2>1, <2>5, <2>6, <2>8, <3>3
      <4>2. \A s \in secondaries : ~Matches(s, rp.tagSets)
        <5>1. \A s \in secondaries, i \in DOMAIN rp.tagSets : ~Has(s, rp.tagSets[i])
          BY <2>3, <2>5, <4>1, TagSetsInOrder
        <5>2. rp.tagSets = <<>> => secondaries = {}
          BY <2>3, <2>5, <4>1, TagSetsInOrder
        <5> QED
          BY <5>1, <5>2 DEF Matches
      <4> QED
        BY <2>5, <2>8, <4>1, <4>2
    <3>4. ASSUME NEW s \in chosen \ {"primary"}, NEW o \in Known \ {"primary"},
                 NEW i \in DOMAIN rp.tagSets, rp.maxStaleness = NoStaleness, Has(o, rp.tagSets[i])
          PROVE  \E j \in 1 .. i : Has(s, rp.tagSets[j])
      <4>1. o \in secondaries /\ s \in S /\ s # "primary"
        BY <2>5, <2>8, <3>4
      <4>2. s \in tagged \/ s \in near
        BY <2>1, <2>5, <4>1
      <4>3. CASE s \in tagged
        BY <2>3, <2>5, <3>4, <4>1, <4>3, TagSetsInOrder
      <4>4. CASE s \in near
        BY <2>4, <2>5, <3>4, <4>1, <4>4, TagSetsInOrder
      <4> QED
        BY <4>2, <4>3, <4>4
    <3> QED
      BY <3>1, <3>2, <3>3, <3>4 DEF ModesHold
  <2> QED
    BY <1>2, <1>3, <2>8, <2>9, <2>10
<1> QED
  BY <1>4, <1>5

(* The inductive invariant of the replica set that selections are made of, *)
(* for any number of secondaries and any periods.                          *)
THEOREM SelectionInvariant == SelectionSpec => []SelectionInv
<1>1. SelectionInv /\ [SelectionNext]_ssVars => SelectionInv'
  BY SelectionStep
<1> QED
  BY <1>1, SelectionInitGood, PTL DEF SelectionSpec

(* For any number of secondaries, any heartbeat interval, idle write       *)
(* period, staleness, tag sets and latencies: what SelectServer chooses is *)
(* as fresh, as near and of the mode that was asked for.                   *)
THEOREM SelectionAlwaysRight == SelectionSpec => []SelectionIsRight
<1>1. SelectionInv => SelectionIsRight
  BY SelectionInvIsRight
<1> QED
  BY <1>1, SelectionInvariant, PTL

(* The clock, the writes and the descriptions keep their types.            *)
THEOREM SelectionTypesStay == SelectionSpec => []SelectionTypeOK
<1>1. SelectionInv => SelectionTypeOK
  BY DEF SelectionInv
<1> QED
  BY <1>1, SelectionInvariant, PTL

=============================================================================
