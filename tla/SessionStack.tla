---------------------------- MODULE SessionStack ----------------------------
(***************************************************************************)
(* What the pool of server sessions promises: a stack of the sessions that *)
(* were returned, from which GetSession takes the last one that is fit for *)
(* use, and every session with at most one user. How the pool forgets the  *)
(* sessions at the bottom of the stack is its own business.                *)
(***************************************************************************)
EXTENDS Integers, Sequences

CONSTANTS Clients, Sessions, NoSession

VARIABLES
  stack,    \* the sessions that were returned, last one first
  held,     \* the server session of each client
  expired,  \* the sessions that are too old for use
  dirty     \* the sessions in use that met a network error

stackVars == <<stack, held, expired, dirty>>

InStack(s) == \E i \in DOMAIN stack : stack[i] = s
Held(s) == \E c \in Clients : held[c] = s

Init ==
  /\ stack = <<>> /\ held = [c \in Clients |-> NoSession] /\ expired \subseteq Sessions /\ dirty = {}

(* The first fit session; the ones above it are forgotten.                 *)
Take(c) ==
  /\ held[c] = NoSession
  /\ \E i \in DOMAIN stack :
       /\ stack[i] \notin expired' /\ \A j \in 1 .. i - 1 : stack[j] \in expired'
       /\ held' = [held EXCEPT ![c] = stack[i]]
       /\ stack' = SubSeq(stack, i + 1, Len(stack))
  /\ UNCHANGED dirty

(* A session nobody knows of, if none of the stack is fit.                 *)
Make(c) ==
  /\ held[c] = NoSession
  /\ \A i \in DOMAIN stack : stack[i] \in expired'
  /\ \E s \in Sessions :
       ~InStack(s) /\ ~Held(s) /\ held' = [held EXCEPT ![c] = s]
  /\ stack' = <<>>
  /\ UNCHANGED dirty

(* What is returned is on top if it is fit, and forgotten if it is not.    *)
Return(c) ==
  /\ held[c] # NoSession
  /\ held' = [held EXCEPT ![c] = NoSession] /\ dirty' = dirty \ {held[c]}
  /\ \E n \in 0 .. Len(stack) :
       stack' = (IF held[c] \in expired' \cup dirty THEN <<>> ELSE <<held[c]>>) \o SubSeq(stack, 1, n)

(* Time, use and the session timeout decide what is fit.                   *)
Change ==
  /\ UNCHANGED <<stack, held>>
  /\ expired' \subseteq Sessions /\ dirty' \subseteq Sessions

Next == Change \/ \E c \in Clients : Take(c) \/ Make(c) \/ Return(c)
Spec == Init /\ [][Next]_stackVars
=============================================================================
