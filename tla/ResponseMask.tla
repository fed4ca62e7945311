----------------------------- MODULE ResponseMask -----------------------------
(***************************************************************************)
(* The response masks of an Action (app/action.rs): the JSON Pointers of   *)
(* constraints.response_mask are put in an order in which no removal moves *)
(* what a later one points to, and removed from the answer one by one.     *)
(*                                                                         *)
(* An answer is a tree, given by the positions of its nodes: a position is *)
(* the keys on the way to a node, indexes in arrays and names in objects.  *)
(* A pointer is the sequence of its tokens.  Of the text of a token only   *)
(* its order and the index it may denote matter: both are constants.       *)
(***************************************************************************)
EXTENDS Integers, Sequences, FiniteSets, SequencesExt

CONSTANTS
  Tokens,       (* the tokens of pointers, in the order of their text       *)
  IndexOf,      (* the index a token denotes, for those that are numbers    *)
  Documents,    (* upstream answers                                         *)
  Pointers,     (* JSON Pointers                                            *)
  MaxMasks      (* bound on the masks of an Action                          *)

Index(n) == <<"index", n>>
Name(t) == <<"name", t>>
Keys == ({"index"} \X Nat) \union ({"name"} \X ToSet(Tokens))
IsIndex(key) == key[1] = "index"

Ancestor(position, n) == SubSeq(position, 1, n)
Sibling(position, i, k) == Append(Ancestor(position, i - 1), Index(k))

\* The children of a node all have names or all have indexes, from 0.
IsTree(d) ==
  \A q \in d :
    /\ q \in Seq(Keys)
    /\ q # << >> => Ancestor(q, Len(q) - 1) \in d
    /\ \A i \in DOMAIN q : IsIndex(q[i]) =>
         \A k \in 0..(q[i][2] - 1) : Sibling(q, i, k) \in d
    /\ \A r \in d : \A i \in DOMAIN q \intersect DOMAIN r :
         Ancestor(q, i - 1) = Ancestor(r, i - 1) => IsIndex(q[i]) = IsIndex(r[i])

ASSUME MaskAssumption ==
  /\ \A d \in Documents : IsTree(d)
  /\ Pointers \subseteq Seq(ToSet(Tokens))
  /\ \A t \in DOMAIN IndexOf : IndexOf[t] \in Nat

VARIABLES
  original,     (* the upstream's answer                                    *)
  masks,        (* constraints.response_mask                                *)
  pending,      (* the masks not applied yet, in order                      *)
  remaining     (* what is left: where each node of the answer is by now    *)

maskVars == <<original, masks, pending, remaining>>

Numeric(token) == token \in DOMAIN IndexOf
Parent(pointer) == Ancestor(pointer, Len(pointer) - 1)

\* A token is the name of a member or the index of an element.
Denotes(pointer, position) ==
  /\ Len(pointer) = Len(position) /\ pointer # << >>
  /\ \A i \in DOMAIN pointer :
       \/ position[i] = Name(pointer[i])
       \/ Numeric(pointer[i]) /\ position[i] = Index(IndexOf[pointer[i]])

Rank(token) == CHOOSE i \in DOMAIN Tokens : Tokens[i] = token

TextAfter(p, q) ==
  \E i \in DOMAIN p :
    /\ \A j \in 1..(i - 1) : p[j] = q[j]
    /\ Rank(p[i]) > Rank(q[i])

\* Slip: indexes are ordered as text.
GoesFirstAsText(p, q) ==
  \/ Len(p) > Len(q)
  \/ Len(p) = Len(q) /\ TextAfter(p, q)

\* The longest first; of siblings the highest index.
GoesFirst(p, q) ==
  \/ Len(p) > Len(q)
  \/ /\ Len(p) = Len(q)
     /\ IF p # << >> /\ Parent(p) = Parent(q) /\ Numeric(Last(p)) /\ Numeric(Last(q))
          THEN IndexOf[Last(p)] > IndexOf[Last(q)]
          ELSE TextAfter(p, q)

\* An index, a name and an index under one parent may form a circle, as /2, /1x and
\* /10 do: an index is compared with a name as text.
Ordered ==
  /\ \A p, q, r \in masks : GoesFirst(p, q) /\ GoesFirst(q, r) => GoesFirst(p, r)
  /\ \A p, q \in masks : p # q => GoesFirst(p, q) \/ GoesFirst(q, p)

\* sort_by, which gives any order if the comparison is none.
SortedMasks ==
  {s \in SetToSeqs(masks) :
     Ordered => \A i, j \in DOMAIN s : i < j => GoesFirst(s[i], s[j])}

\* Where a node is after the removal of another: a removal from an array moves
\* the elements behind it.
After(gone, position) ==
  LET n == Len(gone) IN
  IF /\ Len(position) >= n /\ Ancestor(position, n - 1) = Parent(gone)
     /\ IsIndex(gone[n]) /\ IsIndex(position[n]) /\ position[n][2] > gone[n][2]
    THEN [position EXCEPT ![n] = Index(@[2] - 1)]
    ELSE position

\* What is left without the node at a position, and all below it.
WithoutNode(gone) ==
  [q \in {q \in DOMAIN remaining : ~IsPrefix(gone, remaining[q])} |->
     After(gone, remaining[q])]

MaskInit ==
  /\ original \in Documents
  /\ masks \in SUBSET Pointers /\ IsFiniteSet(masks) /\ Cardinality(masks) <= MaxMasks
  /\ pending \in SortedMasks
  /\ remaining = [q \in original |-> q]

\* remove_json_pointer, in the loop of apply_response_masks.
ApplyMask ==
  /\ pending # << >>
  /\ IF \E q \in DOMAIN remaining : Denotes(Head(pending), remaining[q])
       THEN \E q \in DOMAIN remaining :
              /\ Denotes(Head(pending), remaining[q])
              /\ remaining' = WithoutNode(remaining[q])
       ELSE UNCHANGED remaining
  /\ pending' = Tail(pending)
  /\ UNCHANGED <<original, masks>>

MaskNext == ApplyMask

MaskSpec == MaskInit /\ [][MaskNext]_maskVars

-----------------------------------------------------------------------------
(* Properties.                                                               *)

\* The nodes that some pointers denote in the answer as it was, those that are
\* neither one of them nor below one, and where these belong: as far to the front
\* as the elements before them are gone.
Hit(pointers) == {q \in original : \E p \in pointers : Denotes(p, q)}

Kept(pointers) == {q \in original : \A i \in DOMAIN q : Ancestor(q, i) \notin Hit(pointers)}

MovedTo(pointers, q) ==
  [i \in DOMAIN q |->
     IF IsIndex(q[i])
       THEN Index(q[i][2] - Cardinality({k \in 0..(q[i][2] - 1) :
                                           Sibling(q, i, k) \in Hit(pointers)}))
       ELSE q[i]]

\* No index is written in two ways, as 1 and 01.
OneSpelling ==
  \A p, q \in masks : \A i \in DOMAIN p, j \in DOMAIN q :
    Numeric(p[i]) /\ Numeric(q[j]) /\ IndexOf[p[i]] = IndexOf[q[j]] => p[i] = q[j]

\* Exactly what the masks point to is removed, all of them read in the answer as it
\* was, however they are written down and overlap and whatever moves in an array
\* (action.rs:1223; the test action.rs:1410 is about two neighbours).
MaskRemovesExactly ==
  pending = << >> /\ Ordered /\ OneSpelling =>
    remaining = [q \in Kept(masks) |-> MovedTo(masks, q)]
===============================================================================
