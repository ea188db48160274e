------------------------------- MODULE Paging -------------------------------
(***************************************************************************)
(* Page sizes, page tokens and pages of List (internal/store/pagetoken.go  *)
(* and the SELECT of PostgresStore.List).                                  *)
(*                                                                         *)
(* Colonies and names are texts: sequences of characters, of which none is *)
(* the separator (a Postgres text holds no NUL).  Their order is the       *)
(* lexicographic one; what List needs is that ORDER BY and the comparison  *)
(* with the cursor use the same.                                           *)
(***************************************************************************)
EXTENDS Integers, Sequences, FiniteSets

CONSTANTS
  DefaultPageSize,
  MaxPageSize

ASSUME PageSizeAssumption ==
  /\ DefaultPageSize \in Nat \ {0}
  /\ MaxPageSize \in Nat
  /\ DefaultPageSize <= MaxPageSize

Sep == 0
Text == Seq(Nat \ {Sep})

\* What the client asks for, made safe.
ClampPageSize(n) ==
  IF n <= 0 THEN DefaultPageSize
  ELSE IF n > MaxPageSize THEN MaxPageSize
  ELSE n

-----------------------------------------------------------------------------
(* Tokens.  The base64 around them only keeps them printable.              *)

EncodePageToken(colony, name) == colony \o <<Sep>> \o name

\* A token is malformed when strings.Cut finds no separator.
WellFormed(token) == \E i \in DOMAIN token : token[i] = Sep

\* The place of the first separator.
Cut(token) == CHOOSE i \in DOMAIN token :
  token[i] = Sep /\ \A j \in 1 .. i - 1 : token[j] # Sep

\* The (colony, name) a token carries; an empty one carries empty texts.
DecodePageToken(token) ==
  IF token = <<>> THEN [colony |-> <<>>, name |-> <<>>]
  ELSE [colony |-> SubSeq(token, 1, Cut(token) - 1),
        name   |-> SubSeq(token, Cut(token) + 1, Len(token))]

-----------------------------------------------------------------------------
(* The order of (colony, name), which is the order of pages.               *)

Less(s, t) ==
  \/ \E i \in DOMAIN s \cap DOMAIN t :
       s[i] < t[i] /\ \A j \in 1 .. i - 1 : s[j] = t[j]
  \/ Len(s) < Len(t) /\ \A j \in DOMAIN s : s[j] = t[j]

Before(a, b) ==
  \/ Less(a.colony, b.colony)
  \/ a.colony = b.colony /\ Less(a.name, b.name)

\* Wrong: the cursor is the name alone.
AfterByName(token, place) ==
  token # <<>> => Less(DecodePageToken(token).name, place.name)

\* A cursor predicate applies when there is a token, whatever it decodes to.
After(token, place) == token # <<>> => Before(DecodePageToken(token), place)

\* A set of places in that order.
InOrder(S) == [n \in 1 .. Cardinality(S) |->
  CHOOSE a \in S : Cardinality({b \in S : Before(b, a)}) = n - 1]

\* LIMIT pageSize + 1 (pageSize is at least 1): one place more than the page
\* tells whether there is a next one, and the token is that of the last place
\* on this one.
PageOf(S, token, n) ==
  LET rest == InOrder({a \in S : After(token, a)}) IN
  [items |-> SubSeq(rest, 1, IF Len(rest) > n THEN n ELSE Len(rest)),
   next  |-> IF Len(rest) > n THEN EncodePageToken(rest[n].colony, rest[n].name) ELSE <<>>]
=============================================================================
