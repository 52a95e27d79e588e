------------------------------- MODULE Licenses -------------------------------
(***************************************************************************)
(* What a licence expression is worth under a policy:                      *)
(* evaluate_spdx_expression of finguard/licenses.py and check_licenses of  *)
(* finguard/checks/quality.py.                                             *)
(*                                                                         *)
(* An expression is a sequence of tokens: "(", ")", "AND", "OR", "WITH",   *)
(* names, and Garbled where the text has something that is no token.  The  *)
(* lists of a policy hold such sequences, since an entry may be a whole    *)
(* expression.  Case and spacing are left out.                             *)
(***************************************************************************)
EXTENDS Integers, Sequences, FiniteSets

Garbled == "?"
Operators == {"AND", "OR", "WITH", "(", ")"}
Blanks == {<<>>, <<"UNKNOWN">>, <<"NOASSERTION">>}

(* LicenseDisposition: the higher, the stricter. *)
ALLOWED == 0
REVIEW == 1
NOT_ALLOWED == 2
DENIED == 3
INVALID == 4

Stricter(c, d) == IF c > d THEN c ELSE d
Milder(c, d) == IF c < d THEN c ELSE d

-----------------------------------------------------------------------------

Listed(e, p) == e \in p.allowed \cup p.review \cup p.denied

(* The lists are asked in this order, whoever asks. *)
ListedAs(e, p) ==
    CASE e \in p.denied -> DENIED
      [] e \in p.review \ p.denied -> REVIEW
      [] e \in p.allowed \ (p.review \cup p.denied) -> ALLOWED

Unlisted(p) == IF p.unknown THEN ALLOWED ELSE NOT_ALLOWED

OfName(n, p) == IF Listed(<<n>>, p) THEN ListedAs(<<n>>, p) ELSE Unlisted(p)

(* The base of an exception: the tokens of a name, or the empty name of an    *)
(* expression in parentheses, which no entry of a policy begins with, since  *)
(* _string_tuple (config_fields.py:22) strips the entries.                    *)
Nameless == <<"">>

(* An unreviewed exception changes the obligations of the base licence. *)
OfException(base, x, d, p) ==
    IF Listed(base \o <<"WITH", x>>, p) THEN ListedAs(base \o <<"WITH", x>>, p)
                                        ELSE Stricter(d, REVIEW)

-----------------------------------------------------------------------------
(* The parser: each method, called at a position, returns the position after *)
(* what it has read (0 for a ValueError), its disposition, and the base an   *)
(* exception may be added to.  The loops of the methods are written as right *)
(* recursion: min() and max() are associative.  f[<<rule, i>>] is what the   *)
(* method for rule returns at i.                                             *)

Parsed(next, d, base) == [next |-> next, d |-> d, base |-> base]
Error == Parsed(0, INVALID, Nameless)

Peek(e, i, token) == i <= Len(e) /\ e[i] = token
IsName(e, i) == i <= Len(e) /\ e[i] \notin Operators

Rules == {"or", "and", "with", "primary"}
Operand(rule) == IF rule = "or" THEN "and" ELSE "with"
Separator(rule) == IF rule = "or" THEN "OR" ELSE "AND"
Combined(rule, c, d) == IF rule = "or" THEN Milder(c, d) ELSE Stricter(c, d)

Chain(e, f, rule, i) ==
    LET left == f[<<Operand(rule), i>>]
        right == f[<<rule, left.next + 1>>]
    IN  IF left.next = 0 \/ ~Peek(e, left.next, Separator(rule)) THEN left
        ELSE IF right.next = 0 THEN Error
        ELSE Parsed(right.next, Combined(rule, left.d, right.d), Nameless)

WithException(e, p, f, i) ==
    LET left == f[<<"primary", i>>]
        x == left.next + 1
    IN  IF left.next = 0 \/ ~Peek(e, left.next, "WITH") THEN left
        ELSE IF ~IsName(e, x) THEN Error
        ELSE Parsed(x + 1, OfException(left.base, e[x], left.d, p), Nameless)

Primary(e, p, f, i) ==
    LET inner == f[<<"or", i + 1>>]
    IN  IF Peek(e, i, "(")
          THEN IF inner.next # 0 /\ Peek(e, inner.next, ")")
                 THEN Parsed(inner.next + 1, inner.d, Nameless) ELSE Error
          ELSE IF IsName(e, i) THEN Parsed(i + 1, OfName(e[i], p), <<e[i]>>) ELSE Error

Returned(e, p, f, rule, i) ==
    CASE rule \in {"or", "and"} -> Chain(e, f, rule, i)
      [] rule = "with"          -> WithException(e, p, f, i)
      [] rule = "primary"       -> Primary(e, p, f, i)

Parse(e, p) ==
    LET method[m \in Rules \X Nat] == Returned(e, p, method, m[1], m[2])
    IN  method[<<"or", 1>>]

(* Mutant: what follows a complete expression is ignored. *)
EvaluatePrefix(e, p) == Parse(e, p).d

Evaluate(e, p) ==
    IF e \in Blanks THEN (IF p.unknown THEN ALLOWED ELSE INVALID)
    ELSE IF Listed(e, p) THEN ListedAs(e, p)
    ELSE IF \E i \in DOMAIN e : e[i] = Garbled THEN INVALID
    ELSE LET result == Parse(e, p)
         IN  IF result.next = Len(e) + 1 THEN result.d ELSE INVALID

-----------------------------------------------------------------------------
(* What expressions mean, without a parser: a licensee may take one of the *)
(* alternatives, and each is a set of obligations that all apply.          *)

Depth(e, i, k) ==
    LET Before(token) == Cardinality({j \in i .. (k - 1) : e[j] = token})
    IN  Before("(") - Before(")")

Balanced(e, i, j) == /\ \A k \in i .. j : Depth(e, i, k + 1) >= 0
                     /\ Depth(e, i, j + 1) = 0

(* Operators outside all parentheses *)
Outermost(e, i, j, token) ==
    {k \in i .. j : e[k] = token /\ Depth(e, i, k) = 0}

(* What either half offers, or both together; nothing if one is malformed *)
Either(a, b) == IF {} \in {a, b} THEN {} ELSE a \cup b
Both(a, b) == {x \cup y : x \in a, y \in b}

(* The alternatives of e from i to j, none if it is malformed, where f has   *)
(* those of its shorter parts                                                *)
Offered(e, p, f, i, j) ==
    LET At(token) == Outermost(e, i, j, token)
        Name(k) == k \in i .. j /\ e[k] \notin Operators \cup {Garbled}
        Before(k) == f[<<i, k - 1>>]
        After(k) == f[<<k + 1, j>>]
        Compound == SubSeq(e, i, j)
    IN  IF i > j \/ ~Balanced(e, i, j) THEN {}
        ELSE IF At("OR") # {} THEN
            LET k == CHOOSE k \in At("OR") : TRUE IN Either(Before(k), After(k))
        ELSE IF At("AND") # {} THEN
            LET k == CHOOSE k \in At("AND") : TRUE IN Both(Before(k), After(k))
        ELSE IF i = j THEN (IF Name(i) THEN {{OfName(e[i], p)}} ELSE {})
        ELSE IF e[j - 1] = "WITH" /\ Name(j) THEN
            IF i = j - 2 /\ Name(i) THEN
              {{IF Listed(Compound, p) THEN ListedAs(Compound, p)
                                       ELSE Stricter(OfName(e[i], p), REVIEW)}}
            ELSE IF e[i] = "(" /\ e[j - 2] = ")" THEN {a \cup {REVIEW} : a \in f[<<i + 1, j - 3>>]}
            ELSE {}
        ELSE IF e[i] = "(" /\ e[j] = ")" THEN f[<<i + 1, j - 1>>]
        ELSE {}

Alternatives(e, p) ==
    LET of[s \in (1 .. Len(e) + 1) \X (0 .. Len(e))] == Offered(e, p, of, s[1], s[2])
    IN  of[<<1, Len(e)>>]

(* A strictness is met by an alternative none of whose obligations exceeds it. *)
Meets(a, d) == \A c \in a : c <= d

(* The mildest strictness some alternative meets. *)
Worth(e, p) ==
    IF e \in Blanks THEN (IF p.unknown THEN ALLOWED ELSE INVALID)
    ELSE IF Listed(e, p) THEN ListedAs(e, p)
    ELSE IF Alternatives(e, p) = {} THEN INVALID
    ELSE CHOOSE d \in ALLOWED .. DENIED :
            /\ \E a \in Alternatives(e, p) : Meets(a, d)
            /\ \A c \in ALLOWED .. (d - 1) : \A a \in Alternatives(e, p) : ~Meets(a, c)

(* check_licenses: the violation each expression raises, if any *)
Code(d) == CASE d = DENIED      -> "LICENSE_DENIED"
             [] d = REVIEW      -> "LICENSE_REVIEW_REQUIRED"
             [] d = INVALID     -> "LICENSE_EXPRESSION_INVALID"
             [] d = NOT_ALLOWED -> "LICENSE_NOT_ALLOWLISTED"

Objections(expressions, p) ==
    {Code(Evaluate(e, p)) : e \in {x \in expressions : Evaluate(x, p) # ALLOWED}}
=============================================================================
