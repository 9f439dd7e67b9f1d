------------------------ MODULE OrganizationService ------------------------
(***************************************************************************)
(* The organization's description, from the configuration to the page:     *)
(* canonicalizeHTML undoes URL encoding until nothing changes, within a    *)
(* limit of rounds, and sanitizeHTML drops the markup that has come to     *)
(* light.                                                                  *)
(*                                                                         *)
(* A description is a sequence of tokens, each one character or tag under  *)
(* a number of layers of encoding: "%252B" is a plus under two.  A percent *)
(* without a layer is one that starts no escape.                           *)
(***************************************************************************)
EXTENDS Naturals, Sequences

CONSTANT Descriptions   \* custom_description, as it may be configured

Tokens == [char : {"text", "plus", "percent", "markup"}, layers : Nat]

ASSUME DescriptionsAssumption == Descriptions \subseteq Seq(Tokens)

VARIABLES
  custom,   \* the configured description
  text,     \* canonicalizeHTML's "in"; then CustomDescription
  prev,     \* "in" of the round before, at first ""
  count     \* rounds

organization == <<custom, text, prev, count>>

---------------------------------------------------------------------------
(* Tokens *)

Bare == [char |-> "percent", layers |-> 0]

\* One decoding of a token: url.QueryUnescape reads a plain plus as a space.
Unescaped(t) ==
  IF t.layers > 0 THEN [char |-> t.char, layers |-> t.layers - 1]
  ELSE IF t.char = "plus" THEN [char |-> "text", layers |-> 0] ELSE t

QueryUnescape(s) == [i \in DOMAIN s |-> Unescaped(s[i])]

UnescapeFails(s) == \E i \in DOMAIN s : s[i] = Bare

\* Slip: the limit counts the rounds that change something, not the last one.
TooManyAtTen(n) == n >= 10

TooMany(n) == n > 10

\* What is no markup stays, each token at its place.
sanitizeHTML(s) == [i \in {j \in DOMAIN s : s[j].char # "markup"} |-> s[i]]

---------------------------------------------------------------------------
(* NewOrganizationService, one action for each round of the loop *)

InitOrganization ==
  /\ custom \in Descriptions
  /\ text = custom /\ prev = << >> /\ count = 0

Round ==
  /\ text # prev
  /\ ~ TooMany(count) /\ ~ UnescapeFails(text)
  /\ prev' = text
  /\ text' = QueryUnescape(text)
  /\ count' = count + 1
  /\ UNCHANGED custom

Refuse ==
  /\ text # prev
  /\ TooMany(count) \/ UnescapeFails(text)
  /\ prev' = text
  /\ UNCHANGED <<custom, text, count>>

Sanitize ==
  /\ text = prev
  /\ text' = sanitizeHTML(text)
  /\ UNCHANGED <<custom, prev, count>>

---------------------------------------------------------------------------
(* What it amounts to *)

\* The rounds that change a token, and what is left of it.
Rounds(t) == t.layers + IF t.char = "plus" THEN 1 ELSE 0

Plain(t) == [char |-> IF t.char = "plus" THEN "text" ELSE t.char, layers |-> 0]

Acceptable(s) == \A i \in DOMAIN s : s[i].char # "percent" /\ Rounds(s[i]) <= 10

Canonical(s) == [i \in DOMAIN s |-> Plain(s[i])]
=============================================================================
