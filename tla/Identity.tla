------------------------------ MODULE Identity ------------------------------
(***************************************************************************)
(* The two gates of /api/investigations (src/app/core/auth.py): the API key *)
(* and the identity assertion, three headers that the proxy of the user     *)
(* interface signs.  Pure functions from headers, environment and clock to  *)
(* an outcome: "accepted", the status code of the exception, or 500 where   *)
(* the comparison of secrets raises because a header is not ASCII.          *)
(*                                                                         *)
(* A text is a sequence of characters: digits 0 to 9, colon, and others.    *)
(* The keyed hash is ideal: no value but Mac(secret, message) compares      *)
(* equal to it.                                                             *)
(***************************************************************************)
EXTENDS Integers, Sequences

CONSTANTS TTL,       \* IDENTITY_TTL_SECONDS
          Skew,      \* IDENTITY_CLOCK_SKEW_SECONDS
          colon,     \* the character between user id and expiry
          NotAscii   \* a header value that is not ASCII

ASSUME WindowAssumption == TTL \in Nat /\ Skew \in Nat

ASSUME CharacterAssumption == colon \notin 0 .. 9

None == <<>>

-----------------------------------------------------------------------------
\* require_api_key
ApiKeyOutcome(expected, provided) ==
  CASE expected = None                        -> "503"
    [] expected # None /\ provided = None     -> "401"
    [] expected # None /\ provided = NotAscii -> "500"
    [] OTHER -> IF provided = expected THEN "accepted" ELSE "401"

-----------------------------------------------------------------------------
Digits == 0 .. 9

\* The texts that int() parses, leading zeros included.  It takes signs, underscores
\* and other digits as well, which are left out; what matters is that it takes no
\* colon.
IsNumber(text) == text # None /\ \A i \in DOMAIN text : text[i] \in Digits

NumberOf(text) ==
  LET value[i \in 0 .. Len(text)] ==
        IF i = 0 THEN 0
        ELSE 10 * value[i - 1] + (IF text[i] \in Digits THEN text[i] ELSE 0)
  IN  value[Len(text)]

\* Faulty variant: user id and expiry are signed without a separator.
MessageUnseparated(user, exp) == user \o exp
Message(user, exp) == user \o <<colon>> \o exp
Mac(secret, message) == <<secret, message>>

\* Both comparisons are strict: the bounds of the window belong to it.
InWindow(exp, now) == exp >= now - Skew /\ exp <= now + TTL + Skew

\* verify_identity_assertion, its checks in their order.
Outcome(a, secret, now) ==
  CASE secret = None -> "503"
    [] secret # None /\ None \in {a.user, a.exp, a.sig} -> "401"
    [] secret # None /\ None \notin {a.user, a.exp, a.sig} ->
         IF ~IsNumber(a.exp) THEN "401"
         ELSE IF a.sig = NotAscii THEN "500"
         ELSE IF a.sig # Mac(secret, Message(a.user, a.exp)) THEN "401"
         ELSE IF ~InWindow(NumberOf(a.exp), now) THEN "401"
         ELSE "accepted"

\* get_current_user_id: without any of the three headers a request passes, without
\* a user, in local development only.
CurrentUser(a, secret, now, degraded) ==
  IF a.user = None /\ a.exp = None /\ a.sig = None
  THEN [outcome |-> IF degraded THEN "accepted" ELSE "401", user |-> None]
  ELSE [outcome |-> Outcome(a, secret, now),
        user |-> IF Outcome(a, secret, now) = "accepted" THEN a.user ELSE None]

\* Both gates of a request (src/app/main.py:16), the key first.
Gate(key, provided, a, secret, now, degraded) ==
  IF ApiKeyOutcome(key, provided) # "accepted"
  THEN [outcome |-> ApiKeyOutcome(key, provided), user |-> None]
  ELSE CurrentUser(a, secret, now, degraded)

-----------------------------------------------------------------------------
Accepts(a, secret, now) == Outcome(a, secret, now) = "accepted"

\* The assertion the proxy issues (src/tests/test_auth.py:56-82).
Issued(user, exp, secret) ==
  [user |-> user, exp |-> exp, sig |-> Mac(secret, Message(user, exp))]

\* A signature made for one user and expiry is accepted for no other, in
\* particular not for another split of the text it signs.
Binding(issued, a, secret, now) ==
  a.sig = issued.sig /\ Accepts(a, secret, now) => a = issued

\* An assertion issued to expire TTL seconds after at is accepted as long as it
\* lasts by a clock that is off by Skew at most, and at no other time.
LivesItsTime(issued, at, secret, now) ==
  NumberOf(issued.exp) = at + TTL =>
    (Accepts(issued, secret, now) <=> now \in at - Skew .. at + TTL + Skew)
=============================================================================
