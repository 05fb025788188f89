------------------------------- MODULE Tokens -------------------------------
(***************************************************************************)
(* The token gate (core/security/jwt.go): what a signed token says and     *)
(* which tokens each validator accepts at a given time.  A token is the    *)
(* record of its claims; signatures are perfect, so a string that is not   *)
(* one of these records (Malformed) is refused.  The clock ticks faster    *)
(* than once a second, but a token's exp is a whole second.                *)
(***************************************************************************)
EXTENDS Integers

CONSTANTS
  Users,       \* the ids the users table can hand out
  Jtis,        \* the random ids refresh tokens carry, one per request
  Second,      \* the ticks of the clock in a second
  AccessTTL,   \* config jwt.access_ttl, in ticks
  RefreshTTL,  \* config jwt.refresh_ttl, in ticks
  None,        \* no value: nil, an absent field, an absent header
  Malformed    \* any string that is not a token signed by this server

(* A TTL is any duration the config parses, a negative one included.      *)
TTLAssumption == AccessTTL \in Int /\ RefreshTTL \in Int
ASSUME TTLAssumption

SecondAssumption == Second \in Nat \ {0}
ASSUME SecondAssumption

TokenTypes == {"access", "refresh", "verify_email"}

Token == [typ : TokenTypes, user : Users, exp : Int, jti : Jtis \cup {None}]

TokenPair == [access : Token, refresh : Token]

SentinelAssumption ==
  /\ None \notin Users /\ None \notin Jtis
  /\ None \notin Token /\ None \notin TokenPair
  /\ Malformed \notin Token /\ None # Malformed
ASSUME SentinelAssumption

(* jwt.NewNumericDate: the second a time lies in.                          *)
Truncated(t) == t - (t % Second)

(* sign, called at time at.                                               *)
sign(user, typ, ttl, jti, at) ==
  [typ |-> typ, user |-> user, exp |-> Truncated(at + ttl), jti |-> jti]

GenerateToken(user, at) == sign(user, "access", AccessTTL, None, at)
GenerateRefreshToken(user, jti, at) == sign(user, "refresh", RefreshTTL, jti, at)
GenerateVerifyEmailToken(user, at) == sign(user, "verify_email", AccessTTL, None, at)

(* Issue: the pair, or nothing (a pair is never half issued).             *)
Issue(user, jti, at) ==
  [access |-> GenerateToken(user, at), refresh |-> GenerateRefreshToken(user, jti, at)]

(* A validator's verdict at time at: "ok" or the sentinel it returns.     *)
ValidateToken(token, at) ==
  IF token = Malformed THEN "SecTokenInvalid"
  ELSE IF at >= token.exp THEN "SecTokenExpired"
  ELSE "ok"

(* The type is looked at last: an expired token of the wrong type is      *)
(* reported as expired.                                                   *)
validateTyped(token, wantType, at) ==
  IF ValidateToken(token, at) # "ok" THEN ValidateToken(token, at)
  ELSE IF token.typ # wantType THEN "SecTokenInvalid"
  ELSE "ok"

ValidateAccessToken(token, at) == validateTyped(token, "access", at)
ValidateRefreshToken(token, at) == validateTyped(token, "refresh", at)
ValidateVerifyEmailToken(token, at) == validateTyped(token, "verify_email", at)
=============================================================================
