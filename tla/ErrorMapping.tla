---------------------------- MODULE ErrorMapping ----------------------------
(***************************************************************************)
(* How an error a handler returns becomes a response: the *AppError values *)
(* the HTTP layer builds, the sentinels each package registers, and the    *)
(* 500 for everything else.  An error is named by a string; the user's     *)
(* message is left out, the status, the code and the details payload stay. *)
(***************************************************************************)
EXTENDS Naturals

(* The details payload: an action hint, or a sentence for each failing    *)
(* field (ValidateWithDetails), which holds no action at all.             *)
ActionDetails(action) == [action |-> action]
FieldDetails == [fields |-> "sentences"]

AppError(status, code, details) ==
  [status |-> status, code |-> code, details |-> details]

(* Built by Decode and by the authentication middleware.                  *)
AppErrors ==
  [ BadFormat       |-> AppError(400, "BAD_REQUEST", ActionDetails("fix_request")),
    BadFields       |-> AppError(400, "BAD_REQUEST", FieldDetails),
    Unauthenticated |-> AppError(401, "UNAUTHORIZED", ActionDetails("login")),
    AuthExpired     |-> AppError(401, "TOKEN_EXPIRED", ActionDetails("refresh_token")) ]

(* Registered by security, by user/domain and by user/application.  No    *)
(* two entries share a sentinel, so the order of registration, by which   *)
(* FromError takes the first match, does not show.                        *)
Registry ==
  [ SecTokenExpired    |-> AppError(401, "TOKEN_EXPIRED", ActionDetails("refresh_token")),
    SecTokenInvalid    |-> AppError(401, "INVALID_TOKEN", ActionDetails("login")),
    InvalidCredentials |-> AppError(401, "INVALID_CREDENTIALS", ActionDetails("login")),
    EmailAlreadyUsed   |-> AppError(409, "EMAIL_TAKEN", ActionDetails("login")),
    EmailNotVerified   |-> AppError(403, "EMAIL_NOT_VERIFIED", ActionDetails("verify_email")),
    EmailInvalid       |-> AppError(400, "INVALID_EMAIL", ActionDetails("fix_request")),
    EmailEmpty         |-> AppError(400, "INVALID_EMAIL", ActionDetails("fix_request")),
    TokenExpired       |-> AppError(401, "TOKEN_EXPIRED", ActionDetails("refresh_token")),
    TokenInvalid       |-> AppError(401, "INVALID_TOKEN", ActionDetails("login")),
    UserNotFound       |-> AppError(404, "USER_NOT_FOUND", ActionDetails("login")),
    Unauthorized       |-> AppError(401, "UNAUTHORIZED", ActionDetails("login")) ]

(* Errors no package registers: what gorm and bcrypt return.              *)
Unregistered == {"Database", "UniqueViolation", "ForeignKeyViolation", "PasswordTooLong"}

Errors == DOMAIN AppErrors \cup DOMAIN Registry \cup Unregistered

(* handleError: an *AppError as it is, then the registry, then the 500.   *)
Response(err) ==
  IF err \in DOMAIN AppErrors THEN AppErrors[err]
  ELSE IF err \in DOMAIN Registry THEN Registry[err]
  ELSE AppError(500, "INTERNAL_ERROR", ActionDetails("retry_later"))
=============================================================================
