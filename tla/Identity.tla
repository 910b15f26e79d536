------------------------------ MODULE Identity -----------------------------
(***************************************************************************)
(* services/identity: one-time passwords, and the account that a verified   *)
(* phone resolves to.                                                       *)
(*                                                                         *)
(* One phone.  A verification is several statements without a transaction:  *)
(* it reads the newest code, counts a wrong guess or consumes the code, and *)
(* resolves the account.                                                    *)
(***************************************************************************)
EXTENDS Integers, FiniteSets, Sequences

CONSTANTS
  Callers,           \* concurrent verifications
  OtpAttempts,       \* OTP_MAX_ATTEMPTS
  OtpPerHour,        \* OTP_MAX_PER_PHONE_PER_HOUR; all calls fall in one hour
  MaxVerifies        \* bound on verifications started by one caller

ASSUME IdentityAssumption ==
  IsFiniteSet(Callers) /\ {OtpAttempts, OtpPerHour, MaxVerifies} \subseteq Nat \ {0}

VARIABLES
  otps,        \* otp_requests of the phone, oldest first
  otpReads,    \* open requestOtp calls that have passed the limits
  evaluated,   \* observer: wrong guesses compared with each code
  verifying,   \* the open verification of each caller
  accounts,    \* users rows with this phone
  logins,      \* account each caller was last logged in to
  usedBy       \* observer: verifications each code was accepted for

identityVars == <<otps, otpReads, evaluated, verifying, accounts, logins, usedBy>>

OtpRequestRow == [attempts : -Cardinality(Callers) .. OtpAttempts, consumed : BOOLEAN]
NoVerification == [step |-> "no", code |-> 0, left |-> 0, made |-> 0]

IdentityTypeOK ==
  /\ otps \in Seq(OtpRequestRow)
  /\ otpReads \in [Callers -> BOOLEAN]
  /\ verifying \in [Callers -> [step : {"no", "read", "accepted", "missing"}, code : Nat,
                                left : Int, made : 0 .. MaxVerifies]]
  /\ accounts \in 0 .. 2
  /\ logins \in [Callers -> 0 .. 2]
  /\ Len(evaluated) = Len(otps) /\ Len(usedBy) = Len(otps)

IdentityInit ==
  /\ otps = <<>> /\ evaluated = <<>> /\ usedBy = <<>>
  /\ otpReads = [c \in Callers |-> FALSE]
  /\ verifying = [c \in Callers |-> NoVerification]
  /\ accounts = 0 /\ logins = [c \in Callers |-> 0]

---------------------------------------------------------------------------
(* One-time passwords.                                                     *)

\* requestOtp counts the rows of the last hour.
BelowLimit == Len(otps) < OtpPerHour

ReadLimits(c) ==
  /\ ~otpReads[c] /\ BelowLimit
  /\ otpReads' = [otpReads EXCEPT ![c] = TRUE]
  /\ UNCHANGED <<otps, evaluated, verifying, accounts, logins, usedBy>>

SaveOtp(c) ==
  /\ otpReads[c]
  /\ otpReads' = [otpReads EXCEPT ![c] = FALSE]
  /\ otps' = Append(otps, [attempts |-> OtpAttempts, consumed |-> FALSE])
  /\ evaluated' = Append(evaluated, 0) /\ usedBy' = Append(usedBy, 0)
  /\ UNCHANGED <<verifying, accounts, logins>>

\* verifyOtp loads the newest row and decides on what it loaded.
ReadOtp(c) ==
  /\ verifying[c].step = "no" /\ verifying[c].made < MaxVerifies
  /\ otps # <<>> /\ ~otps[Len(otps)].consumed
  /\ verifying' = [verifying EXCEPT ![c] =
       [step |-> "read", code |-> Len(otps), left |-> otps[Len(otps)].attempts,
        made |-> @.made + 1]]
  /\ UNCHANGED <<otps, otpReads, evaluated, accounts, logins, usedBy>>

\* attemptsRemaining <= 0 is too_many_attempts.
AttemptsLeft(c) == verifying[c].left > 0

Refused(c) == [verifying EXCEPT ![c] = [step |-> "no", code |-> 0, left |-> 0, made |-> @.made]]

OutOfAttempts(c) ==
  /\ verifying[c].step = "read" /\ ~AttemptsLeft(c)
  /\ verifying' = Refused(c)
  /\ UNCHANGED <<otps, otpReads, evaluated, accounts, logins, usedBy>>

GuessWrong(c) ==
  LET i == verifying[c].code IN
  /\ verifying[c].step = "read" /\ AttemptsLeft(c)
  /\ otps' = [otps EXCEPT ![i].attempts = @ - 1]
  /\ evaluated' = [evaluated EXCEPT ![i] = @ + 1]
  /\ verifying' = Refused(c)
  /\ UNCHANGED <<otpReads, accounts, logins, usedBy>>

\* Mutant: UPDATE ... WHERE id = :id.
ConsumesAlways(i) == TRUE
\* UPDATE ... WHERE id = :id AND consumed_at IS NULL.
Consumes(i) == ~otps[i].consumed

GuessRight(c) ==
  LET i == verifying[c].code IN
  /\ verifying[c].step = "read" /\ AttemptsLeft(c)
  /\ otps' = [otps EXCEPT ![i].consumed = TRUE]
  /\ IF Consumes(i)
     THEN /\ verifying' = [verifying EXCEPT ![c].step = "accepted"]
          /\ usedBy' = [usedBy EXCEPT ![i] = @ + 1]
     ELSE verifying' = Refused(c) /\ UNCHANGED usedBy
  /\ UNCHANGED <<otpReads, evaluated, accounts, logins>>

\* resolveOrCreate: the read.
FindAccount(c) ==
  /\ verifying[c].step = "accepted"
  /\ \/ /\ accounts > 0
        /\ logins' = [logins EXCEPT ![c] = 1] /\ verifying' = Refused(c)
     \/ /\ accounts = 0
        /\ verifying' = [verifying EXCEPT ![c].step = "missing"] /\ UNCHANGED logins
  /\ UNCHANGED <<otps, otpReads, evaluated, accounts, usedBy>>

\* The unique index on users.phone.
PhoneFree == accounts = 0

\* The insert; the loser of the race resolves to the winner's row.
CreateAccount(c) ==
  /\ verifying[c].step = "missing"
  /\ accounts' = IF PhoneFree THEN accounts + 1 ELSE accounts
  /\ logins' = [logins EXCEPT ![c] = IF PhoneFree THEN accounts + 1 ELSE 1]
  /\ verifying' = Refused(c)
  /\ UNCHANGED <<otps, otpReads, evaluated, usedBy>>

---------------------------------------------------------------------------
IdentityNext ==
  \E c \in Callers : \/ ReadLimits(c) \/ SaveOtp(c) \/ ReadOtp(c) \/ OutOfAttempts(c)
                     \/ GuessWrong(c) \/ GuessRight(c) \/ FindAccount(c) \/ CreateAccount(c)

IdentitySpec == IdentityInit /\ [][IdentityNext]_identityVars

---------------------------------------------------------------------------
\* A code logs in once, however many verifications read it before the first
\* of them consumed it (OtpService.verifyOtp).
CodeUsedOnce == \A i \in DOMAIN usedBy : usedBy[i] <= 1

\* Wrong guesses at one code stay within the attempts it was given, plus one
\* for each further verification that read the counter before it was
\* decremented.
GuessesBounded ==
  \A i \in DOMAIN evaluated : evaluated[i] <= OtpAttempts + Cardinality(Callers) - 1

\* Codes of one hour stay within the limit, plus one for each further request
\* that counted the rows before they were saved (OtpService.requestOtp).
CodesBounded == Len(otps) <= OtpPerHour + Cardinality(Callers) - 1

\* Everyone who verified the phone is logged in to the same account, also when
\* two first verifications race (AccountResolverService.resolveOrCreate).
OneAccountPerPhone == \A c \in Callers : logins[c] # 0 => logins[c] = 1
=============================================================================
