---------------------------- MODULE PlatformProofs ----------------------------
(***************************************************************************)
(* Proofs about the platform services of MCPlatform: who gets in and with  *)
(* what authority (Identity, RoleGrants), the limits of the assistant, the *)
(* wishlist and the images (Assistant, Wishlist, Media), the waitlist, the *)
(* conversation and the screen that shows it (Chat, ChatThread), and what  *)
(* searches and profiles tell (SearchIndex, Reviews).                      *)
(***************************************************************************)
EXTENDS MCPlatform, FiniteSetTheorems, FunctionTheorems, SequenceTheorems, WellFoundedInduction, TLAPS

(* Roles: the inductive invariant.                                         *)

\* What the staff could do at the start, all together.
StartCaps == UNION {CapsOf[q] : q \in UNION {StaffRoles[v] : v \in Staff}}

\* A grant of a privileged role that is still open was covered as well.
GrantsCovered ==
  \A u \in Staff : \A change \in roleChange[u] :
    (change.mode = "grant" /\ change.role \in Privileged) => CapsOf[change.role] \subseteq StartCaps

RoleInv ==
  /\ RoleTypeOK /\ roleChange \in [Staff -> SUBSET RoleChangeRow]
  /\ GrantsCovered /\ NoNewPrivilege

\* The staff has the roles it was given, and no change is open.
LEMMA RolesBegin == RoleInit => RoleInv
<1> SUFFICES ASSUME RoleInit PROVE RoleInv
  OBVIOUS
<1>1. RoleTypeOK
  BY RoleGrantsAssumption, FS_EmptySet DEF RoleInit, RoleTypeOK
<1>2. roleChange \in [Staff -> SUBSET RoleChangeRow] /\ GrantsCovered
  BY DEF RoleInit, GrantsCovered
<1>3. NoNewPrivilege
  BY RoleGrantsAssumption DEF RoleInit, NoNewPrivilege
<1> QED
  BY <1>1, <1>2, <1>3 DEF RoleInv

\* mutate's rule 2: what someone's capabilities cover, the start covered.
LEMMA CoveredFromStart ==
  ASSUME RoleInv, NEW u \in Staff, NEW r \in Privileged, Covers(u, r)
  PROVE  CapsOf[r] \subseteq StartCaps
<1> SUFFICES ASSUME NEW cap \in CapsOf[r] PROVE cap \in StartCaps
  OBVIOUS
<1>1. PICK q \in roleRows[u] : cap \in CapsOf[q]
  BY DEF Covers, CapsHeld
<1>2. q \in Roles
  BY DEF RoleInv, RoleTypeOK
<1>3. q \in Privileged
  BY <1>1, <1>2, RoleGrantsAssumption
<1> QED
  BY <1>1, <1>3 DEF RoleInv, NoNewPrivilege, StartCaps

\* A change begins, commits, or an owner receives the owner's role.
LEMMA RoleSteps == RoleInv /\ [RoleNext]_roleVars => RoleInv'
<1> SUFFICES ASSUME RoleInv, [RoleNext]_roleVars PROVE RoleInv'
  OBVIOUS
<1>0. RoleTypeOK /\ roleChange \in [Staff -> SUBSET RoleChangeRow] /\ GrantsCovered /\ NoNewPrivilege
  BY DEF RoleInv
<1>1. CASE UNCHANGED roleVars
  BY <1>0, <1>1 DEF roleVars, RoleInv, RoleTypeOK, GrantsCovered, NoNewPrivilege
<1>2. ASSUME NEW u \in Staff, NEW v \in Staff, NEW r \in Roles, NEW m \in {"grant", "revoke"},
             BeginRoleChange(u, v, r, m)
      PROVE  RoleInv'
  <2> DEFINE change == [target |-> v, role |-> r, mode |-> m, after |-> After(v, r, m)]
  <2>1. /\ Covers(u, r) /\ UNCHANGED <<roleRows, cachedRoles>>
        /\ roleChange' = [roleChange EXCEPT ![u] = {change}]
    BY <1>2 DEF BeginRoleChange
  <2>2. change \in RoleChangeRow
    BY <1>0 DEF RoleChangeRow, After, RoleTypeOK
  <2>3. /\ roleChange' \in [Staff -> SUBSET RoleChangeRow] /\ roleChange'[u] = {change}
        /\ \A w \in Staff : w # u => roleChange'[w] = roleChange[w]
    BY <1>0, <2>1, <2>2
  <2>4. RoleTypeOK'
    <3>1. \A w \in Staff : Cardinality(roleChange'[w]) <= 1
      <4>1. Cardinality({change}) = 1
        BY FS_Singleton
      <4> HIDE DEF change
      <4> QED
        BY <1>0, <2>3, <4>1 DEF RoleTypeOK
    <3> QED
      BY <1>0, <2>1, <2>3, <3>1 DEF RoleTypeOK
  <2>5. GrantsCovered'
    <3>1. r \in Privileged => CapsOf[r] \subseteq StartCaps
      BY <2>1, CoveredFromStart
    <3> QED
      BY <1>0, <2>3, <3>1 DEF GrantsCovered
  <2>6. NoNewPrivilege'
    BY <1>0, <2>1 DEF NoNewPrivilege
  <2> QED
    BY <2>3, <2>4, <2>5, <2>6 DEF RoleInv
<1>3. ASSUME NEW u \in Staff, CommitRoleChange(u) PROVE RoleInv'
  <2>1. PICK change \in roleChange[u] :
          /\ roleRows' = [roleRows EXCEPT ![change.target] = After(change.target, change.role, change.mode)]
          /\ cachedRoles' = [cachedRoles EXCEPT ![change.target] = change.after]
          /\ roleChange' = [roleChange EXCEPT ![u] = {}]
    BY <1>3 DEF CommitRoleChange
  <2> DEFINE t == change.target
             r == change.role
  <2>2. /\ change \in RoleChangeRow /\ t \in Staff /\ r \in Roles /\ change.after \in SUBSET Roles
        /\ change.mode \in {"grant", "revoke"}
    BY <1>0, <2>1 DEF RoleChangeRow
  <2>3. roleRows[t] \subseteq Roles /\ After(t, r, change.mode) \in SUBSET Roles
    BY <1>0, <2>2 DEF After, RoleTypeOK
  <2>4. /\ roleRows' \in [Staff -> SUBSET Roles] /\ cachedRoles' \in [Staff -> SUBSET Roles]
        /\ roleChange' \in [Staff -> SUBSET RoleChangeRow]
        /\ \A w \in Staff : w # t => roleRows'[w] = roleRows[w]
        /\ roleRows'[t] = After(t, r, change.mode)
        /\ \A w \in Staff : roleChange'[w] = {} \/ roleChange'[w] = roleChange[w]
    BY <1>0, <2>1, <2>2, <2>3 DEF RoleTypeOK
  <2>5. RoleTypeOK'
    <3>1. \A w \in Staff : Cardinality(roleChange'[w]) <= 1
      <4>1. Cardinality({}) = 0
        BY FS_EmptySet
      <4> QED
        BY <1>0, <2>4, <4>1 DEF RoleTypeOK
    <3> QED
      BY <2>4, <3>1 DEF RoleTypeOK
  <2>6. GrantsCovered'
    BY <1>0, <2>4 DEF GrantsCovered
  <2>7. NoNewPrivilege'
    <3> SUFFICES ASSUME NEW w \in Staff, NEW q \in roleRows'[w] \cap Privileged
                 PROVE  CapsOf[q] \subseteq StartCaps
      BY DEF NoNewPrivilege, StartCaps
    <3>1. CASE q \in roleRows[w]
      BY <1>0, <3>1 DEF NoNewPrivilege, StartCaps
    <3>2. CASE q \notin roleRows[w]
      <4>1. w = t /\ change.mode = "grant" /\ q = r
        BY <2>2, <2>4, <3>2 DEF After
      <4> QED
        BY <1>0, <2>1, <4>1 DEF GrantsCovered
    <3> QED
      BY <3>1, <3>2
  <2> QED
    BY <2>4, <2>5, <2>6, <2>7 DEF RoleInv
<1>4. ASSUME NEW u \in Staff, NEW r \in OwnerRoles, AssignOwnerRole(u, r) PROVE RoleInv'
  <2>1. r \in Roles /\ r \notin Privileged
    BY RoleGrantsAssumption
  <2>2. /\ roleRows' \in [Staff -> SUBSET Roles] /\ cachedRoles' \in [Staff -> SUBSET Roles]
        /\ UNCHANGED roleChange /\ roleRows'[u] = roleRows[u] \cup {r}
        /\ \A w \in Staff : w # u => roleRows'[w] = roleRows[w]
    BY <1>0, <1>4, <2>1 DEF AssignOwnerRole, RoleTypeOK
  <2>3. RoleTypeOK' /\ GrantsCovered'
    BY <1>0, <2>2 DEF RoleTypeOK, GrantsCovered
  <2>4. NoNewPrivilege'
    <3> SUFFICES ASSUME NEW w \in Staff, NEW q \in roleRows'[w] \cap Privileged
                 PROVE  CapsOf[q] \subseteq StartCaps
      BY DEF NoNewPrivilege, StartCaps
    <3>1. q \in roleRows[w]
      BY <2>1, <2>2
    <3> QED
      BY <1>0, <3>1 DEF NoNewPrivilege, StartCaps
  <2> QED
    BY <1>0, <2>2, <2>3, <2>4 DEF RoleInv
<1> QED
  BY <1>1, <1>2, <1>3, <1>4 DEF RoleNext


---------------------------------------------------------------------------
(* One-time passwords and accounts: the inductive invariant.               *)

NumCallers == Cardinality(Callers)
\* Verifications that have read code i with an attempt left, and requests for a
\* code that have passed the limits.
Guessing(i) == {c \in Callers : verifying[c].step = "read" /\ verifying[c].code = i /\ verifying[c].left > 0}
Requesting == {c \in Callers : otpReads[c]}

\* Every wrong guess was decremented, and those who may still guess count too.
CodesCounted ==
  \A i \in 1 .. Len(otps) :
    /\ otps[i].attempts = OtpAttempts - evaluated[i]
    /\ evaluated[i] + Cardinality(Guessing(i)) <= OtpAttempts + NumCallers - 1
    /\ usedBy[i] <= 1 /\ (~otps[i].consumed => usedBy[i] = 0)
CodesLimited == Len(otps) + Cardinality(Requesting) <= OtpPerHour + NumCallers - 1
VerifyingPlaced == \A c \in Callers : verifying[c].step # "no" => verifying[c].code \in 1 .. Len(otps)
AccountSingle == accounts <= 1 /\ \A c \in Callers : logins[c] <= 1

IdentityInv ==
  /\ IdentityTypeOK /\ evaluated \in Seq(Nat) /\ usedBy \in Seq(Nat)
  /\ CodesCounted /\ CodesLimited /\ VerifyingPlaced /\ AccountSingle

VerifyingRow == [step : {"no", "read", "accepted", "missing"}, code : Nat, left : Int, made : 0 .. MaxVerifies]

\* The limits are numbers.
LEMMA IdentityBounds ==
  /\ IsFiniteSet(Callers) /\ NumCallers \in Nat
  /\ OtpAttempts \in Nat /\ OtpAttempts > 0 /\ OtpPerHour \in Nat /\ OtpPerHour > 0 /\ MaxVerifies \in Nat
  BY IdentityAssumption, FS_CardinalityType DEF NumCallers

\* Some of the callers are finitely many.
LEMMA SomeCallers ==
  ASSUME NEW S \in SUBSET Callers
  PROVE  IsFiniteSet(S) /\ Cardinality(S) \in Nat /\ Cardinality(S) <= NumCallers
  BY IdentityBounds, FS_Subset, FS_CardinalityType DEF NumCallers

\* Some of some callers are not more; without one of them they are fewer.
LEMMA FewerCallers ==
  ASSUME NEW T \in SUBSET Callers, NEW S \in SUBSET T
  PROVE  /\ Cardinality(S) <= Cardinality(T)
         /\ \A c \in T : c \notin S => Cardinality(S) <= Cardinality(T) - 1
<1>1. IsFiniteSet(T) /\ Cardinality(T) \in Nat
  BY SomeCallers
<1>2. Cardinality(S) <= Cardinality(T)
  BY <1>1, FS_Subset
<1>3. ASSUME NEW c \in T, c \notin S PROVE Cardinality(S) <= Cardinality(T) - 1
  <2>1. IsFiniteSet(T \ {c}) /\ Cardinality(T \ {c}) = Cardinality(T) - 1
    BY <1>1, FS_RemoveElement
  <2>2. S \in SUBSET (T \ {c})
    BY <1>3
  <2> QED
    BY <2>1, <2>2, FS_Subset
<1> QED
  BY <1>2, <1>3

\* The types of the state, spelt out.
LEMMA IdentityTypes ==
  ASSUME IdentityInv
  PROVE  /\ Len(otps) \in Nat /\ Len(evaluated) = Len(otps) /\ Len(usedBy) = Len(otps)
         /\ verifying \in [Callers -> VerifyingRow] /\ otpReads \in [Callers -> BOOLEAN]
         /\ \A i \in 1 .. Len(otps) : /\ otps[i] \in OtpRequestRow /\ otps[i].attempts \in Int
                                      /\ evaluated[i] \in Nat /\ usedBy[i] \in Nat
         /\ \A i : Guessing(i) \in SUBSET Callers /\ Cardinality(Guessing(i)) \in Nat
         /\ Cardinality(Requesting) \in Nat
<1>1. /\ otps \in Seq(OtpRequestRow) /\ evaluated \in Seq(Nat) /\ usedBy \in Seq(Nat)
      /\ Len(evaluated) = Len(otps) /\ Len(usedBy) = Len(otps)
      /\ verifying \in [Callers -> VerifyingRow] /\ otpReads \in [Callers -> BOOLEAN]
  BY DEF IdentityInv, IdentityTypeOK, VerifyingRow
<1>2. Len(otps) \in Nat
  BY <1>1, LenProperties
<1>3. ASSUME NEW i \in 1 .. Len(otps)
      PROVE  otps[i] \in OtpRequestRow /\ evaluated[i] \in Nat /\ usedBy[i] \in Nat
  BY <1>1, ElementOfSeq
<1>4. ASSUME NEW i \in 1 .. Len(otps) PROVE otps[i].attempts \in Int
  BY <1>3, IdentityBounds DEF OtpRequestRow, NumCallers
<1>5. ASSUME NEW i PROVE Guessing(i) \in SUBSET Callers /\ Cardinality(Guessing(i)) \in Nat
  <2>1. Guessing(i) \in SUBSET Callers
    BY DEF Guessing
  <2> QED
    BY <2>1, SomeCallers
<1>6. Cardinality(Requesting) \in Nat
  <2>1. Requesting \in SUBSET Callers
    BY DEF Requesting
  <2> QED
    BY <2>1, SomeCallers
<1> QED
  BY <1>1, <1>2, <1>3, <1>4, <1>5, <1>6

\* No code, no account, to begin with.
LEMMA IdentityBegins == IdentityInit => IdentityInv
<1> SUFFICES ASSUME IdentityInit PROVE IdentityInv
  OBVIOUS
<1> USE IdentityBounds
<1>1. /\ otps = <<>> /\ evaluated = <<>> /\ usedBy = <<>> /\ accounts = 0
      /\ otpReads = [c \in Callers |-> FALSE] /\ logins = [c \in Callers |-> 0]
      /\ verifying = [c \in Callers |-> [step |-> "no", code |-> 0, left |-> 0, made |-> 0]]
  BY DEF IdentityInit, NoVerification
<1>2. IdentityTypeOK /\ evaluated \in Seq(Nat) /\ usedBy \in Seq(Nat)
  BY <1>1, EmptySeq DEF IdentityTypeOK
<1>3. CodesCounted /\ VerifyingPlaced /\ AccountSingle
  BY <1>1, EmptySeq DEF CodesCounted, VerifyingPlaced, AccountSingle
<1>4. CodesLimited
  <2>1. Requesting = {} /\ Len(otps) = 0
    BY <1>1, EmptySeq DEF Requesting
  <2> QED
    BY <2>1, FS_EmptySet DEF CodesLimited
<1> QED
  BY <1>2, <1>3, <1>4 DEF IdentityInv

\* A verification that does not guess wrong, and does not read a code, leaves the
\* guesses at every code as few as they were.
LEMMA GuessersLeave ==
  ASSUME IdentityInv, NEW c \in Callers, UNCHANGED <<evaluated>>,
         \A d \in Callers : d # c => verifying'[d] = verifying[d],
         verifying'[c].step # "read", NEW i \in 1 .. Len(otps)
  PROVE  evaluated[i] + Cardinality(Guessing(i)') <= OtpAttempts + NumCallers - 1
<1>1. Guessing(i)' \in SUBSET Guessing(i)
  BY DEF Guessing
<1>2. Guessing(i) \in SUBSET Callers /\ Cardinality(Guessing(i)) \in Nat /\ evaluated[i] \in Nat
  BY IdentityTypes
<1>3. Cardinality(Guessing(i)') \in Nat /\ Cardinality(Guessing(i)') <= Cardinality(Guessing(i))
  BY <1>1, <1>2, FewerCallers, SomeCallers
<1>4. evaluated[i] + Cardinality(Guessing(i)) <= OtpAttempts + NumCallers - 1
  BY DEF IdentityInv, CodesCounted
<1> QED
  BY <1>2, <1>3, <1>4, IdentityBounds


\* requestOtp: the count of the last hour's codes, and the new code.
LEMMA RequestOtpSteps ==
  ASSUME IdentityInv, NEW c \in Callers, ReadLimits(c) \/ SaveOtp(c)
  PROVE  IdentityInv'
<1> USE IdentityBounds
<1>0. /\ IdentityTypeOK /\ evaluated \in Seq(Nat) /\ usedBy \in Seq(Nat) /\ CodesCounted /\ CodesLimited
      /\ VerifyingPlaced /\ AccountSingle /\ otps \in Seq(OtpRequestRow)
  BY DEF IdentityInv, IdentityTypeOK
<1>1. UNCHANGED <<verifying, accounts, logins>> /\ \A i : Guessing(i)' = Guessing(i)
  BY DEF ReadLimits, SaveOtp, Guessing
<1>2. otpReads' \in [Callers -> BOOLEAN]
  BY IdentityTypes DEF ReadLimits, SaveOtp
<1>3. CASE ReadLimits(c)
  <2>1. UNCHANGED <<otps, evaluated, usedBy>> /\ Len(otps) < OtpPerHour
    BY <1>3 DEF ReadLimits, BelowLimit
  <2>2. IdentityTypeOK'
    BY <1>0, <1>1, <1>2, <2>1 DEF IdentityTypeOK
  <2>3. CodesLimited'
    <3>1. Requesting' \in SUBSET Callers
      BY DEF Requesting
    <3>2. Cardinality(Requesting') \in Nat /\ Cardinality(Requesting') <= NumCallers
      BY <3>1, SomeCallers
    <3> QED
      BY <2>1, <3>2, IdentityTypes DEF CodesLimited
  <2>4. CodesCounted' /\ VerifyingPlaced' /\ AccountSingle'
    BY <1>0, <1>1, <2>1 DEF CodesCounted, VerifyingPlaced, AccountSingle
  <2> QED
    BY <1>0, <2>1, <2>2, <2>3, <2>4 DEF IdentityInv
<1>4. CASE SaveOtp(c)
  <2> DEFINE row == [attempts |-> OtpAttempts, consumed |-> FALSE]
             n == Len(otps)
  <2>1. /\ otps' = Append(otps, row) /\ evaluated' = Append(evaluated, 0) /\ usedBy' = Append(usedBy, 0)
        /\ otpReads[c] /\ otpReads' = [otpReads EXCEPT ![c] = FALSE]
    BY <1>4 DEF SaveOtp
  <2>2. row \in OtpRequestRow
    BY DEF OtpRequestRow, NumCallers
  <2>3. n \in Nat /\ Len(evaluated) = n /\ Len(usedBy) = n
    BY IdentityTypes
  <2>4. /\ otps' \in Seq(OtpRequestRow) /\ Len(otps') = n + 1 /\ otps'[n + 1] = row
        /\ \A i \in 1 .. n : otps'[i] = otps[i]
    <3> HIDE DEF row
    <3> QED
      BY <1>0, <2>1, <2>2, AppendProperties
  <2>5. /\ evaluated' \in Seq(Nat) /\ Len(evaluated') = n + 1 /\ evaluated'[n + 1] = 0
        /\ \A i \in 1 .. n : evaluated'[i] = evaluated[i]
    BY <1>0, <2>1, <2>3, AppendProperties
  <2>6. /\ usedBy' \in Seq(Nat) /\ Len(usedBy') = n + 1 /\ usedBy'[n + 1] = 0
        /\ \A i \in 1 .. n : usedBy'[i] = usedBy[i]
    BY <1>0, <2>1, <2>3, AppendProperties
  <2>7. IdentityTypeOK'
    BY <1>0, <1>1, <1>2, <2>4, <2>5, <2>6 DEF IdentityTypeOK
  <2>8. CodesCounted'
    <3> SUFFICES ASSUME NEW i \in 1 .. n + 1
                 PROVE  /\ otps'[i].attempts = OtpAttempts - evaluated'[i]
                        /\ evaluated'[i] + Cardinality(Guessing(i)) <= OtpAttempts + NumCallers - 1
                        /\ usedBy'[i] <= 1 /\ (~otps'[i].consumed => usedBy'[i] = 0)
      BY <1>1, <2>4 DEF CodesCounted
    <3>1. CASE i \in 1 .. n
      BY <1>0, <2>4, <2>5, <2>6, <3>1 DEF CodesCounted
    <3>2. CASE i = n + 1
      <4>1. Guessing(i) = {}
        BY <1>0, <2>3, <3>2 DEF Guessing, VerifyingPlaced
      <4>2. Cardinality(Guessing(i)) = 0
        BY <4>1, FS_EmptySet
      <4> QED
        BY <2>4, <2>5, <2>6, <3>2, <4>2
    <3> QED
      BY <2>3, <3>1, <3>2
  <2>9. CodesLimited'
    <3>1. Requesting \in SUBSET Callers /\ Requesting' \in SUBSET Requesting /\ c \in Requesting
          /\ c \notin Requesting'
      BY <2>1, IdentityTypes DEF Requesting
    <3>2. /\ Cardinality(Requesting') <= Cardinality(Requesting) - 1
          /\ Cardinality(Requesting') \in Nat /\ Cardinality(Requesting) \in Nat
      BY <3>1, FewerCallers, SomeCallers
    <3> QED
      BY <1>0, <2>3, <2>4, <3>2 DEF CodesLimited
  <2>10. VerifyingPlaced' /\ AccountSingle'
    BY <1>0, <1>1, <2>3, <2>4 DEF VerifyingPlaced, AccountSingle
  <2> QED
    BY <2>5, <2>6, <2>7, <2>8, <2>9, <2>10 DEF IdentityInv
<1> QED
  BY <1>3, <1>4

\* A verification reads the newest code, or ends without a guess.
LEMMA ReadOtpSteps ==
  ASSUME IdentityInv, NEW c \in Callers,
         ReadOtp(c) \/ OutOfAttempts(c) \/ FindAccount(c) \/ CreateAccount(c)
  PROVE  IdentityInv'
<1> USE IdentityBounds
<1>0. /\ IdentityTypeOK /\ evaluated \in Seq(Nat) /\ usedBy \in Seq(Nat) /\ CodesCounted /\ CodesLimited
      /\ VerifyingPlaced /\ AccountSingle /\ otps \in Seq(OtpRequestRow)
  BY DEF IdentityInv, IdentityTypeOK
<1>1. UNCHANGED <<otps, otpReads, evaluated, usedBy>>
  BY DEF ReadOtp, OutOfAttempts, FindAccount, CreateAccount
<1>2. verifying[c] \in VerifyingRow /\ verifying \in [Callers -> VerifyingRow] /\ Len(otps) \in Nat
  BY IdentityTypes
<1>3. /\ verifying' \in [Callers -> VerifyingRow] /\ \A d \in Callers : d # c => verifying'[d] = verifying[d]
      /\ verifying'[c].step # "no" => verifying'[c].code \in 1 .. Len(otps)
      /\ \/ verifying'[c].step # "read"
         \/ /\ verifying'[c].code = Len(otps) /\ verifying[c].step = "no"
            /\ verifying'[c].left = otps[Len(otps)].attempts /\ Len(otps) \in 1 .. Len(otps)
  <2> DEFINE none == [step |-> "no", code |-> 0, left |-> 0, made |-> verifying[c].made]
             read == [step |-> "read", code |-> Len(otps), left |-> otps[Len(otps)].attempts,
                      made |-> verifying[c].made + 1]
             missing == [verifying[c] EXCEPT !.step = "missing"]
  <2>1. none \in VerifyingRow /\ missing \in VerifyingRow
    BY <1>2 DEF VerifyingRow
  <2>2. CASE ReadOtp(c)
    <3>1. /\ verifying' = [verifying EXCEPT ![c] = read] /\ verifying[c].step = "no"
          /\ verifying[c].made < MaxVerifies /\ otps # <<>>
      BY <2>2 DEF ReadOtp
    <3>2. Len(otps) \in 1 .. Len(otps)
      <4>1. Len(otps) # 0
        BY <1>0, <3>1, EmptySeq
      <4> QED
        BY <1>2, <4>1
    <3>3. otps[Len(otps)].attempts \in Int
      BY <3>2, IdentityTypes
    <3>4. read \in VerifyingRow
      BY <1>2, <3>1, <3>3 DEF VerifyingRow
    <3>5. verifying'[c] = read
      BY <1>2, <3>1
    <3>6. read.step = "read" /\ read.code = Len(otps) /\ read.left = otps[Len(otps)].attempts
      OBVIOUS
    <3> HIDE DEF read
    <3> QED
      BY <1>2, <3>1, <3>2, <3>4, <3>5, <3>6
  <2>3. CASE FindAccount(c) /\ accounts = 0
    <3>1. verifying' = [verifying EXCEPT ![c] = missing] /\ verifying[c].step = "accepted"
      BY <2>3 DEF FindAccount
    <3>2. missing.step = "missing" /\ missing.code = verifying[c].code
      BY <1>2 DEF VerifyingRow
    <3>3. verifying[c].code \in 1 .. Len(otps)
      BY <1>0, <3>1 DEF VerifyingPlaced
    <3> HIDE DEF missing
    <3> QED
      BY <1>2, <2>1, <3>1, <3>2, <3>3
  <2>4. CASE OutOfAttempts(c) \/ CreateAccount(c) \/ (FindAccount(c) /\ accounts > 0)
    <3>1. verifying' = [verifying EXCEPT ![c] = none]
      BY <2>4 DEF OutOfAttempts, CreateAccount, FindAccount, Refused
    <3>2. none.step = "no"
      OBVIOUS
    <3> HIDE DEF none
    <3> QED
      BY <1>2, <2>1, <3>1, <3>2
  <2> QED
    BY <2>2, <2>3, <2>4 DEF FindAccount
<1>4. /\ accounts' \in 0 .. 2 /\ logins' \in [Callers -> 0 .. 2] /\ AccountSingle'
  <2>1. accounts \in 0 .. 1 /\ logins \in [Callers -> 0 .. 2] /\ \A d \in Callers : logins[d] <= 1
    BY <1>0 DEF IdentityTypeOK, AccountSingle
  <2>2. CASE UNCHANGED <<accounts, logins>>
    BY <1>0, <2>1, <2>2 DEF AccountSingle
  <2>3. CASE UNCHANGED accounts /\ logins' = [logins EXCEPT ![c] = 1]
    BY <1>0, <2>1, <2>3 DEF AccountSingle
  <2>4. CASE CreateAccount(c)
    <3>1. accounts' = 1 /\ logins' = [logins EXCEPT ![c] = 1]
      <4>1. CASE accounts = 0
        BY <2>4, <4>1 DEF CreateAccount, PhoneFree
      <4>2. CASE accounts = 1
        BY <2>4, <4>2 DEF CreateAccount, PhoneFree
      <4> QED
        BY <2>1, <4>1, <4>2
    <3> QED
      BY <2>1, <3>1 DEF AccountSingle
  <2> QED
    BY <2>2, <2>3, <2>4 DEF ReadOtp, OutOfAttempts, FindAccount
<1>5. IdentityTypeOK'
  BY <1>0, <1>1, <1>3, <1>4 DEF IdentityTypeOK, VerifyingRow
<1>6. ASSUME NEW i \in 1 .. Len(otps)
      PROVE  evaluated[i] + Cardinality(Guessing(i)') <= OtpAttempts + NumCallers - 1
  <2>1. CASE verifying'[c].step # "read"
    BY <1>1, <1>3, <2>1, GuessersLeave
  <2>2. CASE verifying'[c].step = "read" /\ (i # Len(otps) \/ ~(otps[i].attempts > 0))
    <3>1. Guessing(i)' = Guessing(i)
      BY <1>3, <2>2 DEF Guessing
    <3> QED
      BY <1>0, <3>1 DEF CodesCounted
  <2>3. CASE i = Len(otps) /\ otps[i].attempts > 0
    <3>1. Guessing(i)' \in SUBSET Callers
      BY DEF Guessing
    <3>2. Cardinality(Guessing(i)') \in Nat /\ Cardinality(Guessing(i)') <= NumCallers
      BY <3>1, SomeCallers
    <3>3. otps[i].attempts = OtpAttempts - evaluated[i] /\ evaluated[i] \in Nat
      BY <1>0, IdentityTypes DEF CodesCounted
    <3> QED
      BY <2>3, <3>2, <3>3
  <2> QED
    BY <2>1, <2>2, <2>3
<1>7. CodesCounted'
  BY <1>0, <1>1, <1>6 DEF CodesCounted
<1>8. CodesLimited' /\ VerifyingPlaced'
  BY <1>0, <1>1, <1>3 DEF CodesLimited, Requesting, VerifyingPlaced
<1> QED
  BY <1>0, <1>1, <1>4, <1>5, <1>7, <1>8 DEF IdentityInv


\* A wrong guess is counted, the right one consumes the code once.
LEMMA GuessSteps ==
  ASSUME IdentityInv, NEW c \in Callers, GuessWrong(c) \/ GuessRight(c)
  PROVE  IdentityInv'
<1> USE IdentityBounds
<1>0. /\ IdentityTypeOK /\ evaluated \in Seq(Nat) /\ usedBy \in Seq(Nat) /\ CodesCounted /\ CodesLimited
      /\ VerifyingPlaced /\ AccountSingle /\ otps \in Seq(OtpRequestRow)
  BY DEF IdentityInv, IdentityTypeOK
<1>1. UNCHANGED <<otpReads, accounts, logins>> /\ verifying[c].step = "read" /\ verifying[c].left > 0
  BY DEF GuessWrong, GuessRight, AttemptsLeft
<1>code. PICK i \in 1 .. Len(otps) : i = verifying[c].code
  BY <1>0, <1>1 DEF VerifyingPlaced
<1> DEFINE none == [step |-> "no", code |-> 0, left |-> 0, made |-> verifying[c].made]
           wrong == [otps[i] EXCEPT !.attempts = @ - 1]
           right == [otps[i] EXCEPT !.consumed = TRUE]
           taken == [verifying[c] EXCEPT !.step = "accepted"]
<1>2. /\ verifying[c] \in VerifyingRow /\ verifying \in [Callers -> VerifyingRow] /\ Len(otps) \in Nat
      /\ Len(evaluated) = Len(otps) /\ Len(usedBy) = Len(otps)
  BY IdentityTypes
<1>3. /\ i \in 1 .. Len(otps) /\ otps[i] \in OtpRequestRow /\ evaluated[i] \in Nat /\ usedBy[i] \in Nat
      /\ otps[i].attempts \in Int
  BY IdentityTypes
<1>4. none \in VerifyingRow /\ taken \in VerifyingRow /\ none.step = "no" /\ taken.step = "accepted"
      /\ taken.code = i
  BY <1>2, <1>code DEF VerifyingRow
<1>5. /\ verifying' \in [Callers -> VerifyingRow] /\ \A d \in Callers : d # c => verifying'[d] = verifying[d]
      /\ verifying'[c].step # "read" /\ (verifying'[c].step # "no" => verifying'[c].code = i)
  <2>1. verifying' = [verifying EXCEPT ![c] = none] \/ verifying' = [verifying EXCEPT ![c] = taken]
    BY DEF GuessWrong, GuessRight, Refused
  <2> HIDE DEF none, taken
  <2> QED
    BY <1>2, <1>4, <2>1
<1>6. ASSUME Len(otps') = Len(otps), otps' \in Seq(OtpRequestRow), evaluated' \in Seq(Nat),
             usedBy' \in Seq(Nat), Len(evaluated') = Len(otps), Len(usedBy') = Len(otps), CodesCounted'
      PROVE  IdentityInv'
  <2>1. IdentityTypeOK'
    BY <1>0, <1>1, <1>5, <1>6 DEF IdentityTypeOK, VerifyingRow
  <2>2. CodesLimited'
    BY <1>0, <1>1, <1>6 DEF CodesLimited, Requesting
  <2>3. VerifyingPlaced'
    BY <1>0, <1>3, <1>5, <1>6 DEF VerifyingPlaced
  <2>4. AccountSingle'
    BY <1>0, <1>1 DEF AccountSingle
  <2> QED
    BY <1>6, <2>1, <2>2, <2>3, <2>4 DEF IdentityInv
<1>7. CASE GuessWrong(c)
  <2>1. /\ otps' = [otps EXCEPT ![i] = wrong] /\ evaluated' = [evaluated EXCEPT ![i] = evaluated[i] + 1]
        /\ UNCHANGED usedBy
    BY <1>7, <1>code DEF GuessWrong
  <2>2. /\ Guessing(i) \in SUBSET Callers /\ Guessing(i)' \in SUBSET Guessing(i) /\ c \in Guessing(i)
        /\ c \notin Guessing(i)'
    BY <1>1, <1>5, <1>code DEF Guessing
  <2>3. /\ Cardinality(Guessing(i)') <= Cardinality(Guessing(i)) - 1
        /\ Cardinality(Guessing(i)') \in Nat /\ Cardinality(Guessing(i)) \in Nat
    BY <2>2, FewerCallers, SomeCallers
  <2>4. /\ otps[i].attempts = OtpAttempts - evaluated[i]
        /\ evaluated[i] + Cardinality(Guessing(i)) <= OtpAttempts + NumCallers - 1
        /\ usedBy[i] <= 1 /\ (~otps[i].consumed => usedBy[i] = 0)
    BY <1>0, <1>3 DEF CodesCounted
  <2>5. /\ evaluated[i] + 1 + Cardinality(Guessing(i)') <= OtpAttempts + NumCallers - 1
        /\ otps[i].attempts - 1 \in -NumCallers .. OtpAttempts
    <3>1. evaluated[i] \in Nat
      BY <1>3
    <3>2. evaluated[i] + 1 + Cardinality(Guessing(i)') <= OtpAttempts + NumCallers - 1
      BY <2>3, <2>4, <3>1
    <3>3. otps[i].attempts - 1 = OtpAttempts - (evaluated[i] + 1)
      BY <2>4, <3>1, IdentityBounds
    <3>4. \A e, k, a, n \in Nat : e + 1 + k <= a + n - 1 => a - (e + 1) \in -n .. a
      OBVIOUS
    <3>5. OtpAttempts - (evaluated[i] + 1) \in -NumCallers .. OtpAttempts
      BY <2>3, <3>1, <3>2, <3>4, IdentityBounds
    <3> QED
      BY <3>2, <3>3, <3>5
  <2>6. /\ wrong \in OtpRequestRow /\ wrong.attempts = otps[i].attempts - 1
        /\ wrong.consumed = otps[i].consumed
    BY <1>3, <2>5 DEF OtpRequestRow, NumCallers
  <2>7. /\ otps' \in Seq(OtpRequestRow) /\ Len(otps') = Len(otps) /\ otps'[i] = wrong
        /\ \A j \in 1 .. Len(otps) : j # i => otps'[j] = otps[j]
    <3> HIDE DEF wrong
    <3> QED
      BY <1>0, <1>3, <2>1, <2>6, ExceptSeq
  <2>8. /\ evaluated' \in Seq(Nat) /\ Len(evaluated') = Len(otps) /\ evaluated'[i] = evaluated[i] + 1
        /\ \A j \in 1 .. Len(otps) : j # i => evaluated'[j] = evaluated[j]
    <3>1. evaluated[i] + 1 \in Nat /\ i \in 1 .. Len(evaluated)
      BY <1>2, <1>3
    <3> QED
      BY <1>0, <1>2, <2>1, <3>1, ExceptSeq
  <2>9. CodesCounted'
    <3> SUFFICES ASSUME NEW j \in 1 .. Len(otps)
                 PROVE  /\ otps'[j].attempts = OtpAttempts - evaluated'[j]
                        /\ evaluated'[j] + Cardinality(Guessing(j)') <= OtpAttempts + NumCallers - 1
                        /\ usedBy[j] <= 1 /\ (~otps'[j].consumed => usedBy[j] = 0)
      BY <2>1, <2>7 DEF CodesCounted
    <3>1. CASE j = i
      <4>1. otps'[i].attempts = OtpAttempts - evaluated'[i]
        BY <1>3, <2>4, <2>6, <2>7, <2>8
      <4>2. evaluated'[i] + Cardinality(Guessing(i)') <= OtpAttempts + NumCallers - 1
        BY <2>5, <2>8
      <4>3. usedBy[i] <= 1 /\ (~otps'[i].consumed => usedBy[i] = 0)
        BY <2>4, <2>6, <2>7
      <4> QED
        BY <3>1, <4>1, <4>2, <4>3
    <3>2. CASE j # i
      <4>1. Guessing(j)' = Guessing(j)
        BY <1>5, <1>code, <3>2 DEF Guessing
      <4> QED
        BY <1>0, <2>7, <2>8, <3>2, <4>1 DEF CodesCounted
    <3> QED
      BY <3>1, <3>2
  <2> QED
    BY <1>0, <1>2, <1>6, <2>1, <2>7, <2>8, <2>9
<1>8. CASE GuessRight(c)
  <2>1. /\ otps' = [otps EXCEPT ![i] = right] /\ UNCHANGED evaluated
        /\ \/ ~otps[i].consumed /\ usedBy' = [usedBy EXCEPT ![i] = usedBy[i] + 1]
           \/ otps[i].consumed /\ UNCHANGED usedBy
    BY <1>8, <1>code DEF GuessRight, Consumes
  <2>2. right \in OtpRequestRow /\ right.attempts = otps[i].attempts /\ right.consumed = TRUE
    BY <1>3 DEF OtpRequestRow
  <2>3. /\ otps' \in Seq(OtpRequestRow) /\ Len(otps') = Len(otps) /\ otps'[i] = right
        /\ \A j \in 1 .. Len(otps) : j # i => otps'[j] = otps[j]
    <3> HIDE DEF right
    <3> QED
      BY <1>0, <1>3, <2>1, <2>2, ExceptSeq
  <2>4. usedBy[i] <= 1 /\ (~otps[i].consumed => usedBy[i] = 0)
    BY <1>0, <1>3 DEF CodesCounted
  <2>5. /\ usedBy' \in Seq(Nat) /\ Len(usedBy') = Len(otps) /\ usedBy'[i] <= 1
        /\ \A j \in 1 .. Len(otps) : j # i => usedBy'[j] = usedBy[j]
    <3>1. CASE UNCHANGED usedBy
      BY <1>0, <1>2, <2>4, <3>1
    <3>2. CASE ~otps[i].consumed /\ usedBy' = [usedBy EXCEPT ![i] = usedBy[i] + 1]
      <4>1. usedBy[i] + 1 = 1
        BY <2>4, <3>2
      <4> QED
        BY <1>0, <1>2, <1>3, <3>2, <4>1, ExceptSeq
    <3> QED
      BY <2>1, <3>1, <3>2
  <2>6. CodesCounted'
    <3> SUFFICES ASSUME NEW j \in 1 .. Len(otps)
                 PROVE  /\ otps'[j].attempts = OtpAttempts - evaluated[j]
                        /\ evaluated[j] + Cardinality(Guessing(j)') <= OtpAttempts + NumCallers - 1
                        /\ usedBy'[j] <= 1 /\ (~otps'[j].consumed => usedBy'[j] = 0)
      BY <2>1, <2>3 DEF CodesCounted
    <3>1. evaluated[j] + Cardinality(Guessing(j)') <= OtpAttempts + NumCallers - 1
      BY <1>5, <2>1, GuessersLeave
    <3>2. CASE j = i
      <4>1. otps[i].attempts = OtpAttempts - evaluated[i]
        BY <1>0, <1>3 DEF CodesCounted
      <4> QED
        BY <2>2, <2>3, <2>5, <3>1, <3>2, <4>1
    <3>3. CASE j # i
      BY <1>0, <2>3, <2>5, <3>1, <3>3 DEF CodesCounted
    <3> QED
      BY <3>2, <3>3
  <2> QED
    BY <1>0, <1>2, <1>6, <2>1, <2>3, <2>5, <2>6
<1> QED
  BY <1>7, <1>8

\* Every step of a request for a code or of a verification keeps the invariant.
LEMMA IdentitySteps == IdentityInv /\ [IdentityNext]_identityVars => IdentityInv'
<1> SUFFICES ASSUME IdentityInv, [IdentityNext]_identityVars PROVE IdentityInv'
  OBVIOUS
<1>1. CASE UNCHANGED identityVars
  BY <1>1 DEF identityVars, IdentityInv, IdentityTypeOK, CodesCounted, Guessing, CodesLimited, Requesting,
     VerifyingPlaced, AccountSingle
<1>2. CASE IdentityNext
  BY <1>2, RequestOtpSteps, ReadOtpSteps, GuessSteps DEF IdentityNext
<1> QED
  BY <1>1, <1>2

\* OtpService, AccountResolverService and RoleService, for every number of
\* callers, attempts, staff and roles: a code is accepted once and guessed at
\* a bounded number of times, a phone has one account, and no chain of grants
\* adds a capability.
THEOREM AccessEarned == PlatformSpec => []AccessIsEarned
<1>1. Init => IdentityInv /\ RoleInv
  BY IdentityBegins, RolesBegin DEF Init
<1>2. IdentityInv /\ RoleInv /\ [Next]_vars => (IdentityInv /\ RoleInv)'
  <2>1. [Next]_vars => [IdentityNext]_identityVars /\ [RoleNext]_roleVars
    BY DEF Next, vars
  <2> QED
    BY <2>1, IdentitySteps, RoleSteps
<1>3. IdentityInv => IdentityTypeOK /\ CodeUsedOnce /\ GuessesBounded /\ CodesBounded /\ OneAccountPerPhone
  <2> SUFFICES ASSUME IdentityInv
               PROVE  IdentityTypeOK /\ CodeUsedOnce /\ GuessesBounded /\ CodesBounded /\ OneAccountPerPhone
    OBVIOUS
  <2>1. /\ IdentityTypeOK /\ CodesCounted /\ CodesLimited /\ AccountSingle
        /\ evaluated \in Seq(Nat) /\ usedBy \in Seq(Nat)
    BY DEF IdentityInv
  <2>2. DOMAIN usedBy = 1 .. Len(otps) /\ DOMAIN evaluated = 1 .. Len(otps)
    BY <2>1, IdentityTypes, LenProperties
  <2>3. CodeUsedOnce
    BY <2>1, <2>2 DEF CodesCounted, CodeUsedOnce
  <2>4. GuessesBounded
    <3> SUFFICES ASSUME NEW i \in 1 .. Len(otps) PROVE evaluated[i] <= OtpAttempts + NumCallers - 1
      BY <2>2 DEF GuessesBounded, NumCallers
    <3>1. evaluated[i] \in Nat /\ Cardinality(Guessing(i)) \in Nat
      BY IdentityTypes
    <3>2. evaluated[i] + Cardinality(Guessing(i)) <= OtpAttempts + NumCallers - 1
      BY <2>1 DEF CodesCounted
    <3> QED
      BY <3>1, <3>2, IdentityBounds
  <2>5. CodesBounded
    BY <2>1, IdentityTypes, IdentityBounds DEF CodesLimited, CodesBounded, NumCallers
  <2>6. OneAccountPerPhone
    BY <2>1 DEF AccountSingle, OneAccountPerPhone, IdentityTypeOK
  <2> QED
    BY <2>1, <2>3, <2>4, <2>5, <2>6
<1>4. IdentityInv /\ RoleInv => AccessIsEarned
  BY <1>3 DEF RoleInv, AccessIsEarned
<1> QED
  BY <1>1, <1>2, <1>4, PTL DEF PlatformSpec


(* The assistant: the inductive invariant.                                 *)

ConversationRow == [state : {"unborn", "active", "closed", "gone"}, count : Nat, idle : 0 .. 2]
CreateRow == [stage : {"new", "counted", "done"}, owned : SUBSET Conversations]
SendRow == [stage : {"new", "read", "waiting", "done", "failed"}, on : Conversations \union {"none"}, count : Nat]

\* Every position written is at most message_count, and an unborn conversation has none.
TurnsCounted ==
  /\ turns \in [Conversations -> SUBSET Nat]
  /\ \A c \in Conversations : \A s \in turns[c] : s <= talk[c].count
  /\ \A c \in Conversations : talk[c].state = "unborn" => turns[c] = {}

\* The rows held are few enough to count, and no more than the cap.
HeldFew == IsFiniteSet(Held) /\ Cardinality(Held) <= RetainedCap

\* One creation at a time has counted, and what it counted is still what is held.
CountStands ==
  /\ \A j, k \in Creates : (starting[j].stage = "counted" /\ starting[k].stage = "counted") => j = k
  /\ \A k \in Creates : starting[k].stage = "counted" => starting[k].owned = Held

AssistantInv ==
  /\ AssistantTypeOK /\ TurnsCounted /\ HeldFew /\ CountStands
  /\ TurnsQueue /\ accepted <= usage

\* The limits of the assistant are numbers.
LEMMA AssistantBounds == RetainedCap \in Nat /\ RetainedCap > 0 /\ DailyQuota \in Nat /\ MaxDays \in Nat
  BY AssistantAssumption

\* The customer begins with no conversation.
LEMMA AssistantBegins == AssistantInit => AssistantInv
<1> SUFFICES ASSUME AssistantInit PROVE AssistantInv
  OBVIOUS
<1>1. AssistantTypeOK
  BY AssistantBounds DEF AssistantInit, AssistantTypeOK, NewCall
<1>2. TurnsCounted
  BY DEF AssistantInit, TurnsCounted
<1>3. HeldFew
  <2>1. Held = {}
    BY DEF AssistantInit, Held
  <2> QED
    BY <2>1, FS_EmptySet, AssistantBounds DEF HeldFew
<1>4. CountStands /\ TurnsQueue /\ accepted <= usage
  BY DEF AssistantInit, CountStands, TurnsQueue, NewCall
<1> QED
  BY <1>1, <1>2, <1>3, <1>4 DEF AssistantInv

\* A step that changes no conversation's presence keeps the cap and the count.
LEMMA SameHeld ==
  ASSUME HeldFew, CountStands, Held' = Held,
         \A k \in Creates : starting'[k].stage = "counted" => starting'[k] = starting[k]
  PROVE  HeldFew' /\ CountStands'
<1>1. HeldFew'
  BY DEF HeldFew
<1>2. CountStands'
  BY DEF CountStands
<1> QED
  BY <1>1, <1>2

\* Closing what is stale keeps every conversation, its positions and its presence.
LEMMA ClosureKeeps ==
  ASSUME AssistantTypeOK, TurnsCounted, talk' = StaleClosed, UNCHANGED turns
  PROVE  talk' \in [Conversations -> ConversationRow] /\ TurnsCounted' /\ Held' = Held
<1>1. talk \in [Conversations -> ConversationRow]
  BY DEF AssistantTypeOK, ConversationRow
<1>2. \A c \in Conversations : /\ talk'[c] \in ConversationRow /\ talk'[c].count = talk[c].count
                               /\ talk'[c].state = "unborn" <=> talk[c].state = "unborn"
                               /\ talk'[c].state \in {"active", "closed"} <=> talk[c].state \in {"active", "closed"}
  BY <1>1 DEF StaleClosed, Closed, ConversationRow
<1>3. talk' \in [Conversations -> ConversationRow]
  BY <1>2 DEF StaleClosed
<1> QED
  BY <1>2, <1>3 DEF TurnsCounted, Held

\* A count is taken while nobody else holds the lock.
LEMMA CountOwnedSteps ==
  ASSUME AssistantInv, NEW k \in Creates, CountOwned(k)
  PROVE  AssistantInv'
<1>1. talk' \in [Conversations -> ConversationRow] /\ TurnsCounted' /\ Held' = Held
  BY ClosureKeeps DEF CountOwned, AssistantInv
<1>2. AssistantTypeOK'
  <2>1. Held \in SUBSET Conversations
    BY DEF Held
  <2>2. starting' \in [Creates -> CreateRow]
    BY <2>1 DEF CountOwned, AssistantInv, AssistantTypeOK, CreateRow
  <2> QED
    BY <1>1, <2>2 DEF CountOwned, AssistantInv, AssistantTypeOK, CreateRow, ConversationRow, TurnsCounted
<1>3. HeldFew'
  BY <1>1 DEF AssistantInv, HeldFew
<1>4. CountStands'
  BY <1>1 DEF AssistantInv, AssistantTypeOK, CountStands, CountOwned, CreateLockFree
<1>5. TurnsQueue' /\ accepted' <= usage'
  BY DEF AssistantInv, TurnsQueue, CountOwned
<1> QED
  BY <1>1, <1>2, <1>3, <1>4, <1>5 DEF AssistantInv

\* A creation finishes on the count it took: below the cap it adds one, at the cap
\* it replaces a closed one.
LEMMA CreateSteps ==
  ASSUME AssistantInv, NEW k \in Creates, NEW new \in Conversations, CreateConversation(k, new)
  PROVE  AssistantInv'
<1> DEFINE born == [state |-> "active", count |-> 0, idle |-> 0]
<1>1. /\ talk \in [Conversations -> ConversationRow] /\ turns \in [Conversations -> SUBSET Nat]
      /\ starting \in [Creates -> CreateRow] /\ TurnsCounted /\ HeldFew /\ CountStands
  BY DEF AssistantInv, AssistantTypeOK, ConversationRow, CreateRow, TurnsCounted
<1>2. /\ starting[k].stage = "counted" /\ starting[k].owned = Held /\ talk[new].state = "unborn"
      /\ starting' = [starting EXCEPT ![k].stage = "done"]
      /\ UNCHANGED <<usage, today, accepted, asking>>
  BY <1>1 DEF CreateConversation, CountStands
<1>3. /\ starting' \in [Creates -> CreateRow] /\ \A j \in Creates : starting'[j].stage # "counted"
  BY <1>1, <1>2 DEF CountStands, CreateRow
<1>4. new \notin Held /\ turns[new] = {} /\ born \in ConversationRow
  BY <1>1, <1>2 DEF Held, TurnsCounted, ConversationRow
<1>5. CASE /\ Cardinality(Held) < RetainedCap /\ talk' = [talk EXCEPT ![new] = born] /\ UNCHANGED turns
  <2>1. talk' \in [Conversations -> ConversationRow] /\ Held' = Held \union {new}
    BY <1>1, <1>4, <1>5 DEF Held
  <2>2. HeldFew'
    <3>1. IsFiniteSet(Held) /\ Cardinality(Held) \in Nat
      BY <1>1, FS_CardinalityType DEF HeldFew
    <3>2. IsFiniteSet(Held \union {new}) /\ Cardinality(Held \union {new}) = Cardinality(Held) + 1
      BY <1>4, <3>1, FS_AddElement
    <3>3. Cardinality(Held \union {new}) <= RetainedCap
      BY <1>5, <3>1, <3>2, AssistantBounds
    <3> QED
      BY <2>1, <3>2, <3>3 DEF HeldFew
  <2>3. TurnsCounted'
    BY <1>1, <1>4, <1>5 DEF TurnsCounted
  <2> QED
    BY <1>2, <1>3, <2>1, <2>2, <2>3
       DEF AssistantInv, AssistantTypeOK, ConversationRow, CreateRow, TurnsCounted, CountStands, TurnsQueue
<1>6. CASE \E old \in Evictable(k) :
             /\ talk' = [talk EXCEPT ![new] = born, ![old].state = "gone"]
             /\ turns' = [turns EXCEPT ![old] = {}]
  <2> PICK old \in Evictable(k) : /\ talk' = [talk EXCEPT ![new] = born, ![old].state = "gone"]
                                  /\ turns' = [turns EXCEPT ![old] = {}]
    BY <1>6
  <2>1. old \in Held /\ old \in Conversations /\ old # new
    BY <1>2, <1>4 DEF Evictable, Held
  <2>2. /\ talk' \in [Conversations -> ConversationRow] /\ talk'[new] = born /\ talk'[old].state = "gone"
        /\ talk'[old].count = talk[old].count
        /\ \A c \in Conversations : c \notin {new, old} => talk'[c] = talk[c]
    BY <1>1, <1>4, <2>1 DEF ConversationRow
  <2>3. Held' = (Held \ {old}) \union {new}
    BY <2>1, <2>2 DEF Held
  <2>4. HeldFew'
    <3>1. IsFiniteSet(Held) /\ Cardinality(Held) \in Nat /\ Cardinality(Held) <= RetainedCap
      BY <1>1, FS_CardinalityType DEF HeldFew
    <3>2. IsFiniteSet(Held \ {old}) /\ Cardinality(Held \ {old}) = Cardinality(Held) - 1
      BY <2>1, <3>1, FS_RemoveElement
    <3>3. new \notin Held \ {old}
      BY <1>4
    <3>4. /\ IsFiniteSet((Held \ {old}) \union {new})
          /\ Cardinality((Held \ {old}) \union {new}) = Cardinality(Held \ {old}) + 1
      BY <3>2, <3>3, FS_AddElement
    <3>5. Cardinality((Held \ {old}) \union {new}) <= RetainedCap
      BY <3>1, <3>2, <3>4, AssistantBounds
    <3> QED
      BY <2>3, <3>4, <3>5 DEF HeldFew
  <2>5. TurnsCounted'
    <3>1. turns' \in [Conversations -> SUBSET Nat] /\ turns'[old] = {} /\ turns'[new] = {}
      BY <1>1, <1>4, <2>1
    <3>2. \A c \in Conversations : c \notin {new, old} => turns'[c] = turns[c]
      BY <1>1
    <3> QED
      BY <1>1, <2>2, <3>1, <3>2 DEF TurnsCounted
  <2> QED
    BY <1>2, <1>3, <2>2, <2>4, <2>5
       DEF AssistantInv, AssistantTypeOK, ConversationRow, CreateRow, TurnsCounted, CountStands, TurnsQueue
<1> QED
  BY <1>2, <1>5, <1>6 DEF CreateConversation

\* A position one past the count is free: it is written and counted in one step.
LEMMA WriteSteps ==
  ASSUME talk \in [Conversations -> ConversationRow], TurnsCounted, HeldFew, CountStands,
         NEW c \in Held, Write(c, talk[c].count + 1), UNCHANGED starting
  PROVE  /\ talk' \in [Conversations -> ConversationRow]
         /\ TurnsCounted' /\ HeldFew' /\ CountStands'
<1> DEFINE s == talk[c].count + 1
<1>1. c \in Conversations /\ s \in Nat /\ talk[c].state \in {"active", "closed"}
  BY DEF Held, ConversationRow
<1>2. /\ talk' \in [Conversations -> ConversationRow] /\ talk'[c].count = s /\ talk'[c].state = talk[c].state
      /\ \A d \in Conversations : d # c => talk'[d] = talk[d]
  <2> DEFINE row == [state |-> talk[c].state, count |-> s, idle |-> 0]
  <2>1. row \in ConversationRow /\ row.count = s /\ row.state = talk[c].state
    BY <1>1 DEF ConversationRow
  <2>2. talk' = [talk EXCEPT ![c] = row]
    BY <1>1 DEF Write
  <2> HIDE DEF row
  <2> QED
    BY <1>1, <2>1, <2>2
<1>3. Held' = Held
  BY <1>1, <1>2 DEF Held
<1>4. TurnsCounted'
  <2>1. turns' \in [Conversations -> SUBSET Nat] /\ turns'[c] = turns[c] \union {s}
        /\ \A d \in Conversations : d # c => turns'[d] = turns[d]
    BY <1>1 DEF Write, TurnsCounted
  <2>2. \A t \in turns'[c] : t <= s
    <3>1. turns[c] \subseteq Nat /\ talk[c].count \in Nat /\ \A t \in turns[c] : t <= talk[c].count
      BY <1>1 DEF TurnsCounted, ConversationRow
    <3> QED
      BY <2>1, <3>1
  <2>3. \A d \in Conversations : \A t \in turns'[d] : t <= talk'[d].count
    <3> HIDE DEF s
    <3> QED
      BY <1>2, <2>1, <2>2 DEF TurnsCounted
  <2>4. \A d \in Conversations : talk'[d].state = "unborn" => turns'[d] = {}
    BY <1>1, <1>2, <2>1 DEF TurnsCounted
  <2> QED
    BY <2>1, <2>3, <2>4 DEF TurnsCounted
<1> QED
  BY <1>2, <1>3, <1>4, SameHeld

\* A question is charged and stored together, and its position is free.
LEMMA AskSteps ==
  ASSUME AssistantInv, NEW k \in Sends, AskQuestion(k)
  PROVE  AssistantInv'
<1> DEFINE c == asking[k].on
<1>1. /\ talk \in [Conversations -> ConversationRow] /\ asking \in [Sends -> SendRow]
      /\ usage \in 0 .. DailyQuota /\ accepted \in Nat /\ accepted <= usage
      /\ TurnsCounted /\ HeldFew /\ CountStands /\ TurnsQueue
  BY DEF AssistantInv, AssistantTypeOK, ConversationRow, SendRow
<1>2. UNCHANGED <<today, starting>>
  BY DEF AskQuestion
<1>3. CASE c \in Held /\ BelowQuota
  <2>1. c \in Conversations /\ QuestionSequence(k) = talk[c].count + 1
        /\ talk[c].count + 1 \in Nat /\ QuestionSequence(k) \notin turns[c]
    <3>1. c \in Conversations /\ talk[c].count \in Nat
      BY <1>1, <1>3 DEF Held, ConversationRow
    <3>2. turns[c] \subseteq Nat /\ \A t \in turns[c] : t <= talk[c].count
      BY <1>1, <3>1 DEF TurnsCounted
    <3> QED
      BY <3>1, <3>2 DEF QuestionSequence
  <2>2. /\ Write(c, talk[c].count + 1) /\ usage' = usage + 1 /\ accepted' = accepted + 1
        /\ asking' = [asking EXCEPT ![k].stage = "waiting", ![k].count = talk[c].count + 1]
    BY <1>3, <2>1 DEF AskQuestion
  <2>3. talk' \in [Conversations -> ConversationRow] /\ TurnsCounted' /\ HeldFew' /\ CountStands'
    <3> HIDE DEF c
    <3> QED
      BY <1>1, <1>2, <1>3, <2>2, WriteSteps
  <2>4. asking' \in [Sends -> SendRow] /\ TurnsQueue'
    BY <1>1, <2>1, <2>2 DEF SendRow, TurnsQueue
  <2>5. usage' \in 0 .. DailyQuota /\ accepted' \in Nat /\ accepted' <= usage'
    BY <1>1, <1>3, <2>2, AssistantBounds DEF BelowQuota
  <2> QED
    BY <1>2, <2>3, <2>4, <2>5 DEF AssistantInv, AssistantTypeOK, ConversationRow, SendRow, TurnsCounted
<1>4. CASE c \notin Held \/ ~BelowQuota
  <2>1. Finish(k, "done") /\ UNCHANGED <<talk, turns, usage, accepted>>
    BY <1>4 DEF AskQuestion
  <2>2. asking' \in [Sends -> SendRow] /\ TurnsQueue'
    BY <1>1, <2>1 DEF SendRow, TurnsQueue, Finish
  <2>3. TurnsCounted' /\ HeldFew' /\ CountStands'
    BY <1>1, <1>2, <2>1 DEF TurnsCounted, HeldFew, CountStands, Held
  <2> QED
    BY <1>1, <1>2, <2>1, <2>2, <2>3 DEF AssistantInv, AssistantTypeOK, ConversationRow, SendRow
<1> QED
  BY <1>3, <1>4

\* A reply takes the position that is free when it is stored, or is dropped.
LEMMA ReplySteps ==
  ASSUME AssistantInv, NEW k \in Sends, StoreReply(k)
  PROVE  AssistantInv'
<1> DEFINE c == asking[k].on
<1>1. /\ talk \in [Conversations -> ConversationRow] /\ asking \in [Sends -> SendRow]
      /\ TurnsCounted /\ HeldFew /\ CountStands /\ TurnsQueue
  BY DEF AssistantInv, AssistantTypeOK, ConversationRow, SendRow
<1>2. UNCHANGED <<usage, today, accepted, starting>>
  BY DEF StoreReply
<1>3. CASE c \in Held
  <2>1. c \in Conversations /\ ReplySequence(k) = talk[c].count + 1 /\ ReplySequence(k) \notin turns[c]
    <3>1. c \in Conversations /\ talk[c].count \in Nat
      BY <1>1, <1>3 DEF Held, ConversationRow
    <3>2. turns[c] \subseteq Nat /\ \A t \in turns[c] : t <= talk[c].count
      BY <1>1, <3>1 DEF TurnsCounted
    <3> QED
      BY <3>1, <3>2 DEF ReplySequence
  <2>2. Write(c, talk[c].count + 1) /\ Finish(k, "done")
    BY <1>3, <2>1 DEF StoreReply
  <2>3. talk' \in [Conversations -> ConversationRow] /\ TurnsCounted' /\ HeldFew' /\ CountStands'
    <3> HIDE DEF c
    <3> QED
      BY <1>1, <1>2, <1>3, <2>2, WriteSteps
  <2>4. asking' \in [Sends -> SendRow] /\ TurnsQueue'
    BY <1>1, <2>2 DEF SendRow, TurnsQueue, Finish
  <2> QED
    BY <1>2, <2>3, <2>4 DEF AssistantInv, AssistantTypeOK, ConversationRow, SendRow, TurnsCounted
<1>4. CASE c \notin Held
  <2>1. Finish(k, "done") /\ UNCHANGED <<talk, turns>>
    BY <1>4 DEF StoreReply
  <2>2. asking' \in [Sends -> SendRow] /\ TurnsQueue'
    BY <1>1, <2>1 DEF SendRow, TurnsQueue, Finish
  <2>3. TurnsCounted' /\ HeldFew' /\ CountStands'
    BY <1>1, <1>2, <2>1 DEF TurnsCounted, HeldFew, CountStands, Held
  <2> QED
    BY <1>1, <1>2, <2>1, <2>2, <2>3 DEF AssistantInv, AssistantTypeOK, ConversationRow, SendRow
<1> QED
  BY <1>3, <1>4

\* What is removed was held and locked by no creation: a creation that has counted
\* sees none of its rows go.
LEMMA RemovalSteps ==
  ASSUME AssistantInv, NEW gone \in SUBSET Held, RemoveConversation(gone)
  PROVE  AssistantInv'
<1>1. /\ talk \in [Conversations -> ConversationRow] /\ TurnsCounted /\ HeldFew /\ CountStands /\ TurnsQueue
      /\ gone \subseteq Conversations
  BY DEF AssistantInv, AssistantTypeOK, ConversationRow, Held
<1>2. /\ talk' \in [Conversations -> ConversationRow]
      /\ \A c \in gone : talk'[c].state = "gone"
      /\ \A c \in Conversations \ gone : talk'[c] = talk[c]
  BY <1>1 DEF RemoveConversation, ConversationRow
<1>3. Held' = Held \ gone
  BY <1>1, <1>2 DEF Held
<1>4. TurnsCounted'
  BY <1>1, <1>2 DEF TurnsCounted, RemoveConversation
<1>5. HeldFew'
  <2>1. IsFiniteSet(Held) /\ Cardinality(Held) \in Nat /\ Cardinality(Held) <= RetainedCap
    BY <1>1, FS_CardinalityType DEF HeldFew
  <2>2. Held \ gone \subseteq Held
    OBVIOUS
  <2>3. IsFiniteSet(Held \ gone) /\ Cardinality(Held \ gone) <= Cardinality(Held)
    BY <2>1, <2>2, FS_Subset
  <2>4. Cardinality(Held \ gone) \in Nat
    BY <2>3, FS_CardinalityType
  <2>5. Cardinality(Held \ gone) <= RetainedCap
    BY <2>1, <2>3, <2>4, AssistantBounds
  <2> QED
    BY <1>3, <2>3, <2>5 DEF HeldFew
<1>6. CountStands'
  <2>1. UNCHANGED starting /\ gone # {} /\ \A c \in gone : Unlocked(c)
    BY DEF RemoveConversation
  <2>2. \A k \in Creates : starting[k].stage # "counted"
    BY <1>1, <2>1 DEF CountStands, Unlocked
  <2> QED
    BY <2>1, <2>2 DEF CountStands
<1> QED
  BY <1>1, <1>2, <1>4, <1>5, <1>6
     DEF AssistantInv, AssistantTypeOK, ConversationRow, TurnsCounted, RemoveConversation, TurnsQueue

\* Every step keeps the invariant of the assistant.
LEMMA AssistantSteps == AssistantInv /\ [AssistantNext]_assistantVars => AssistantInv'
<1> SUFFICES ASSUME AssistantInv, [AssistantNext]_assistantVars PROVE AssistantInv'
  OBVIOUS
<1>1. /\ talk \in [Conversations -> ConversationRow] /\ asking \in [Sends -> SendRow]
      /\ starting \in [Creates -> CreateRow]
      /\ TurnsCounted /\ HeldFew /\ CountStands /\ TurnsQueue
  BY DEF AssistantInv, AssistantTypeOK, ConversationRow, SendRow, CreateRow
<1>2. ASSUME NEW k \in Creates, RefuseConversation(k) PROVE AssistantInv'
  <2>1. starting' \in [Creates -> CreateRow] /\ Held' = Held
    BY <1>1, <1>2 DEF RefuseConversation, CreateRow, Held
  <2>2. \A j \in Creates : starting'[j].stage = "counted" => starting'[j] = starting[j]
    BY <1>1, <1>2 DEF RefuseConversation, CreateRow
  <2>3. HeldFew' /\ CountStands'
    BY <1>1, <2>1, <2>2, SameHeld
  <2> QED
    BY <1>1, <1>2, <2>1, <2>3
       DEF RefuseConversation, AssistantInv, AssistantTypeOK, ConversationRow, CreateRow, TurnsCounted, TurnsQueue
<1>3. ASSUME NEW k \in Sends, UNCHANGED <<talk, turns, usage, today, accepted, starting>>,
             asking' \in [Sends -> SendRow], TurnsQueue'
      PROVE  AssistantInv'
  <2>1. TurnsCounted' /\ HeldFew' /\ CountStands'
    BY <1>1, <1>3 DEF TurnsCounted, HeldFew, CountStands, Held
  <2> QED
    BY <1>1, <1>3, <2>1 DEF AssistantInv, AssistantTypeOK, SendRow
<1>4. ASSUME NEW k \in Sends, NEW c \in Conversations, ReadConversation(k, c) PROVE AssistantInv'
  <2>1. talk[c].count \in Nat
    BY <1>1 DEF ConversationRow
  <2>2. asking' \in [Sends -> SendRow] /\ TurnsQueue'
    BY <1>1, <1>4, <2>1 DEF ReadConversation, SendRow, TurnsQueue
  <2> QED
    BY <1>3, <1>4, <2>2 DEF ReadConversation
<1>5. ASSUME NEW k \in Sends, ProviderFails(k) PROVE AssistantInv'
  <2>1. asking' \in [Sends -> SendRow] /\ TurnsQueue'
    BY <1>1, <1>5 DEF ProviderFails, Finish, SendRow, TurnsQueue
  <2> QED
    BY <1>3, <1>5, <2>1 DEF ProviderFails
<1>6. ASSUME talk' \in [Conversations -> ConversationRow], TurnsCounted', Held' = Held,
             UNCHANGED <<starting, asking>>, usage' \in 0 .. DailyQuota, today' \in 0 .. MaxDays,
             accepted' \in Nat, accepted' <= usage'
      PROVE  AssistantInv'
  <2>1. HeldFew' /\ CountStands'
    BY <1>1, <1>6, SameHeld
  <2> QED
    BY <1>1, <1>6, <2>1
       DEF AssistantInv, AssistantTypeOK, ConversationRow, CreateRow, SendRow, TurnsCounted, TurnsQueue
<1>7. ASSUME NEW c \in Conversations, LookAt(c) PROVE AssistantInv'
  <2>1. /\ talk' \in [Conversations -> ConversationRow] /\ talk'[c].state = "closed" /\ talk[c].state = "active"
        /\ talk'[c].count = talk[c].count /\ \A d \in Conversations : d # c => talk'[d] = talk[d]
    BY <1>1, <1>7 DEF LookAt, Closed, ConversationRow
  <2>2. Held' = Held
    BY <2>1 DEF Held
  <2>3. TurnsCounted'
    BY <1>1, <1>7, <2>1 DEF TurnsCounted, LookAt
  <2> QED
    BY <1>6, <1>7, <2>1, <2>2, <2>3 DEF LookAt, AssistantInv, AssistantTypeOK
<1>8. ASSUME NEW c \in Conversations, DestroyConversation(c) PROVE AssistantInv'
  <2>1. {c} \in SUBSET Held /\ RemoveConversation({c})
    BY <1>8 DEF DestroyConversation
  <2> QED
    BY <2>1, RemovalSteps
<1>9. ASSUME SweepInactive PROVE AssistantInv'
  <2>1. talk' \in [Conversations -> ConversationRow] /\ TurnsCounted' /\ Held' = Held
    BY <1>9, ClosureKeeps DEF SweepInactive, AssistantInv
  <2> QED
    BY <1>6, <1>9, <2>1 DEF SweepInactive, AssistantInv, AssistantTypeOK
<1>10. ASSUME SweepRetention PROVE AssistantInv'
  <2>1. {c \in Held : Idle(c) = 2} \in SUBSET Held
    OBVIOUS
  <2> QED
    BY <1>10, <2>1, RemovalSteps DEF SweepRetention
<1>11. ASSUME DayPasses PROVE AssistantInv'
  <2>1. /\ talk' \in [Conversations -> ConversationRow]
        /\ \A c \in Conversations : talk'[c].state = talk[c].state /\ talk'[c].count = talk[c].count
    BY <1>1, <1>11 DEF DayPasses, Idle, ConversationRow
  <2>2. Held' = Held
    BY <2>1 DEF Held
  <2>3. TurnsCounted'
    BY <1>1, <1>11, <2>1 DEF TurnsCounted, DayPasses
  <2>4. /\ usage' \in 0 .. DailyQuota /\ today' \in 0 .. MaxDays /\ accepted' \in Nat /\ accepted' <= usage'
    BY <1>11, AssistantBounds DEF DayPasses, AssistantInv, AssistantTypeOK
  <2> QED
    BY <1>6, <1>11, <2>1, <2>2, <2>3, <2>4 DEF DayPasses
<1>12. ASSUME UNCHANGED assistantVars PROVE AssistantInv'
  BY <1>12 DEF assistantVars, AssistantInv, AssistantTypeOK, TurnsCounted, HeldFew, CountStands, Held, TurnsQueue
<1> QED
  BY <1>2, <1>4, <1>5, <1>7, <1>8, <1>9, <1>10, <1>11, <1>12, CountOwnedSteps, CreateSteps, AskSteps, ReplySteps
     DEF AssistantNext

\* However many sends and creations run at once, no send fails on a position that is
\* taken, no more conversations than the cap are held, and no more questions than the
\* quota are stored in a day.
THEOREM AssistantLimited == AssistantSpec => []AssistantWithinLimits
<1>1. AssistantInv => AssistantWithinLimits
  <2> SUFFICES ASSUME AssistantInv PROVE AssistantWithinLimits
    OBVIOUS
  <2>1. QuotaHolds
    BY AssistantBounds DEF AssistantInv, AssistantTypeOK, QuotaHolds
  <2> QED
    BY <2>1 DEF AssistantInv, HeldFew, RetainedCapHolds, AssistantWithinLimits
<1> QED
  BY <1>1, AssistantBegins, AssistantSteps, PTL DEF AssistantSpec


(* Orders on finite sets.                                                  *)

\* A set of natural numbers has a least one.
LEMMA LeastNumber ==
  ASSUME NEW T \in SUBSET Nat, T # {}
  PROVE  \E x \in T : \A y \in T : x <= y
<1> DEFINE R == OpToRel(<, Nat)
<1>1. \A x, y \in Nat : x < y => <<x, y>> \in R
  BY DEF OpToRel
<1>2. IsWellFoundedOn(R, Nat)
  BY NatLessThanWellFounded
<1> HIDE DEF R
<1>3. \E x \in T : \A y \in T : ~(<<y, x>> \in R)
  BY <1>2, WFMin
<1>4. PICK x \in T : \A y \in T : <<y, x>> \notin R
  BY <1>3
<1>5. \A y \in T : ~(y < x)
  BY <1>1, <1>4
<1>6. \A a, b \in Nat : ~(b < a) => a <= b
  OBVIOUS
<1>7. \A y \in T : x <= y
  BY <1>5, <1>6
<1> QED
  BY <1>7

\* A finite set with a strict order has an element that no other precedes: the one
\* with the fewest before it.
LEMMA Foremost ==
  ASSUME NEW S, IsFiniteSet(S), S # {}, NEW R,
         \A a, b, c \in S : <<a, b>> \in R /\ <<b, c>> \in R => <<a, c>> \in R,
         \A a \in S : <<a, a>> \notin R
  PROVE  \E t \in S : \A u \in S : <<u, t>> \notin R
<1> DEFINE Before(t) == {u \in S : <<u, t>> \in R}
           Sizes == {Cardinality(Before(t)) : t \in S}
<1>1. \A t \in S : IsFiniteSet(Before(t)) /\ Cardinality(Before(t)) \in Nat
  <2> SUFFICES ASSUME NEW t \in S PROVE IsFiniteSet(Before(t)) /\ Cardinality(Before(t)) \in Nat
    OBVIOUS
  <2>1. Before(t) \subseteq S
    OBVIOUS
  <2> HIDE DEF Before
  <2>2. IsFiniteSet(Before(t))
    BY <2>1, FS_Subset
  <2> QED
    BY <2>2, FS_CardinalityType
<1>2. PICK n \in Sizes : \A m \in Sizes : n <= m
  <2>1. Sizes \in SUBSET Nat /\ Sizes # {}
    <3> HIDE DEF Before
    <3> QED
      BY <1>1
  <2> HIDE DEF Sizes
  <2> QED
    BY <2>1, LeastNumber
<1>3. PICK t \in S : n = Cardinality(Before(t))
  BY <1>2
<1>4. ASSUME NEW u \in S, <<u, t>> \in R PROVE FALSE
  <2>1. u \in Before(t) /\ u \notin Before(u) /\ Before(u) \subseteq Before(t)
    BY <1>4
  <2>2. Cardinality(Before(t)) <= Cardinality(Before(u))
    <3> HIDE DEF Before
    <3> QED
      BY <1>2, <1>3
  <2>3. IsFiniteSet(Before(t)) /\ Cardinality(Before(t)) \in Nat /\ Cardinality(Before(u)) \in Nat
    BY <1>1
  <2> HIDE DEF Before
  <2>4. Before(u) \subseteq Before(t) \ {u}
    BY <2>1
  <2>5. IsFiniteSet(Before(t) \ {u}) /\ Cardinality(Before(t) \ {u}) = Cardinality(Before(t)) - 1
    BY <2>1, <2>3, FS_RemoveElement
  <2>6. Cardinality(Before(u)) <= Cardinality(Before(t) \ {u})
    BY <2>4, <2>5, FS_Subset
  <2> QED
    BY <2>2, <2>3, <2>5, <2>6
<1> QED
  BY <1>4


(* The wishlist: the inductive invariant.                                  *)

SaveRow == [stage : {"new", "locked", "done"}, target : Targets \union {0}, began : Nat, held : Nat]
PagingRow == [stage : {"none", "next", "end"}, before : Nat, id : Nat,
              shown : SUBSET Targets, expected : SUBSET Targets]

\* The rows saved are few enough to count, and no more than the cap.
SavedFew == IsFiniteSet(Saved) /\ Cardinality(Saved) <= MaxSaved

\* One save at a time holds the lock, for a target it may insert, and what it counted
\* is no less than what is saved.
SaveCounts ==
  /\ \A j, k \in SaveCalls : (saving[j].stage = "locked" /\ saving[k].stage = "locked") => j = k
  /\ \A k \in SaveCalls : saving[k].stage = "locked" =>
       saving[k].target \in Targets /\ saving[k].began <= MaxInstant /\ Cardinality(Saved) <= saving[k].held

\* Of the items held throughout, those shown are the ones at or before the cursor.
CursorDivides ==
  /\ paging \in PagingRow /\ paging.expected \subseteq Saved
  /\ paging.stage = "none" => paging.shown = {} /\ paging.expected = {}
  /\ paging.stage = "next" => \A t \in paging.expected : t \in paging.shown <=> ~PastCursor(t)

WishlistInv == WishlistTypeOK /\ SavedFew /\ SaveCounts /\ CursorDivides /\ PagingComplete

\* The bounds of the wishlist are numbers.
LEMMA WishlistBounds ==
  Targets \subseteq Nat /\ MaxSaved \in Nat /\ MaxInstant \in Nat /\ WishPageSize \in Nat /\ WishPageSize > 0
  BY WishlistAssumption

\* The customer begins with nothing saved and no list read.
LEMMA WishlistBegins == WishlistInit => WishlistInv
<1> SUFFICES ASSUME WishlistInit PROVE WishlistInv
  OBVIOUS
<1>1. Saved = {}
  BY DEF WishlistInit, Saved
<1>2. SavedFew
  BY <1>1, FS_EmptySet, WishlistBounds DEF SavedFew
<1>3. WishlistTypeOK
  <2>1. saving \in [SaveCalls -> SaveRow]
    BY DEF WishlistInit, SaveRow
  <2>2. instant \in 0 .. MaxInstant /\ unavailable \subseteq Targets /\ repeated \in BOOLEAN
    <3>1. instant \in 0 .. MaxInstant
      BY WishlistBounds DEF WishlistInit
    <3>2. unavailable \subseteq Targets
      BY DEF WishlistInit
    <3>3. repeated \in BOOLEAN
      BY Zenon DEF WishlistInit
    <3> QED
      BY <3>1, <3>2, <3>3
  <2>3. paging.stage \in {"none", "next", "end"} /\ paging.shown \subseteq Targets
    BY DEF WishlistInit, NotStarted
  <2>4. Saved \subseteq Targets /\ \A t \in Saved : savedAt[t] \in 0 .. MaxInstant
    BY <1>1
  <2> QED
    BY <2>1, <2>2, <2>3, <2>4, Zenon DEF WishlistTypeOK, SaveRow
<1>4. CursorDivides
  BY <1>1 DEF WishlistInit, CursorDivides, NotStarted, PagingRow
<1> QED
  BY <1>2, <1>3, <1>4 DEF WishlistInit, WishlistInv, SaveCounts, PagingComplete, NotStarted

\* Answering a save leaves the others' locks as they are.
LEMMA AnswerKeeps ==
  ASSUME WishlistInv, NEW k \in SaveCalls, Answer(k)
  PROVE  /\ saving' \in [SaveCalls -> SaveRow] /\ saving'[k].stage = "done"
         /\ \A j \in SaveCalls : j # k => saving'[j] = saving[j]
  BY DEF WishlistInv, WishlistTypeOK, SaveRow, Answer

\* A step that leaves what is saved and the list alone keeps the invariant if its
\* saves do.
LEMMA SavesOnly ==
  ASSUME WishlistInv, UNCHANGED <<savedAt, paging, repeated>>,
         instant' \in 0 .. MaxInstant, unavailable' \in SUBSET Targets,
         saving' \in [SaveCalls -> SaveRow], SaveCounts'
  PROVE  WishlistInv'
<1>1. WishlistTypeOK'
  BY DEF WishlistInv, WishlistTypeOK, Saved, SaveRow
<1>2. SavedFew'
  BY DEF WishlistInv, SavedFew, Saved
<1>3. CursorDivides'
  BY DEF WishlistInv, CursorDivides, PastCursor, Saved
<1>4. PagingComplete'
  BY DEF WishlistInv, PagingComplete
<1> QED
  BY <1>1, <1>2, <1>3, <1>4 DEF WishlistInv

\* Taking the lock counts what is saved.
LEMMA LockSteps ==
  ASSUME WishlistInv, NEW k \in SaveCalls, NEW t \in Targets, LockAndCount(k, t)
  PROVE  WishlistInv'
<1>1. PICK began \in 0 .. instant :
        saving' = [saving EXCEPT ![k] = [stage |-> "locked", target |-> t, began |-> began, held |-> Cardinality(Saved)]]
  BY DEF LockAndCount
<1>2. instant \in Nat /\ instant <= MaxInstant /\ began \in Nat /\ began <= MaxInstant
  BY <1>1, WishlistBounds DEF WishlistInv, WishlistTypeOK
<1>3. Cardinality(Saved) \in Nat
  BY FS_CardinalityType DEF WishlistInv, SavedFew
<1>4. saving \in [SaveCalls -> SaveRow] /\ saving' \in [SaveCalls -> SaveRow]
  BY <1>1, <1>2, <1>3 DEF WishlistInv, WishlistTypeOK, SaveRow
<1>5. Saved' = Saved
  BY DEF LockAndCount, Saved
<1>6. SaveCounts'
  <2>1. \A j \in SaveCalls : saving'[j].stage = "locked" => j = k
    BY <1>1, <1>4 DEF LockAndCount, SubjectFree
  <2>2. saving'[k].target = t /\ saving'[k].began = began /\ saving'[k].held = Cardinality(Saved)
    BY <1>1, <1>4
  <2> QED
    BY <1>2, <1>3, <1>5, <2>1, <2>2 DEF SaveCounts
<1> QED
  BY <1>4, <1>6, SavesOnly DEF LockAndCount, WishlistInv, WishlistTypeOK

\* An insertion happens under the lock and below the cap its count saw; the row it
\* adds is not one the list is expected to show.
LEMMA InsertSteps ==
  ASSUME WishlistInv, NEW k \in SaveCalls, InsertItem(k)
  PROVE  WishlistInv'
<1> DEFINE t == saving[k].target
<1>1. /\ saving[k].stage = "locked" /\ Answer(k) /\ UNCHANGED <<instant, unavailable, paging, repeated>>
      /\ t \in Targets /\ saving[k].began \in 0 .. MaxInstant /\ Cardinality(Saved) <= saving[k].held
      /\ saving[k].held \in Nat
  BY WishlistBounds DEF InsertItem, WishlistInv, WishlistTypeOK, SaveCounts
<1>2. /\ saving' \in [SaveCalls -> SaveRow] /\ \A j \in SaveCalls : saving'[j].stage # "locked"
  BY <1>1, AnswerKeeps DEF WishlistInv, SaveCounts
<1>3. SaveCounts'
  BY <1>2 DEF SaveCounts
<1>4. CASE UNCHANGED savedAt
  BY <1>1, <1>2, <1>3, <1>4, SavesOnly DEF WishlistInv, WishlistTypeOK
<1>5. CASE /\ saving[k].held < MaxSaved /\ t \notin Saved
           /\ savedAt' = [u \in Saved \union {t} |-> IF u = t THEN saving[k].began ELSE savedAt[u]]
  <2>1. Saved' = Saved \union {t} /\ \A u \in Saved : savedAt'[u] = savedAt[u]
    BY <1>5 DEF Saved
  <2>2. \A u \in Saved' : savedAt'[u] \in 0 .. MaxInstant
    BY <1>1, <1>5, <2>1 DEF WishlistInv, WishlistTypeOK
  <2>3. WishlistTypeOK'
    BY <1>1, <1>2, <2>1, <2>2 DEF WishlistInv, WishlistTypeOK, SaveRow
  <2>4. SavedFew'
    <3>1. IsFiniteSet(Saved) /\ Cardinality(Saved) \in Nat
      BY FS_CardinalityType DEF WishlistInv, SavedFew
    <3>2. IsFiniteSet(Saved \union {t}) /\ Cardinality(Saved \union {t}) = Cardinality(Saved) + 1
      <4> HIDE DEF t
      <4> QED
        BY <1>5, <3>1, FS_AddElement
    <3>3. Cardinality(Saved \union {t}) <= MaxSaved
      BY <1>1, <1>5, <3>1, <3>2, WishlistBounds
    <3> QED
      BY <2>1, <3>2, <3>3 DEF SavedFew
  <2>5. CursorDivides'
    BY <1>1, <2>1 DEF WishlistInv, CursorDivides, PastCursor
  <2>6. PagingComplete'
    BY <1>1 DEF WishlistInv, PagingComplete
  <2> QED
    BY <1>3, <2>3, <2>4, <2>5, <2>6 DEF WishlistInv
<1> QED
  BY <1>4, <1>5 DEF InsertItem

\* A removal frees a place and is expected no more.
LEMMA RemoveSteps ==
  ASSUME WishlistInv, NEW t \in Targets, RemoveItem(t)
  PROVE  WishlistInv'
<1>1. /\ savedAt' = [u \in Saved \ {t} |-> savedAt[u]] /\ UNCHANGED <<instant, unavailable, saving, repeated>>
      /\ paging' = [paging EXCEPT !.expected = @ \ {t}] /\ t \in Saved
  BY DEF RemoveItem
<1>2. Saved' = Saved \ {t} /\ \A u \in Saved' : savedAt'[u] = savedAt[u]
  BY <1>1 DEF Saved
<1>3. WishlistTypeOK'
  BY <1>1, <1>2 DEF WishlistInv, WishlistTypeOK, CursorDivides, PagingRow
<1>4. /\ IsFiniteSet(Saved') /\ Cardinality(Saved') = Cardinality(Saved) - 1
      /\ Cardinality(Saved) \in Nat /\ Cardinality(Saved) <= MaxSaved
  <2>1. IsFiniteSet(Saved) /\ Cardinality(Saved) <= MaxSaved
    BY DEF WishlistInv, SavedFew
  <2> QED
    BY <1>1, <1>2, <2>1, FS_RemoveElement, FS_CardinalityType
<1>5. SavedFew'
  BY <1>4, WishlistBounds DEF SavedFew
<1>6. SaveCounts'
  BY <1>1, <1>4 DEF WishlistInv, WishlistTypeOK, SaveCounts
<1>7. /\ paging' \in PagingRow /\ paging'.stage = paging.stage /\ paging'.before = paging.before
      /\ paging'.id = paging.id /\ paging'.shown = paging.shown /\ paging'.expected = paging.expected \ {t}
  BY <1>1 DEF WishlistInv, CursorDivides, PagingRow
<1>8. CursorDivides'
  BY <1>2, <1>7 DEF WishlistInv, CursorDivides, PastCursor
<1>9. PagingComplete'
  BY <1>1, <1>7 DEF WishlistInv, PagingComplete
<1> QED
  BY <1>3, <1>5, <1>6, <1>8, <1>9 DEF WishlistInv


\* The list's order on some of its rows, as a set of pairs.
OrderOn(rows) == {p \in rows \X rows : Precedes(p[1], p[2])}

\* The order of the list is strict and total on what is saved.
LEMMA ListOrdered ==
  ASSUME WishlistInv
  PROVE  /\ \A a, b, c \in Saved : Precedes(a, b) /\ Precedes(b, c) => Precedes(a, c)
         /\ \A a \in Saved : ~Precedes(a, a)
         /\ \A a, b \in Saved : a = b \/ Precedes(a, b) \/ Precedes(b, a)
         /\ \A a \in Saved : a \in Nat /\ savedAt[a] \in Nat
<1>1. \A a \in Saved : a \in Nat /\ savedAt[a] \in Nat
  BY WishlistBounds DEF WishlistInv, WishlistTypeOK
<1> QED
  BY <1>1 DEF Precedes

\* A page is not empty unless there is nothing to list.
LEMMA PageNotEmpty ==
  ASSUME WishlistInv, NEW rows \in SUBSET Saved, rows # {}
  PROVE  PageOf(rows) # {}
<1> DEFINE R == OrderOn(rows)
<1>1. IsFiniteSet(rows)
  BY FS_Subset DEF WishlistInv, SavedFew
<1>2. /\ \A a, b, c \in rows : <<a, b>> \in R /\ <<b, c>> \in R => <<a, c>> \in R
      /\ \A a \in rows : <<a, a>> \notin R
      /\ \A a, b \in rows : Precedes(a, b) => <<a, b>> \in R
  BY ListOrdered DEF OrderOn
<1> HIDE DEF R
<1>3. PICK t \in rows : \A u \in rows : <<u, t>> \notin R
  BY <1>1, <1>2, Foremost
<1>4. {u \in rows : Precedes(u, t)} = {}
  BY <1>2, <1>3
<1>5. t \in PageOf(rows)
  BY <1>4, FS_EmptySet, WishlistBounds DEF PageOf
<1> QED
  BY <1>5

\* A page has a last row.
LEMMA PageHasLast ==
  ASSUME WishlistInv, NEW sheet \in SUBSET Saved, sheet # {}
  PROVE  \E t \in sheet : \A u \in sheet : u = t \/ Precedes(u, t)
<1> DEFINE R == {p \in sheet \X sheet : Precedes(p[2], p[1])}
<1>1. IsFiniteSet(sheet)
  BY FS_Subset DEF WishlistInv, SavedFew
<1>2. /\ \A a, b, c \in sheet : <<a, b>> \in R /\ <<b, c>> \in R => <<a, c>> \in R
      /\ \A a \in sheet : <<a, a>> \notin R
      /\ \A a, b \in sheet : Precedes(b, a) => <<a, b>> \in R
  BY ListOrdered
<1> HIDE DEF R
<1>3. PICK t \in sheet : \A u \in sheet : <<u, t>> \notin R
  BY <1>1, <1>2, Foremost
<1>4. \A u \in sheet : u = t \/ Precedes(u, t)
  BY <1>2, <1>3, ListOrdered
<1> QED
  BY <1>4

\* A page is the front of what is listed: a row that precedes one of the page is on it.
LEMMA PageIsFront ==
  ASSUME WishlistInv, NEW rows \in SUBSET Saved, NEW last \in PageOf(rows), NEW t \in rows, Precedes(t, last)
  PROVE  t \in PageOf(rows)
<1> DEFINE Before(x) == {u \in rows : Precedes(u, x)}
<1>1. last \in rows /\ Cardinality(Before(last)) < WishPageSize
  BY DEF PageOf
<1>2. Before(t) \subseteq Before(last) /\ Before(last) \subseteq rows
  BY <1>1, ListOrdered
<1>3. IsFiniteSet(rows)
  BY FS_Subset DEF WishlistInv, SavedFew
<1>4. Cardinality(Before(t)) < WishPageSize
  <2> HIDE DEF Before
  <2>1. IsFiniteSet(Before(last))
    BY <1>2, <1>3, FS_Subset
  <2>2. IsFiniteSet(Before(t)) /\ Cardinality(Before(t)) <= Cardinality(Before(last))
    BY <1>2, <2>1, FS_Subset
  <2>3. Cardinality(Before(t)) \in Nat /\ Cardinality(Before(last)) \in Nat
    BY <2>1, <2>2, FS_CardinalityType
  <2> QED
    BY <1>1, <2>2, <2>3, WishlistBounds
<1> QED
  BY <1>4 DEF PageOf

\* The millisecond of an instant tells apart what it tells apart.
LEMMA Milliseconds ==
  /\ \A a \in Nat : Millisecond(a) \in Nat /\ 2 * Millisecond(a) <= a
  /\ \A a, b \in Nat : Millisecond(a) # Millisecond(b) =>
       (a < b <=> a < 2 * Millisecond(b)) /\ a # 2 * Millisecond(b)
  BY DEF Millisecond


\* Reading a page moves the cursor past its rows and before every other row that was
\* to come, so that no row held throughout is skipped or shown again.
LEMMA ReadSteps ==
  ASSUME WishlistInv, ReadWishes
  PROVE  WishlistInv'
<1> DEFINE sheet == PageOf(Listed)
           last == CHOOSE t \in sheet : \A u \in sheet : u = t \/ Precedes(u, t)
           held == IF paging.stage = "none" THEN Saved ELSE paging.expected
<1>1. /\ UNCHANGED <<instant, savedAt, unavailable, saving>> /\ paging.stage # "end"
      /\ paging' = [stage |-> IF Listed = sheet THEN "end" ELSE "next",
                    before |-> IF Listed = sheet THEN 0 ELSE 2 * Millisecond(savedAt[last]),
                    id |-> IF Listed = sheet THEN 0 ELSE last,
                    shown |-> paging.shown \union sheet,
                    expected |-> held \ Indistinct]
      /\ repeated' = (repeated \/ sheet \cap paging.shown \cap paging.expected # {})
  BY DEF ReadWishes
<1>2. /\ Listed \subseteq Saved /\ sheet \subseteq Listed /\ held \subseteq Saved /\ Saved \subseteq Targets
      /\ paging \in PagingRow /\ CursorDivides /\ PagingComplete
  BY DEF Listed, PageOf, WishlistInv, CursorDivides, WishlistTypeOK
<1>3. Saved' = Saved /\ SavedFew' /\ SaveCounts'
  BY <1>1 DEF WishlistInv, SavedFew, SaveCounts, Saved
<1>4. \A t \in held : t \in paging.shown <=> t \notin Listed
  BY <1>1, <1>2 DEF CursorDivides, Listed, PastCursor, PagingRow
<1>5. ~repeated'
  <2>1. paging.expected = {} \/ paging.expected = held
    BY <1>2 DEF CursorDivides
  <2> QED
    BY <1>1, <1>2, <1>4, <2>1 DEF PagingComplete, WishlistInv, WishlistTypeOK
<1>6. CASE Listed = sheet
  <2>1. /\ paging'.stage = "end" /\ paging'.shown = paging.shown \union sheet
        /\ paging'.expected = held \ Indistinct /\ paging' \in PagingRow
    BY <1>1, <1>2, <1>6 DEF PagingRow
  <2>2. paging'.expected \subseteq paging'.shown /\ paging'.expected \subseteq Saved'
    BY <1>2, <1>3, <1>4, <1>6, <2>1
  <2>3. WishlistTypeOK'
    BY <1>1, <1>3, <1>5, <2>1 DEF WishlistInv, WishlistTypeOK, PagingRow
  <2>4. CursorDivides'
    BY <2>1, <2>2 DEF CursorDivides
  <2> QED
    BY <1>3, <1>5, <2>1, <2>2, <2>3, <2>4 DEF WishlistInv, PagingComplete
<1>7. CASE Listed # sheet
  <2>1. sheet # {}
    BY <1>2, <1>7, PageNotEmpty
  <2>2. sheet \in SUBSET Saved
    BY <1>2
  <2>3. last \in sheet /\ \A u \in sheet : u = last \/ Precedes(u, last)
    <3>1. \E t \in sheet : \A u \in sheet : u = t \/ Precedes(u, t)
      <4> HIDE DEF sheet
      <4> QED
        BY <2>1, <2>2, PageHasLast
    <3> HIDE DEF sheet
    <3> QED
      BY <3>1
  <2>4. last \in Saved /\ last \in Nat /\ savedAt[last] \in Nat
    <3> HIDE DEF last
    <3> QED
      BY <1>2, <2>3, ListOrdered
  <2> HIDE DEF last
  <2> DEFINE edge == 2 * Millisecond(savedAt[last])
  <2>5. /\ paging'.stage = "next" /\ paging'.shown = paging.shown \union sheet /\ paging'.before = edge
        /\ paging'.id = last /\ paging'.expected = held \ Indistinct
    BY <1>1, <1>7
  <2>6. edge \in Nat
    BY <2>4, Milliseconds
  <2>7. paging' \in PagingRow
    <3>1. paging' = [stage |-> "next", before |-> edge, id |-> last,
                     shown |-> paging.shown \union sheet, expected |-> held \ Indistinct]
      BY <1>1, <1>7
    <3>2. paging.shown \union sheet \subseteq Targets /\ held \ Indistinct \subseteq Targets
      BY <1>2 DEF PagingRow
    <3> HIDE DEF edge, sheet, held
    <3> QED
      BY <2>4, <2>6, <3>1, <3>2 DEF PagingRow
  <2>8. ASSUME NEW t \in held \ Indistinct
        PROVE  PastCursor(t)' <=> Precedes(last, t)
    <3>1. t \in Saved /\ t \in Nat /\ savedAt[t] \in Nat
      BY <1>2, ListOrdered
    <3>2. t # last => Millisecond(savedAt[t]) # Millisecond(savedAt[last])
      BY <2>4, <3>1 DEF Indistinct
    <3>3. PastCursor(t)' <=> (savedAt[t] < edge \/ (savedAt[t] = edge /\ t < last))
      BY <1>1, <2>5 DEF PastCursor
    <3>4. CASE t = last
      BY <2>4, <3>3, <3>4, Milliseconds DEF Precedes
    <3>5. CASE t # last
      <4>1. /\ savedAt[t] < savedAt[last] <=> savedAt[t] < edge
            /\ savedAt[t] # edge /\ savedAt[t] # savedAt[last]
        BY <2>4, <3>1, <3>2, <3>5, Milliseconds
      <4> QED
        BY <2>4, <3>1, <3>3, <4>1 DEF Precedes
    <3> QED
      BY <3>4, <3>5
  <2>9. ASSUME NEW t \in held \ Indistinct
        PROVE  t \in paging'.shown <=> ~PastCursor(t)'
    <3>1. t \in Saved
      BY <1>2
    <3>2. CASE t \in sheet
      <4>1. ~Precedes(last, t)
        BY <2>3, <2>4, <3>1, <3>2, ListOrdered
      <4> QED
        BY <2>5, <2>8, <3>2, <4>1
    <3>3. CASE t \in Listed \ sheet
      <4>1. Precedes(last, t)
        BY <1>2, <2>3, <2>4, <3>1, <3>3, ListOrdered, PageIsFront
      <4> QED
        BY <1>4, <2>5, <2>8, <3>3, <4>1
    <3>4. CASE t \notin Listed
      <4>1. t \in paging.shown
        BY <1>4, <3>4
      <4>2. ~PastCursor(t) /\ last \in Listed
        BY <1>2, <2>3, <3>1, <3>4 DEF Listed
      <4>3. ~Precedes(last, t)
        <5>1. /\ PastCursor(last) /\ paging.stage = "next" /\ paging.before \in Nat /\ paging.id \in Nat
          BY <1>1, <1>2, <4>2 DEF Listed, PastCursor, PagingRow
        <5>2. t \in Nat /\ savedAt[t] \in Nat
          BY <3>1, ListOrdered
        <5> QED
          BY <2>4, <4>2, <5>1, <5>2 DEF Precedes, PastCursor
      <4> QED
        BY <2>5, <2>8, <4>1, <4>3
    <3> QED
      BY <3>2, <3>3, <3>4
  <2>10. CursorDivides'
    BY <1>2, <1>3, <2>5, <2>7, <2>9 DEF CursorDivides
  <2>11. WishlistTypeOK'
    BY <1>1, <1>3, <1>5, <2>7 DEF WishlistInv, WishlistTypeOK, PagingRow
  <2>12. PagingComplete'
    BY <1>5, <2>5 DEF PagingComplete
  <2> QED
    BY <1>3, <2>10, <2>11, <2>12 DEF WishlistInv
<1> QED
  BY <1>6, <1>7

\* Every step keeps the invariant of the wishlist.
LEMMA WishlistSteps == WishlistInv /\ [WishlistNext]_wishlistVars => WishlistInv'
<1> SUFFICES ASSUME WishlistInv, [WishlistNext]_wishlistVars PROVE WishlistInv'
  OBVIOUS
<1>1. /\ saving \in [SaveCalls -> SaveRow] /\ SaveCounts /\ instant \in 0 .. MaxInstant
      /\ unavailable \in SUBSET Targets
  BY DEF WishlistInv, WishlistTypeOK, SaveRow
<1>2. ASSUME NEW k \in SaveCalls, NEW t \in Targets, SaveAgain(k, t) PROVE WishlistInv'
  <2>1. saving' \in [SaveCalls -> SaveRow] /\ SaveCounts'
    BY <1>1, <1>2, AnswerKeeps DEF SaveAgain, SaveCounts, Saved
  <2> QED
    BY <1>1, <1>2, <2>1, SavesOnly DEF SaveAgain
<1>3. ASSUME NEW t \in Targets, TargetGoes(t) PROVE WishlistInv'
  <2>1. SaveCounts' /\ unavailable' \in SUBSET Targets
    BY <1>1, <1>3 DEF TargetGoes, SaveCounts, Saved
  <2> QED
    BY <1>1, <1>3, <2>1, SavesOnly DEF TargetGoes
<1>4. ASSUME InstantPasses PROVE WishlistInv'
  <2>1. SaveCounts' /\ instant' \in 0 .. MaxInstant
    BY <1>1, <1>4, WishlistBounds DEF InstantPasses, SaveCounts, Saved
  <2> QED
    BY <1>1, <1>4, <2>1, SavesOnly DEF InstantPasses
<1>5. ASSUME UNCHANGED wishlistVars PROVE WishlistInv'
  <2>1. SaveCounts'
    BY <1>1, <1>5 DEF wishlistVars, SaveCounts, Saved
  <2> QED
    BY <1>1, <1>5, <2>1, SavesOnly DEF wishlistVars
<1> QED
  BY <1>2, <1>3, <1>4, <1>5, LockSteps, InsertSteps, RemoveSteps, ReadSteps DEF WishlistNext

\* Whatever saves run at once the cap holds, and a client that reads the list to its end
\* has been shown, once, every item held throughout.
THEOREM WishlistKept == WishlistSpec => []WishlistConsistent
<1>1. WishlistInv => WishlistConsistent
  BY DEF WishlistInv, SavedFew, WishCapHolds, WishlistConsistent
<1> QED
  BY <1>1, WishlistBegins, WishlistSteps, PTL DEF WishlistSpec


(* Media: the inductive invariant.                                         *)

MediaRow == [status : {"none", "pending", "stored", "deleted"}, stale : BOOLEAN]
FinalizeRow == [at : {"idle", "read", "accepted", "rejected", "discarding"}, media : MediaIds \union {NoImage}]
ChangeRow == [at : {"idle", "open"}, old : MediaIds \union {NoImage}, new : MediaIds \union {NoImage}]

\* A rejection that has removed the bytes and is about to remove the row.
Discarding(m) == \E f \in FinalizeCalls : finalizes[f].at = "discarding" /\ finalizes[f].media = m

\* A finalisation is of an image, one that has been granted.
FinalizesPlaced ==
  \A f \in FinalizeCalls : finalizes[f].at # "idle" =>
    finalizes[f].media \in MediaIds /\ objects[finalizes[f].media].status # "none"

\* What was accepted, and is not deleted, has its bytes, and so has what is stored.
BytesThere ==
  /\ \A f \in FinalizeCalls :
       (finalizes[f].at = "accepted" /\ objects[finalizes[f].media].status # "deleted") =>
         bytes[finalizes[f].media] # "none" \/ Discarding(finalizes[f].media)
  /\ \A m \in MediaIds : objects[m].status = "stored" => bytes[m] # "none" \/ Discarding(m)

\* Bytes are purged of deleted rows only, and reports are of images that were stored.
PurgesDeleted ==
  /\ \A m \in purges : objects[m].status = "deleted"
  /\ \A m \in MediaIds : abuse[m] # "none" => objects[m].status \in {"stored", "deleted"}

\* The images that count, and the grants that are on their way.
Counting == {m \in MediaIds : objects[m].status \in {"pending", "stored"}}
Granting == {c \in GrantCalls : grantCalls[c] = "counted"}
GrantsCounted ==
  Cardinality(Counting) + Cardinality(Granting)
    <= PerUserQuota + MaxPendingGrants + Cardinality(GrantCalls) - 2

MediaInv == MediaTypeOK /\ FinalizesPlaced /\ BytesThere /\ PurgesDeleted /\ GrantsCounted

\* The limits are numbers, and what is counted is finite.
LEMMA MediaBounds ==
  /\ PerUserQuota \in Nat /\ PerUserQuota > 0 /\ MaxPendingGrants \in Nat /\ MaxPendingGrants > 0
  /\ IsFiniteSet(MediaIds) /\ IsFiniteSet(GrantCalls) /\ Cardinality(GrantCalls) \in Nat
  BY MediaAssumption, FS_CardinalityType

\* Some of the images and some of the calls are finitely many.
LEMMA SomeMedia ==
  /\ \A S \in SUBSET MediaIds : IsFiniteSet(S) /\ Cardinality(S) \in Nat
  /\ \A C \in SUBSET GrantCalls :
       IsFiniteSet(C) /\ Cardinality(C) \in Nat /\ Cardinality(C) <= Cardinality(GrantCalls)
<1>1. ASSUME NEW S \in SUBSET MediaIds PROVE IsFiniteSet(S) /\ Cardinality(S) \in Nat
  BY MediaBounds, FS_Subset, FS_CardinalityType
<1>2. ASSUME NEW C \in SUBSET GrantCalls
      PROVE  IsFiniteSet(C) /\ Cardinality(C) \in Nat /\ Cardinality(C) <= Cardinality(GrantCalls)
  BY MediaBounds, FS_Subset, FS_CardinalityType
<1> QED
  BY <1>1, <1>2

\* Fewer images and fewer grants count for less.
LEMMA MediaFewer ==
  /\ \A S, T \in SUBSET MediaIds : S \subseteq T => Cardinality(S) <= Cardinality(T)
  /\ \A S, T \in SUBSET GrantCalls : S \subseteq T => Cardinality(S) <= Cardinality(T)
<1>1. ASSUME NEW S \in SUBSET MediaIds, NEW T \in SUBSET MediaIds, S \subseteq T
      PROVE  Cardinality(S) <= Cardinality(T)
  BY <1>1, SomeMedia, FS_Subset
<1>2. ASSUME NEW S \in SUBSET GrantCalls, NEW T \in SUBSET GrantCalls, S \subseteq T
      PROVE  Cardinality(S) <= Cardinality(T)
  BY <1>2, SomeMedia, FS_Subset
<1> QED
  BY <1>1, <1>2

\* The owner begins without images.
LEMMA MediaBegins == MediaInit => MediaInv
<1> SUFFICES ASSUME MediaInit PROVE MediaInv
  OBVIOUS
<1>1. MediaTypeOK
  BY DEF MediaInit, MediaTypeOK, NotFinalizing, NotChanging
<1>2. FinalizesPlaced /\ BytesThere
  BY DEF MediaInit, FinalizesPlaced, BytesThere, NotFinalizing
<1>5. PurgesDeleted
  BY DEF MediaInit, PurgesDeleted
<1>6. GrantsCounted
  <2>1. Counting = {} /\ Granting = {}
    BY DEF MediaInit, Counting, Granting
  <2> QED
    BY <2>1, FS_EmptySet, MediaBounds DEF GrantsCounted
<1> QED
  BY <1>1, <1>2, <1>5, <1>6 DEF MediaInv

\* Marking one row changes its status and nothing else.
LEMMA MarkedRow ==
  ASSUME MediaTypeOK, NEW m \in MediaIds, NEW st \in {"none", "pending", "stored", "deleted"}
  PROVE  /\ Marked(m, st) \in [MediaIds -> MediaRow] /\ Marked(m, st)[m].status = st
         /\ \A n \in MediaIds : n # m => Marked(m, st)[n] = objects[n]
  BY DEF MediaTypeOK, MediaRow, Marked

\* With nothing more that counts and no further call, the quota is kept.
LEMMA NoMoreGrants ==
  ASSUME MediaInv, Counting' \subseteq Counting, Granting' \subseteq Granting
  PROVE  GrantsCounted'
<1>1. /\ Counting \in SUBSET MediaIds /\ Counting' \in SUBSET MediaIds
      /\ Granting \in SUBSET GrantCalls /\ Granting' \in SUBSET GrantCalls
  BY DEF Counting, Granting
<1>2. /\ Cardinality(Counting) \in Nat /\ Cardinality(Counting') \in Nat
      /\ Cardinality(Granting) \in Nat /\ Cardinality(Granting') \in Nat
  BY <1>1, SomeMedia
<1>3. Cardinality(Counting') <= Cardinality(Counting) /\ Cardinality(Granting') <= Cardinality(Granting)
  BY <1>1, MediaFewer
<1> QED
  BY <1>2, <1>3, MediaBounds DEF MediaInv, GrantsCounted

\* The two counts and the insert: what is counted twice over is no more than the
\* calls that counted together.
LEMMA GrantSteps ==
  ASSUME MediaInv, NEW c \in GrantCalls, CountObjects(c) \/ InsertGrant(c)
  PROVE  MediaInv'
<1>0. /\ MediaTypeOK /\ FinalizesPlaced /\ BytesThere /\ PurgesDeleted /\ GrantsCounted
      /\ grantCalls \in [GrantCalls -> {"idle", "counted"}] /\ objects \in [MediaIds -> MediaRow]
  BY DEF MediaInv, MediaTypeOK, MediaRow
<1>1. CASE CountObjects(c)
  <2>1. /\ grantCalls' \in [GrantCalls -> {"idle", "counted"}]
        /\ UNCHANGED <<objects, bytes, finalizes, profileImage, imageCalls, purges, abuse>>
    BY <1>0, <1>1 DEF CountObjects
  <2>2. /\ Counting' = WithStatus("stored") \union WithStatus("pending")
        /\ WithStatus("stored") \cap WithStatus("pending") = {}
        /\ WithStatus("stored") \in SUBSET MediaIds /\ WithStatus("pending") \in SUBSET MediaIds
        /\ Granting' \in SUBSET GrantCalls
    BY <2>1 DEF Counting, WithStatus, Granting
  <2>3. /\ IsFiniteSet(WithStatus("stored")) /\ IsFiniteSet(WithStatus("pending"))
        /\ Cardinality(WithStatus("stored")) \in Nat /\ Cardinality(WithStatus("pending")) \in Nat
        /\ Cardinality(Granting') \in Nat /\ Cardinality(Granting') <= Cardinality(GrantCalls)
    BY <2>2, SomeMedia
  <2>4. Cardinality(Counting') = Cardinality(WithStatus("stored")) + Cardinality(WithStatus("pending"))
    <3>1. Cardinality(WithStatus("stored") \union WithStatus("pending"))
            = Cardinality(WithStatus("stored")) + Cardinality(WithStatus("pending"))
                - Cardinality(WithStatus("stored") \cap WithStatus("pending"))
      BY <2>3, FS_Union
    <3> QED
      BY <2>2, <2>3, <3>1, FS_EmptySet
  <2>5. Cardinality(WithStatus("stored")) < PerUserQuota /\ Cardinality(WithStatus("pending")) < MaxPendingGrants
    BY <1>1 DEF CountObjects, BelowPendingLimit
  <2>6. GrantsCounted'
    BY <2>3, <2>4, <2>5, MediaBounds DEF GrantsCounted
  <2> QED
    BY <1>0, <2>1, <2>6 DEF MediaInv, MediaTypeOK, FinalizesPlaced, BytesThere, Discarding, PurgesDeleted
<1>2. CASE InsertGrant(c)
  <2>1. PICK m \in WithStatus("none") : objects' = Marked(m, "pending")
    BY <1>2 DEF InsertGrant
  <2>2. /\ m \in MediaIds /\ objects[m].status = "none" /\ objects' \in [MediaIds -> MediaRow]
        /\ objects'[m].status = "pending" /\ \A n \in MediaIds : n # m => objects'[n] = objects[n]
    BY <1>0, <2>1, MarkedRow DEF WithStatus
  <2>3. /\ grantCalls[c] = "counted" /\ grantCalls' = [grantCalls EXCEPT ![c] = "idle"]
        /\ UNCHANGED <<bytes, finalizes, profileImage, imageCalls, purges, abuse>>
    BY <1>2 DEF InsertGrant
  <2>4. MediaTypeOK'
    BY <1>0, <2>2, <2>3 DEF MediaTypeOK, MediaRow
  <2>5. FinalizesPlaced' /\ BytesThere' /\ PurgesDeleted'
    <3>1. \A n \in MediaIds : objects[n].status # "none" => objects'[n] = objects[n]
      BY <1>0, <2>2
    <3>2. FinalizesPlaced' /\ PurgesDeleted'
      BY <1>0, <2>2, <2>3, <3>1 DEF FinalizesPlaced, PurgesDeleted, MediaTypeOK
    <3>4. \A n \in MediaIds : Discarding(n)' <=> Discarding(n)
      BY <2>3 DEF Discarding
    <3>5. ASSUME NEW g \in FinalizeCalls, finalizes'[g].at = "accepted", objects'[finalizes'[g].media].status # "deleted"
          PROVE  (bytes[finalizes[g].media] # "none" \/ Discarding(finalizes[g].media))'
      BY <1>0, <2>3, <3>1, <3>4, <3>5 DEF BytesThere, FinalizesPlaced, Discarding
    <3>6. ASSUME NEW n \in MediaIds, objects'[n].status = "stored" PROVE bytes'[n] # "none" \/ Discarding(n)'
      BY <1>0, <2>2, <2>3, <3>4, <3>6 DEF BytesThere
    <3> QED
      BY <3>2, <3>5, <3>6 DEF BytesThere
  <2>6. /\ Counting' = Counting \union {m} /\ m \notin Counting /\ Counting \in SUBSET MediaIds
        /\ Granting' = Granting \ {c} /\ c \in Granting /\ Granting \in SUBSET GrantCalls
    BY <1>0, <2>2, <2>3 DEF Counting, Granting
  <2>7. /\ Cardinality(Counting') = Cardinality(Counting) + 1 /\ Cardinality(Counting) \in Nat
        /\ Cardinality(Granting') = Cardinality(Granting) - 1 /\ Cardinality(Granting) \in Nat
    <3>1. IsFiniteSet(Counting) /\ IsFiniteSet(Granting) /\ Cardinality(Counting) \in Nat /\ Cardinality(Granting) \in Nat
      BY <2>6, SomeMedia
    <3> QED
      BY <2>6, <3>1, FS_AddElement, FS_RemoveElement
  <2>8. GrantsCounted'
    BY <1>0, <2>7, MediaBounds DEF GrantsCounted
  <2> QED
    BY <2>4, <2>5, <2>8 DEF MediaInv
<1> QED
  BY <1>1, <1>2

\* The steps of a finalisation, each on what the row and the bytes are by then.
LEMMA FinalizeSteps ==
  ASSUME MediaInv, NEW f \in FinalizeCalls,
         \/ \E m \in MediaIds : ReadForFinalize(f, m)
         \/ Probe(f) \/ ClaimStored(f) \/ DiscardBytes(f) \/ DiscardRow(f)
  PROVE  MediaInv'
<1>0. /\ MediaTypeOK /\ FinalizesPlaced /\ BytesThere /\ PurgesDeleted /\ GrantsCounted
      /\ finalizes \in [FinalizeCalls -> FinalizeRow] /\ objects \in [MediaIds -> MediaRow]
      /\ bytes \in [MediaIds -> {"none", "image", "other"}]
  BY DEF MediaInv, MediaTypeOK, MediaRow, FinalizeRow
<1>1. UNCHANGED <<grantCalls, profileImage, imageCalls, purges, abuse>>
  <2>1. ASSUME NEW m \in MediaIds, ReadForFinalize(f, m) PROVE \E at, n : Finalizing(f, at, n)
    BY <2>1 DEF ReadForFinalize
  <2>2. ASSUME ClaimStored(f) \/ DiscardBytes(f) \/ DiscardRow(f) PROVE \E at, n : Finalizing(f, at, n)
    BY <2>2 DEF ClaimStored, DiscardBytes, DiscardRow
  <2>3. ASSUME Probe(f) PROVE \E at, n : Finalizing(f, at, n)
    <3>1. bytes[finalizes[f].media] \in {"none", "image", "other"}
      BY <1>0, <2>3 DEF Probe, FinalizesPlaced
    <3> QED
      BY <2>3, <3>1 DEF Probe
  <2> QED
    BY <2>1, <2>2, <2>3 DEF Finalizing
<1>2. Granting' = Granting
  BY <1>1 DEF Granting
<1>3. CASE \E m \in MediaIds : ReadForFinalize(f, m)
  <2> PICK m \in MediaIds : ReadForFinalize(f, m)
    BY <1>3
  <2>1. /\ finalizes' = [finalizes EXCEPT ![f] = [at |-> "read", media |-> m]] /\ UNCHANGED <<objects, bytes>>
        /\ objects[m].status = "pending" /\ finalizes[f].at = "idle"
    BY DEF ReadForFinalize, Finalizing
  <2>2. finalizes' \in [FinalizeCalls -> FinalizeRow]
    BY <1>0, <2>1 DEF FinalizeRow
  <2>3. FinalizesPlaced' /\ BytesThere'
    BY <1>0, <2>1, <2>2 DEF FinalizesPlaced, BytesThere, Discarding
  <2>4. GrantsCounted'
    BY <1>2, <2>1, NoMoreGrants DEF Counting
  <2> QED
    BY <1>0, <1>1, <2>1, <2>2, <2>3, <2>4 DEF MediaInv, MediaTypeOK, FinalizeRow, PurgesDeleted
<1> DEFINE m == finalizes[f].media
<1>4. CASE Probe(f)
  <2>1. m \in MediaIds /\ objects[m].status # "none" /\ UNCHANGED <<objects, bytes>> /\ finalizes[f].at = "read"
    BY <1>0, <1>4 DEF Probe, FinalizesPlaced
  <2>2. \/ finalizes' = [finalizes EXCEPT ![f] = [at |-> "idle", media |-> NoImage]]
        \/ bytes[m] = "image" /\ finalizes' = [finalizes EXCEPT ![f] = [at |-> "accepted", media |-> m]]
        \/ finalizes' = [finalizes EXCEPT ![f] = [at |-> "rejected", media |-> m]]
    BY <1>0, <1>4, <2>1 DEF Probe, Finalizing
  <2>3. finalizes' \in [FinalizeCalls -> FinalizeRow]
    BY <1>0, <2>1, <2>2 DEF FinalizeRow
  <2>4. FinalizesPlaced'
    BY <1>0, <2>1, <2>2, <2>3 DEF FinalizesPlaced
  <2>5. BytesThere'
    <3>1. \A n \in MediaIds : Discarding(n) => Discarding(n)'
      BY <1>0, <2>1, <2>2 DEF Discarding
    <3>2. ASSUME NEW g \in FinalizeCalls, finalizes'[g].at = "accepted", objects'[finalizes'[g].media].status # "deleted"
          PROVE  (bytes[finalizes[g].media] # "none" \/ Discarding(finalizes[g].media))'
      BY <1>0, <2>1, <2>2, <3>1, <3>2 DEF BytesThere, FinalizesPlaced, Discarding
    <3> QED
      BY <1>0, <2>1, <3>1, <3>2 DEF BytesThere
  <2>6. GrantsCounted'
    BY <1>2, <2>1, NoMoreGrants DEF Counting
  <2> QED
    BY <1>0, <1>1, <2>1, <2>3, <2>4, <2>5, <2>6 DEF MediaInv, MediaTypeOK, FinalizeRow, PurgesDeleted
<1>5. CASE ClaimStored(f)
  <2>1. /\ m \in MediaIds /\ objects[m].status # "none" /\ UNCHANGED bytes /\ finalizes[f].at = "accepted"
        /\ finalizes' = [finalizes EXCEPT ![f] = [at |-> "idle", media |-> NoImage]]
        /\ objects' = IF objects[m].status = "pending" THEN Marked(m, "stored") ELSE objects
    BY <1>0, <1>5 DEF ClaimStored, FinalizesPlaced, Finalizing, Claimable
  <2>2. /\ finalizes' \in [FinalizeCalls -> FinalizeRow] /\ finalizes'[f].at = "idle"
        /\ \A g \in FinalizeCalls : g # f => finalizes'[g] = finalizes[g]
    BY <1>0, <2>1 DEF FinalizeRow
  <2>3. /\ objects' \in [MediaIds -> MediaRow] /\ \A n \in MediaIds : n # m => objects'[n] = objects[n]
        /\ \/ objects[m].status = "pending" /\ objects'[m].status = "stored"
           \/ objects[m].status # "pending" /\ objects'[m] = objects[m]
    BY <1>0, <2>1, MarkedRow
  <2>4. FinalizesPlaced'
    BY <1>0, <2>2, <2>3 DEF FinalizesPlaced
  <2>5. \A n \in MediaIds : Discarding(n) => Discarding(n)'
    BY <2>1, <2>2 DEF Discarding
  <2>6. BytesThere'
    <3>1. objects[m].status # "deleted" => bytes[m] # "none" \/ Discarding(m)
      BY <1>0, <2>1 DEF BytesThere
    <3>2. \A n \in MediaIds : objects'[n].status = "stored" => bytes'[n] # "none" \/ Discarding(n)'
      BY <1>0, <2>1, <2>3, <2>5, <3>1 DEF BytesThere
    <3>3. ASSUME NEW g \in FinalizeCalls, finalizes'[g].at = "accepted", objects'[finalizes'[g].media].status # "deleted"
          PROVE  (bytes[finalizes[g].media] # "none" \/ Discarding(finalizes[g].media))'
      <4>1. g # f /\ finalizes'[g] = finalizes[g] /\ finalizes[g].media \in MediaIds
        BY <1>0, <2>2, <3>3 DEF FinalizesPlaced
      <4>2. objects[finalizes[g].media].status # "deleted"
        BY <2>3, <3>3, <4>1
      <4>3. bytes[finalizes[g].media] # "none" \/ Discarding(finalizes[g].media)
        BY <1>0, <3>3, <4>1, <4>2 DEF BytesThere
      <4> QED
        BY <2>1, <2>5, <4>1, <4>3 DEF Discarding
    <3> QED
      BY <3>2, <3>3 DEF BytesThere
  <2>7. GrantsCounted'
    BY <1>2, <2>1, <2>3, NoMoreGrants DEF Counting
  <2>8. PurgesDeleted'
    <3>1. \A n \in purges : objects'[n].status = "deleted"
      BY <1>0, <2>1, <2>3 DEF PurgesDeleted, MediaTypeOK
    <3>2. \A n \in MediaIds : objects[n].status \in {"stored", "deleted"} => objects'[n].status \in {"stored", "deleted"}
      BY <2>3
    <3> QED
      BY <1>0, <1>1, <3>1, <3>2 DEF PurgesDeleted
  <2> QED
    BY <1>0, <1>1, <2>1, <2>2, <2>3, <2>4, <2>6, <2>7, <2>8 DEF MediaInv, MediaTypeOK, FinalizeRow, MediaRow
<1>6. CASE DiscardBytes(f)
  <2>1. /\ m \in MediaIds /\ objects[m].status # "none" /\ UNCHANGED objects /\ finalizes[f].at = "rejected"
        /\ finalizes' = [finalizes EXCEPT ![f] = [at |-> "discarding", media |-> m]]
        /\ bytes' \in {bytes, [bytes EXCEPT ![m] = "none"]}
    BY <1>0, <1>6 DEF DiscardBytes, FinalizesPlaced, Finalizing
  <2>2. /\ finalizes' \in [FinalizeCalls -> FinalizeRow] /\ finalizes'[f].at = "discarding" /\ finalizes'[f].media = m
        /\ \A g \in FinalizeCalls : g # f => finalizes'[g] = finalizes[g]
    BY <1>0, <2>1 DEF FinalizeRow
  <2>3. /\ bytes' \in [MediaIds -> {"none", "image", "other"}]
        /\ \A n \in MediaIds : n # m => bytes'[n] = bytes[n]
    BY <1>0, <2>1
  <2>4. FinalizesPlaced'
    BY <1>0, <2>1, <2>2 DEF FinalizesPlaced
  <2>5. \A n \in MediaIds : Discarding(n) => Discarding(n)'
    BY <2>1, <2>2 DEF Discarding
  <2>6. BytesThere'
    <3>1. ASSUME NEW n \in MediaIds, objects'[n].status = "stored" PROVE bytes'[n] # "none" \/ Discarding(n)'
      <4>1. bytes[n] # "none" \/ Discarding(n)
        BY <1>0, <2>1, <3>1 DEF BytesThere
      <4>2. n = m => Discarding(n)'
        BY <2>2 DEF Discarding
      <4> QED
        BY <2>3, <2>5, <4>1, <4>2
    <3>2. ASSUME NEW g \in FinalizeCalls, finalizes'[g].at = "accepted", objects'[finalizes'[g].media].status # "deleted"
          PROVE  (bytes[finalizes[g].media] # "none" \/ Discarding(finalizes[g].media))'
      <4>1. g # f /\ finalizes'[g] = finalizes[g] /\ finalizes[g].media \in MediaIds
        BY <1>0, <2>2, <3>2 DEF FinalizesPlaced
      <4>2. bytes[finalizes[g].media] # "none" \/ Discarding(finalizes[g].media)
        BY <1>0, <2>1, <3>2, <4>1 DEF BytesThere
      <4>3. CASE finalizes[g].media = m
        BY <2>2, <4>1, <4>3 DEF Discarding
      <4>4. CASE finalizes[g].media # m
        <5>1. bytes'[finalizes[g].media] = bytes[finalizes[g].media]
          BY <2>3, <4>1, <4>4
        <5> QED
          BY <2>5, <4>1, <4>2, <5>1 DEF Discarding
      <4> QED
        BY <4>3, <4>4
    <3> QED
      BY <3>1, <3>2 DEF BytesThere
  <2>7. GrantsCounted'
    BY <1>2, <2>1, NoMoreGrants DEF Counting
  <2> QED
    BY <1>0, <1>1, <2>1, <2>2, <2>3, <2>4, <2>6, <2>7 DEF MediaInv, MediaTypeOK, FinalizeRow, PurgesDeleted
<1>7. CASE DiscardRow(f)
  <2>1. /\ m \in MediaIds /\ objects[m].status # "none" /\ UNCHANGED bytes
        /\ finalizes' = [finalizes EXCEPT ![f] = [at |-> "idle", media |-> NoImage]]
        /\ objects' = Marked(m, "deleted")
    BY <1>0, <1>7 DEF DiscardRow, FinalizesPlaced, Finalizing
  <2>2. /\ finalizes' \in [FinalizeCalls -> FinalizeRow] /\ finalizes'[f].at = "idle"
        /\ \A g \in FinalizeCalls : g # f => finalizes'[g] = finalizes[g]
    BY <1>0, <2>1 DEF FinalizeRow
  <2>3. /\ objects' \in [MediaIds -> MediaRow] /\ \A n \in MediaIds : n # m => objects'[n] = objects[n]
        /\ objects'[m].status = "deleted"
    BY <1>0, <2>1, MarkedRow
  <2>4. FinalizesPlaced'
    BY <1>0, <2>2, <2>3 DEF FinalizesPlaced
  <2>5. \A n \in MediaIds : n # m /\ Discarding(n) => Discarding(n)'
    BY <2>1, <2>2 DEF Discarding
  <2>6. BytesThere'
    <3>1. \A n \in MediaIds : objects'[n].status = "stored" => bytes'[n] # "none" \/ Discarding(n)'
      BY <1>0, <2>1, <2>3, <2>5 DEF BytesThere
    <3>2. ASSUME NEW g \in FinalizeCalls, finalizes'[g].at = "accepted", objects'[finalizes'[g].media].status # "deleted"
          PROVE  (bytes[finalizes[g].media] # "none" \/ Discarding(finalizes[g].media))'
      <4>1. g # f /\ finalizes'[g] = finalizes[g] /\ finalizes[g].media \in MediaIds /\ finalizes[g].media # m
        BY <1>0, <2>2, <2>3, <3>2 DEF FinalizesPlaced
      <4>2. bytes[finalizes[g].media] # "none" \/ Discarding(finalizes[g].media)
        BY <1>0, <2>3, <3>2, <4>1 DEF BytesThere
      <4> QED
        BY <2>1, <2>5, <4>1, <4>2 DEF Discarding
    <3> QED
      BY <3>1, <3>2 DEF BytesThere
  <2>7. GrantsCounted'
    BY <1>2, <2>3, NoMoreGrants DEF Counting
  <2>8. PurgesDeleted'
    <3>1. \A n \in purges : objects'[n].status = "deleted"
      BY <1>0, <2>1, <2>3 DEF PurgesDeleted, MediaTypeOK
    <3>2. \A n \in MediaIds : objects[n].status \in {"stored", "deleted"} => objects'[n].status \in {"stored", "deleted"}
      BY <2>3
    <3> QED
      BY <1>0, <1>1, <3>1, <3>2 DEF PurgesDeleted
  <2> QED
    BY <1>0, <1>1, <2>1, <2>2, <2>3, <2>4, <2>6, <2>7, <2>8 DEF MediaInv, MediaTypeOK, FinalizeRow, MediaRow
<1> QED
  BY <1>3, <1>4, <1>5, <1>6, <1>7

\* Rows are only taken down, and the bytes only of rows that are down: what is stored
\* keeps its bytes and nothing more counts.
LEMMA TakenDown ==
  ASSUME MediaInv, MediaTypeOK', grantCalls' = grantCalls, finalizes' = finalizes,
         \A n \in MediaIds : objects'[n].status \in {objects[n].status, "deleted"},
         \A n \in MediaIds : bytes'[n] # "none" \/ bytes'[n] = bytes[n] \/ objects[n].status = "deleted",
         \A n \in purges' : objects'[n].status = "deleted",
         \A n \in MediaIds : abuse'[n] # "none" => abuse[n] # "none" \/ objects[n].status = "stored"
  PROVE  MediaInv'
<1>0. FinalizesPlaced /\ BytesThere /\ PurgesDeleted /\ MediaTypeOK
  BY DEF MediaInv
<1>1. FinalizesPlaced'
  BY <1>0 DEF FinalizesPlaced
<1>2. \A n \in MediaIds : Discarding(n)' <=> Discarding(n)
  BY DEF Discarding
<1>3. \A n \in MediaIds : objects'[n].status = "stored" => bytes'[n] # "none" \/ Discarding(n)'
  BY <1>0, <1>2 DEF BytesThere
<1>4. ASSUME NEW g \in FinalizeCalls, finalizes'[g].at = "accepted", objects'[finalizes'[g].media].status # "deleted"
      PROVE  (bytes[finalizes[g].media] # "none" \/ Discarding(finalizes[g].media))'
  <2>1. finalizes'[g] = finalizes[g] /\ finalizes[g].media \in MediaIds
    BY <1>0, <1>4 DEF FinalizesPlaced
  <2>2. objects[finalizes[g].media].status # "deleted"
    BY <1>4, <2>1
  <2>3. bytes[finalizes[g].media] # "none" \/ Discarding(finalizes[g].media)
    BY <1>0, <1>4, <2>1, <2>2 DEF BytesThere
  <2> QED
    BY <2>1, <2>2, <2>3 DEF Discarding
<1>5. BytesThere'
  BY <1>3, <1>4 DEF BytesThere
<1>6. PurgesDeleted'
  BY <1>0 DEF PurgesDeleted
<1>7. GrantsCounted'
  BY NoMoreGrants DEF Counting, Granting
<1> QED
  BY <1>1, <1>5, <1>6, <1>7 DEF MediaInv

\* Every step keeps the invariant of the images.
LEMMA MediaSteps == MediaInv /\ [MediaNext]_mediaVars => MediaInv'
<1> SUFFICES ASSUME MediaInv, [MediaNext]_mediaVars PROVE MediaInv'
  OBVIOUS
<1>0. /\ MediaTypeOK /\ PurgesDeleted /\ objects \in [MediaIds -> MediaRow] /\ purges \subseteq MediaIds
      /\ bytes \in [MediaIds -> {"none", "image", "other"}] /\ imageCalls \in [ImageCalls -> ChangeRow]
      /\ abuse \in [MediaIds -> {"none", "open", "upheld", "rejected"}]
  BY DEF MediaInv, MediaTypeOK, MediaRow, ChangeRow
<1>1. ASSUME NEW c \in ImageCalls, NEW m \in MediaIds \union {NoImage}, ReadProfile(c, m) PROVE MediaInv'
  <2>1. /\ UNCHANGED <<objects, bytes, grantCalls, finalizes, profileImage, purges, abuse>>
        /\ imageCalls' = [imageCalls EXCEPT ![c] = [at |-> "open", old |-> profileImage, new |-> m]]
    BY <1>1 DEF ReadProfile
  <2>2. MediaTypeOK'
    BY <1>0, <2>1 DEF MediaTypeOK, ChangeRow
  <2>3. grantCalls' = grantCalls /\ finalizes' = finalizes
    BY <2>1
  <2>4. /\ \A n \in MediaIds : objects'[n].status \in {objects[n].status, "deleted"}
        /\ \A n \in MediaIds : bytes'[n] # "none" \/ bytes'[n] = bytes[n] \/ objects[n].status = "deleted"
    BY <1>0, <2>1, <2>2
  <2>5. \A n \in purges' : objects'[n].status = "deleted"
    BY <1>0, <2>1, <2>2 DEF PurgesDeleted
  <2>6. \A n \in MediaIds : abuse'[n] # "none" => abuse[n] # "none" \/ objects[n].status = "stored"
    BY <1>0, <2>1, <2>2
  <2> QED
    BY <2>2, <2>3, <2>4, <2>5, <2>6, TakenDown
<1>2. ASSUME NEW c \in ImageCalls, WriteProfile(c) PROVE MediaInv'
  <2> DEFINE gone == {imageCalls[c].old} \ ({NoImage, imageCalls[c].new} \union WithStatus("deleted"))
  <2>1. /\ bytes' = bytes /\ grantCalls' = grantCalls /\ finalizes' = finalizes /\ abuse' = abuse
        /\ profileImage' = imageCalls[c].new /\ imageCalls' = [imageCalls EXCEPT ![c] = NotChanging]
        /\ purges' = purges \union gone
        /\ objects' = [n \in MediaIds |-> IF n \in gone THEN [objects[n] EXCEPT !.status = "deleted"]
                                         ELSE objects[n]]
    BY <1>2 DEF WriteProfile
  <2>2. imageCalls[c] \in ChangeRow /\ gone \subseteq MediaIds
    BY <1>0 DEF ChangeRow
  <2> HIDE DEF gone
  <2>3. \A n \in MediaIds : /\ objects'[n] \in MediaRow /\ objects'[n].status \in {objects[n].status, "deleted"}
                            /\ n \in gone => objects'[n].status = "deleted"
    BY <1>0, <2>1, <2>2 DEF MediaRow
  <2>4. objects' \in [MediaIds -> MediaRow]
    BY <2>1, <2>3
  <2>5. imageCalls' \in [ImageCalls -> ChangeRow] /\ profileImage' \in MediaIds \union {NoImage}
    BY <1>0, <2>1, <2>2 DEF ChangeRow, NotChanging
  <2>6. MediaTypeOK'
    BY <1>0, <2>1, <2>2, <2>4, <2>5 DEF MediaTypeOK, MediaRow, ChangeRow, MediaInv
  <2>7. \A n \in purges' : objects'[n].status = "deleted"
    BY <1>0, <2>1, <2>2, <2>3 DEF PurgesDeleted
  <2>8. /\ \A n \in MediaIds : bytes'[n] # "none" \/ bytes'[n] = bytes[n] \/ objects[n].status = "deleted"
        /\ \A n \in MediaIds : abuse'[n] # "none" => abuse[n] # "none" \/ objects[n].status = "stored"
    BY <2>1
  <2> QED
    BY <2>1, <2>3, <2>6, <2>7, <2>8, TakenDown
<1>3. ASSUME NEW m \in MediaIds, Upload(m) PROVE MediaInv'
  <2>1. /\ UNCHANGED <<objects, grantCalls, finalizes, profileImage, imageCalls, purges, abuse>>
        /\ bytes' \in [MediaIds -> {"none", "image", "other"}]
        /\ \A n \in MediaIds : bytes'[n] # "none" \/ bytes'[n] = bytes[n]
    BY <1>0, <1>3 DEF Upload
  <2>2. MediaTypeOK'
    BY <1>0, <2>1 DEF MediaTypeOK
  <2>3. grantCalls' = grantCalls /\ finalizes' = finalizes
    BY <2>1
  <2>4. /\ \A n \in MediaIds : objects'[n].status \in {objects[n].status, "deleted"}
        /\ \A n \in MediaIds : bytes'[n] # "none" \/ bytes'[n] = bytes[n] \/ objects[n].status = "deleted"
    BY <1>0, <2>1, <2>2
  <2>5. \A n \in purges' : objects'[n].status = "deleted"
    BY <1>0, <2>1, <2>2 DEF PurgesDeleted
  <2>6. \A n \in MediaIds : abuse'[n] # "none" => abuse[n] # "none" \/ objects[n].status = "stored"
    BY <1>0, <2>1, <2>2
  <2> QED
    BY <2>2, <2>3, <2>4, <2>5, <2>6, TakenDown
<1>4. ASSUME NEW m \in MediaIds, GrantLapses(m) PROVE MediaInv'
  <2>1. /\ UNCHANGED <<bytes, grantCalls, finalizes, profileImage, imageCalls, purges, abuse>>
        /\ objects' \in [MediaIds -> MediaRow] /\ \A n \in MediaIds : objects'[n].status = objects[n].status
    BY <1>0, <1>4 DEF GrantLapses, MediaRow
  <2>2. MediaTypeOK'
    BY <1>0, <2>1 DEF MediaTypeOK, MediaRow
  <2>3. grantCalls' = grantCalls /\ finalizes' = finalizes
    BY <2>1
  <2>4. /\ \A n \in MediaIds : objects'[n].status \in {objects[n].status, "deleted"}
        /\ \A n \in MediaIds : bytes'[n] # "none" \/ bytes'[n] = bytes[n] \/ objects[n].status = "deleted"
    BY <1>0, <2>1, <2>2
  <2>5. \A n \in purges' : objects'[n].status = "deleted"
    BY <1>0, <2>1, <2>2 DEF PurgesDeleted
  <2>6. \A n \in MediaIds : abuse'[n] # "none" => abuse[n] # "none" \/ objects[n].status = "stored"
    BY <1>0, <2>1, <2>2
  <2> QED
    BY <2>2, <2>3, <2>4, <2>5, <2>6, TakenDown
<1>5. ASSUME NEW m \in MediaIds, Purge(m) PROVE MediaInv'
  <2>1. /\ UNCHANGED <<objects, grantCalls, finalizes, profileImage, imageCalls, abuse>>
        /\ bytes' \in [MediaIds -> {"none", "image", "other"}] /\ purges' = purges \ {m}
        /\ \A n \in MediaIds : n # m => bytes'[n] = bytes[n]
        /\ objects[m].status = "deleted"
    BY <1>0, <1>5 DEF Purge, PurgesDeleted
  <2>2. MediaTypeOK'
    BY <1>0, <2>1 DEF MediaTypeOK
  <2>3. grantCalls' = grantCalls /\ finalizes' = finalizes
    BY <2>1
  <2>4. /\ \A n \in MediaIds : objects'[n].status \in {objects[n].status, "deleted"}
        /\ \A n \in MediaIds : bytes'[n] # "none" \/ bytes'[n] = bytes[n] \/ objects[n].status = "deleted"
    BY <1>0, <2>1, <2>2
  <2>5. \A n \in purges' : objects'[n].status = "deleted"
    BY <1>0, <2>1, <2>2 DEF PurgesDeleted
  <2>6. \A n \in MediaIds : abuse'[n] # "none" => abuse[n] # "none" \/ objects[n].status = "stored"
    BY <1>0, <2>1, <2>2
  <2> QED
    BY <2>2, <2>3, <2>4, <2>5, <2>6, TakenDown
<1>6. ASSUME NEW m \in MediaIds, ReportAbuse(m) PROVE MediaInv'
  <2>1. /\ UNCHANGED <<objects, bytes, grantCalls, finalizes, profileImage, imageCalls, purges>>
        /\ abuse' \in [MediaIds -> {"none", "open", "upheld", "rejected"}] /\ objects[m].status = "stored"
        /\ \A n \in MediaIds : n # m => abuse'[n] = abuse[n]
    BY <1>0, <1>6 DEF ReportAbuse
  <2>2. MediaTypeOK'
    BY <1>0, <2>1 DEF MediaTypeOK
  <2>3. grantCalls' = grantCalls /\ finalizes' = finalizes
    BY <2>1
  <2>4. /\ \A n \in MediaIds : objects'[n].status \in {objects[n].status, "deleted"}
        /\ \A n \in MediaIds : bytes'[n] # "none" \/ bytes'[n] = bytes[n] \/ objects[n].status = "deleted"
    BY <1>0, <2>1, <2>2
  <2>5. \A n \in purges' : objects'[n].status = "deleted"
    BY <1>0, <2>1, <2>2 DEF PurgesDeleted
  <2>6. \A n \in MediaIds : abuse'[n] # "none" => abuse[n] # "none" \/ objects[n].status = "stored"
    BY <1>0, <2>1, <2>2
  <2> QED
    BY <2>2, <2>3, <2>4, <2>5, <2>6, TakenDown
<1>7. ASSUME NEW m \in MediaIds, NEW d \in {"upheld", "rejected"}, DecideAbuse(m, d) PROVE MediaInv'
  <2>1. /\ UNCHANGED <<bytes, grantCalls, finalizes, profileImage, imageCalls>>
        /\ abuse[m] = "open" /\ objects[m].status \in {"stored", "deleted"}
        /\ abuse' \in [MediaIds -> {"none", "open", "upheld", "rejected"}]
        /\ \A n \in MediaIds : n # m => abuse'[n] = abuse[n]
    BY <1>0, <1>7 DEF DecideAbuse, PurgesDeleted
  <2>2. CASE d = "upheld" /\ objects[m].status = "stored"
    <3>1. objects' = Marked(m, "deleted") /\ purges' = purges \union {m}
      BY <1>7, <2>2 DEF DecideAbuse
    <3>2. /\ objects' \in [MediaIds -> MediaRow] /\ objects'[m].status = "deleted"
          /\ \A n \in MediaIds : n # m => objects'[n] = objects[n]
      BY <1>0, <3>1, MarkedRow
    <3>3. MediaTypeOK'
      BY <1>0, <2>1, <3>1, <3>2 DEF MediaTypeOK, MediaRow
    <3>4. grantCalls' = grantCalls /\ finalizes' = finalizes
      BY <2>1
    <3>5. /\ \A n \in MediaIds : objects'[n].status \in {objects[n].status, "deleted"}
          /\ \A n \in MediaIds : bytes'[n] # "none" \/ bytes'[n] = bytes[n] \/ objects[n].status = "deleted"
      BY <1>0, <2>1, <2>2, <3>1, <3>2, <3>3
    <3>6. \A n \in purges' : objects'[n].status = "deleted"
      BY <1>0, <2>1, <2>2, <3>1, <3>2, <3>3 DEF PurgesDeleted
    <3>7. \A n \in MediaIds : abuse'[n] # "none" => abuse[n] # "none" \/ objects[n].status = "stored"
      BY <1>0, <2>1, <2>2, <3>1, <3>2, <3>3
    <3> QED
      BY <2>2, <3>1, <3>2, <3>3, <3>4, <3>5, <3>6, <3>7, TakenDown
  <2>3. CASE ~(d = "upheld" /\ objects[m].status = "stored")
    <3>1. objects' = objects /\ purges' \subseteq purges \union {m}
          /\ \A n \in purges' : objects'[n].status = "deleted"
      BY <1>0, <1>7, <2>1, <2>3 DEF DecideAbuse, PurgesDeleted
    <3>2. MediaTypeOK'
      BY <1>0, <2>1, <3>1 DEF MediaTypeOK
    <3>3. grantCalls' = grantCalls /\ finalizes' = finalizes
      BY <2>1
    <3>4. /\ \A n \in MediaIds : objects'[n].status \in {objects[n].status, "deleted"}
          /\ \A n \in MediaIds : bytes'[n] # "none" \/ bytes'[n] = bytes[n] \/ objects[n].status = "deleted"
      BY <1>0, <2>1, <3>1, <3>2
    <3>5. \A n \in purges' : objects'[n].status = "deleted"
      BY <1>0, <2>1, <3>1, <3>2 DEF PurgesDeleted
    <3>6. \A n \in MediaIds : abuse'[n] # "none" => abuse[n] # "none" \/ objects[n].status = "stored"
      BY <1>0, <2>1, <3>1, <3>2
    <3> QED
      BY <3>1, <3>2, <3>3, <3>4, <3>5, <3>6, TakenDown
  <2> QED
    BY <2>2, <2>3
<1>8. ASSUME NEW m \in MediaIds, Reap(m) PROVE MediaInv'
  <2>1. /\ UNCHANGED <<bytes, grantCalls, finalizes, profileImage, imageCalls, abuse>>
        /\ objects' = Marked(m, "deleted") /\ purges' = purges \union {m} /\ objects[m].status = "pending"
    BY <1>8 DEF Reap
  <2>2. /\ objects' \in [MediaIds -> MediaRow] /\ objects'[m].status = "deleted"
        /\ \A n \in MediaIds : n # m => objects'[n] = objects[n]
    BY <1>0, <2>1, MarkedRow
  <2>3. MediaTypeOK'
    BY <1>0, <2>1, <2>2 DEF MediaTypeOK, MediaRow
  <2>4. grantCalls' = grantCalls /\ finalizes' = finalizes
    BY <2>1
  <2>5. /\ \A n \in MediaIds : objects'[n].status \in {objects[n].status, "deleted"}
        /\ \A n \in MediaIds : bytes'[n] # "none" \/ bytes'[n] = bytes[n] \/ objects[n].status = "deleted"
    BY <1>0, <2>1, <2>2, <2>3
  <2>6. \A n \in purges' : objects'[n].status = "deleted"
    BY <1>0, <2>1, <2>2, <2>3 DEF PurgesDeleted
  <2>7. \A n \in MediaIds : abuse'[n] # "none" => abuse[n] # "none" \/ objects[n].status = "stored"
    BY <1>0, <2>1, <2>2, <2>3
  <2> QED
    BY <2>2, <2>3, <2>4, <2>5, <2>6, <2>7, TakenDown
<1>9. ASSUME EraseOwner PROVE MediaInv'
  <2>1. /\ UNCHANGED <<bytes, grantCalls, finalizes, profileImage, imageCalls, abuse>>
        /\ purges' = purges \union WithStatus("pending") \union WithStatus("stored")
        /\ \A n \in MediaIds : /\ objects'[n] \in MediaRow
                               /\ objects'[n].status = IF objects[n].status = "none" THEN "none" ELSE "deleted"
    BY <1>0, <1>9 DEF EraseOwner, MediaRow
  <2>2. objects' \in [MediaIds -> MediaRow]
    BY <1>9, <2>1 DEF EraseOwner
  <2>3. purges' \subseteq MediaIds /\ \A n \in purges' : objects'[n].status = "deleted"
    BY <1>0, <2>1 DEF PurgesDeleted, WithStatus
  <2>4. MediaTypeOK'
    BY <1>0, <2>1, <2>2, <2>3 DEF MediaTypeOK, MediaRow
  <2>5. grantCalls' = grantCalls /\ finalizes' = finalizes
    BY <2>1
  <2>6. /\ \A n \in MediaIds : objects'[n].status \in {objects[n].status, "deleted"}
        /\ \A n \in MediaIds : bytes'[n] # "none" \/ bytes'[n] = bytes[n] \/ objects[n].status = "deleted"
    BY <1>0, <2>1, <2>3, <2>4
  <2>7. \A n \in purges' : objects'[n].status = "deleted"
    BY <1>0, <2>1, <2>3, <2>4 DEF PurgesDeleted
  <2>8. \A n \in MediaIds : abuse'[n] # "none" => abuse[n] # "none" \/ objects[n].status = "stored"
    BY <1>0, <2>1, <2>3, <2>4
  <2> QED
    BY <2>3, <2>4, <2>5, <2>6, <2>7, <2>8, TakenDown
<1>10. ASSUME UNCHANGED mediaVars PROVE MediaInv'
  <2>1. MediaTypeOK' /\ \A n \in purges' : objects'[n].status = "deleted"
    BY <1>0, <1>10 DEF mediaVars, MediaTypeOK, PurgesDeleted
  <2>2. grantCalls' = grantCalls /\ finalizes' = finalizes
    BY <1>0, <1>10, <2>1 DEF mediaVars
  <2>3. /\ \A n \in MediaIds : objects'[n].status \in {objects[n].status, "deleted"}
        /\ \A n \in MediaIds : bytes'[n] # "none" \/ bytes'[n] = bytes[n] \/ objects[n].status = "deleted"
    BY <1>0, <1>10, <2>1 DEF mediaVars
  <2>4. \A n \in purges' : objects'[n].status = "deleted"
    BY <1>0, <1>10, <2>1 DEF PurgesDeleted, mediaVars
  <2>5. \A n \in MediaIds : abuse'[n] # "none" => abuse[n] # "none" \/ objects[n].status = "stored"
    BY <1>0, <1>10, <2>1 DEF mediaVars
  <2> QED
    BY <2>1, <2>2, <2>3, <2>4, <2>5, TakenDown
<1> QED
  BY <1>1, <1>2, <1>3, <1>4, <1>5, <1>6, <1>7, <1>8, <1>9, <1>10, GrantSteps, FinalizeSteps DEF MediaNext

\* Whatever is finalised, reaped, replaced and taken down at once, an image on display
\* has its bytes or is about to lose its row, and an owner passes the quota by no more
\* than the grants that can be open at once.
THEOREM ImagesCounted == MediaSpec => []ImagesAccountedFor
<1>1. MediaInv => ImagesAccountedFor
  <2> SUFFICES ASSUME MediaInv PROVE ImagesAccountedFor
    OBVIOUS
  <2>0. MediaTypeOK /\ BytesThere /\ GrantsCounted
    BY DEF MediaInv
  <2>1. StoredHasBytes
    <3> SUFFICES ASSUME NEW m \in WithStatus("stored"), Discarding(m)
                 PROVE  \E f \in FinalizeCalls : finalizes[f] = [at |-> "discarding", media |-> m]
      BY <2>0 DEF StoredHasBytes, BytesThere, WithStatus
    <3> PICK f \in FinalizeCalls : finalizes[f].at = "discarding" /\ finalizes[f].media = m
      BY DEF Discarding
    <3>1. finalizes[f] \in FinalizeRow
      BY <2>0 DEF MediaTypeOK, FinalizeRow
    <3>2. finalizes[f] = [at |-> "discarding", media |-> m]
      BY <3>1 DEF FinalizeRow
    <3> QED
      BY <3>2
  <2>2. QuotaSlack
    <3>1. /\ Counting = WithStatus("stored") \union WithStatus("pending")
          /\ WithStatus("stored") \cap WithStatus("pending") = {}
          /\ WithStatus("stored") \in SUBSET MediaIds /\ WithStatus("pending") \in SUBSET MediaIds
          /\ Granting \in SUBSET GrantCalls
      BY DEF Counting, WithStatus, Granting
    <3>2. /\ IsFiniteSet(WithStatus("stored")) /\ IsFiniteSet(WithStatus("pending"))
          /\ Cardinality(WithStatus("stored")) \in Nat /\ Cardinality(WithStatus("pending")) \in Nat
          /\ Cardinality(Granting) \in Nat
      BY <3>1, SomeMedia
    <3>3. Cardinality(WithStatus("stored") \union WithStatus("pending"))
            = Cardinality(WithStatus("stored")) + Cardinality(WithStatus("pending"))
                - Cardinality(WithStatus("stored") \cap WithStatus("pending"))
      BY <3>2, FS_Union
    <3>4. Cardinality(Counting) = Cardinality(WithStatus("stored")) + Cardinality(WithStatus("pending"))
      BY <3>1, <3>2, <3>3, FS_EmptySet
    <3> QED
      BY <2>0, <3>2, <3>4, MediaBounds DEF GrantsCounted, QuotaSlack
  <2> QED
    BY <2>0, <2>1, <2>2 DEF ImagesAccountedFor
<1> QED
  BY <1>1, MediaBegins, MediaSteps, PTL DEF MediaSpec


(* Waitlist: the inductive invariant.                                      *)

MatcherRow == [step : {"idle", "read", "picked"}, slot : Named, rows : SUBSET Entries]

\* The entries that have been inserted, and the count that orders them.
Inserted == {e \in Entries : line[e].status \notin {"none", "joining"}}
JoinedCounts == joined = Cardinality(Inserted)

\* An entry whose acceptance is under way has been on offer, and names the slot.
OffersPlaced ==
  \A e \in Entries : accepting[e] # "no" => /\ line[e].slot \in WSlots
                                           /\ line[e].status \notin {"none", "joining", "waiting"}

\* A row that a matcher has picked waits, for no one else.
MatchersPlaced ==
  /\ \A m \in Matchers : /\ matching[m].step = "idle" => matching[m] = IdleMatcher
                         /\ matching[m].step = "read" => matching[m].rows = {}
                         /\ matching[m].step = "picked" => \E e \in Entries : matching[m].rows = {e}
                         /\ \A e \in matching[m].rows : line[e].status = "waiting"
  /\ \A m, n \in Matchers : matching[m].rows \cap matching[n].rows # {} => m = n

\* Who was waiting at an announcement had been inserted, and would take the slot.
DueSuits == \A s \in WSlots : \A e \in due[s] : e \in Inserted /\ s \in Suits[e]

WaitlistInv ==
  /\ WaitlistTypeOK /\ OneOfferPerSlot /\ BookedEntryStaysAccepted /\ NoWaiterForgotten
  /\ JoinedCounts /\ OffersPlaced /\ MatchersPlaced /\ DueSuits

\* The line begins empty, and every slot taken.
LEMMA LineBegins == WaitlistInit => WaitlistInv
<1> SUFFICES ASSUME WaitlistInit PROVE WaitlistInv
  OBVIOUS
<1>1. WaitlistTypeOK
  <2>1. IsFiniteSet(Entries) /\ Cardinality(Entries) \in Nat /\ MaxReopened \in Nat
    BY WaitlistAssumption, FS_CardinalityType
  <2>2. joined \in 0 .. Cardinality(Entries) /\ reopened \in [Named -> 0 .. MaxReopened]
    BY <2>1 DEF WaitlistInit
  <2>3. line \in [Entries -> WaitlistEntry]
    BY DEF WaitlistInit, WaitlistEntry, WaitlistStatuses, Named
  <2> QED
    BY <2>2, <2>3 DEF WaitlistInit, WaitlistTypeOK, IdleMatcher, Named
<1>2. OneOfferPerSlot /\ OffersPlaced /\ DueSuits /\ MatchersPlaced
  BY DEF WaitlistInit, OneOfferPerSlot, InStatus, OffersPlaced, DueSuits, MatchersPlaced, IdleMatcher
<1>3. BookedEntryStaysAccepted
  BY WaitlistAssumption DEF WaitlistInit, BookedEntryStaysAccepted
<1>4. NoWaiterForgotten
  BY DEF WaitlistInit, NoWaiterForgotten
<1>5. JoinedCounts
  <2>1. Inserted = {}
    BY DEF WaitlistInit, Inserted
  <2> QED
    BY <2>1, FS_EmptySet DEF WaitlistInit, JoinedCounts
<1> QED
  BY <1>1, <1>2, <1>3, <1>4, <1>5 DEF WaitlistInv

\* An entry moves: no offer is made, no other row changes, and what a matcher
\* has picked goes on waiting.
EntryMoves(e) ==
  /\ line' \in [Entries -> WaitlistEntry] /\ \A f \in Entries : f # e => line'[f] = line[f]
  /\ line'[e].slot = line[e].slot
  /\ line'[e].status = "offered" => line[e].status = "offered"
  /\ line'[e].status \in {"joining", "waiting"} => line[e].status \in {"none", "joining", "waiting"}
  /\ line'[e].status = "waiting" => line[e].status # "none"
  /\ (line'[e].status = "accepted") = line'[e].booked
  /\ line[e].status # "accepted"
  /\ line[e].status \notin {"none", "joining"} => line'[e].status \notin {"none", "joining"}
  /\ e \in LockedRows => line'[e].status = "waiting"

\* What an entry's move leaves in order.
LEMMA EntryMoved ==
  ASSUME WaitlistInv, NEW e \in Entries, EntryMoves(e), matching' = matching,
         \A s \in WSlots : due'[s] \subseteq due[s],
         \A f \in Entries : accepting'[f] # "no" => accepting[f] # "no"
  PROVE  OneOfferPerSlot' /\ OffersPlaced' /\ MatchersPlaced' /\ DueSuits'
<1>0. /\ OneOfferPerSlot /\ OffersPlaced /\ MatchersPlaced /\ DueSuits /\ line \in [Entries -> WaitlistEntry]
      /\ matching \in [Matchers -> MatcherRow] /\ due \in [WSlots -> SUBSET Entries]
  BY DEF WaitlistInv, WaitlistTypeOK, MatcherRow
<1>1. \A f \in Entries : /\ line'[f].slot = line[f].slot
                         /\ line'[f].status = "offered" => line[f].status = "offered"
                         /\ line[f].status \notin {"none", "joining"} => line'[f].status \notin {"none", "joining"}
                         /\ line'[f].status = "waiting" => line[f].status \in {"none", "joining", "waiting"}
  BY DEF EntryMoves
<1>2. OneOfferPerSlot'
  BY <1>0, <1>1 DEF OneOfferPerSlot, InStatus
<1>3. OffersPlaced'
  BY <1>0, <1>1 DEF OffersPlaced
<1>4. MatchersPlaced'
  <2>1. ASSUME NEW m \in Matchers, NEW f \in matching[m].rows PROVE line'[f].status = "waiting"
    <3>1. f \in Entries /\ f \in LockedRows /\ line[f].status = "waiting"
      BY <1>0 DEF MatcherRow, LockedRows, MatchersPlaced
    <3> QED
      BY <3>1 DEF EntryMoves
  <2> QED
    BY <1>0, <2>1 DEF MatchersPlaced
<1>5. DueSuits'
  BY <1>0, <1>1 DEF DueSuits, Inserted
<1> QED
  BY <1>2, <1>3, <1>4, <1>5

\* The count stands when no entry is inserted.
LEMMA CountStandsStill ==
  ASSUME JoinedCounts, joined' = joined,
         \A f \in Entries : line'[f].status \in {"none", "joining"} <=> line[f].status \in {"none", "joining"}
  PROVE  JoinedCounts'
<1>1. Inserted' = Inserted
  BY DEF Inserted
<1> QED
  BY <1>1 DEF JoinedCounts

\* A booking taken by nobody new leaves the bookings with accepted entries.
LEMMA BookingsStay ==
  ASSUME WaitlistInv, NEW e \in Entries, EntryMoves(e), 
         \A s \in WSlots : \A f \in Entries : wslots'[s] = f => wslots[s] = f \/ (f = e /\ line'[e].status = "accepted")
  PROVE  BookedEntryStaysAccepted'
<1>0. BookedEntryStaysAccepted
  BY DEF WaitlistInv
<1> QED
  BY <1>0 DEF BookedEntryStaysAccepted, EntryMoves

\* Who pursues a slot: an offer, an event, a matcher; and who waits for it.
Pursued(s) == OfferedFor(s) # {} \/ reopened[s] > 0 \/ \E m \in Matchers : matching[m].slot = s
Awaited(s) == \E e \in due[s] : line[e].status = "waiting"

\* A waiter is forgotten by a step only where a slot opens, or is let go of.
LEMMA StillPursued ==
  ASSUME WaitlistInv,
         \A s \in WSlots \ excused' : wslots'[s] = "open" =>
             \/ Pursued(s)'
             \/ wslots[s] = "open" /\ s \notin excused /\ (Awaited(s)' => Awaited(s)) /\ (Pursued(s) => Pursued(s)')
             \/ ~Awaited(s)'
  PROVE  NoWaiterForgotten'
<1>0. NoWaiterForgotten
  BY DEF WaitlistInv
<1>1. NoWaiterForgotten <=> \A s \in WSlots \ excused : wslots[s] = "open" /\ Awaited(s) => Pursued(s)
  BY DEF NoWaiterForgotten, Awaited, Pursued
<1>2. NoWaiterForgotten' <=> \A s \in WSlots \ excused' : wslots'[s] = "open" /\ Awaited(s)' => Pursued(s)'
  BY DEF NoWaiterForgotten, Awaited, Pursued
<1> QED
  BY <1>0, <1>1, <1>2

\* A move rewrites the status of one row and takes its lapse away.
LEMMA MovedEntry ==
  ASSUME line \in [Entries -> WaitlistEntry], NEW e \in Entries, NEW st \in WaitlistStatuses
  PROVE  /\ Moved(e, st) \in [Entries -> WaitlistEntry] /\ \A f \in Entries : f # e => Moved(e, st)[f] = line[f]
         /\ Moved(e, st)[e].status = st /\ Moved(e, st)[e].slot = line[e].slot
         /\ Moved(e, st)[e].booked = line[e].booked
<1>1. line[e].booked \in BOOLEAN
  BY Zenon DEF WaitlistEntry
<1>2. [status |-> st, position |-> line[e].position, slot |-> line[e].slot, lapsed |-> FALSE,
       booked |-> line[e].booked] \in WaitlistEntry
  BY <1>1 DEF WaitlistEntry
<1> QED
  BY <1>2 DEF Moved

\* An entry that moves leaves its slot to an event or to no one, and nobody new is waiting.
LEMMA EntryReleases ==
  ASSUME WaitlistInv, NEW e \in Entries, EntryMoves(e), matching' = matching, wslots' = wslots,
         due' = due, excused \subseteq excused',
         \A s \in WSlots : reopened[s] > 0 => reopened'[s] > 0,
         line[e].status = "offered" /\ line'[e].status # "offered" =>
           reopened'[line[e].slot] > 0 \/ line[e].slot \in excused' \union {"none"}
  PROVE  NoWaiterForgotten'
<1>0. DueSuits /\ "none" \notin WSlots
  BY WaitlistAssumption DEF WaitlistInv
<1>1. ASSUME NEW s \in WSlots, Awaited(s)' PROVE Awaited(s)
  <2>1. PICK f \in due[s] : line'[f].status = "waiting"
    BY <1>1 DEF Awaited
  <2>2. f \in Entries /\ line[f].status \notin {"none", "joining"}
    BY <1>0 DEF DueSuits, Inserted
  <2>3. line[f].status = "waiting"
    BY <2>1, <2>2 DEF EntryMoves
  <2> QED
    BY <2>3 DEF Awaited
<1>2. ASSUME NEW s \in WSlots \ excused', Pursued(s) PROVE Pursued(s)'
  <2>1. CASE reopened[s] > 0 \/ \E m \in Matchers : matching[m].slot = s
    BY <2>1 DEF Pursued
  <2>2. CASE OfferedFor(s) # {}
    <3>1. PICK f \in Entries : line[f].status = "offered" /\ line[f].slot = s
      BY <1>0, <2>2 DEF OfferedFor, InStatus
    <3>2. CASE f = e /\ line'[e].status # "offered"
      BY <1>0, <3>1, <3>2 DEF Pursued
    <3>3. CASE ~(f = e /\ line'[e].status # "offered")
      <4>1. line'[f].status = "offered" /\ line'[f].slot = s
        BY <3>1, <3>3 DEF EntryMoves
      <4> QED
        BY <4>1 DEF Pursued, OfferedFor, InStatus
    <3> QED
      BY <3>2, <3>3
  <2> QED
    BY <1>2, <2>1, <2>2 DEF Pursued
<1> QED
  BY <1>1, <1>2, StillPursued

\* An entry joins, leaves, is swept or only sees its offer lapse.
LEMMA EntrySteps ==
  ASSUME WaitlistInv, NEW e \in Entries,
         \/ JoinCount(e) \/ JoinInsert(e) \/ Remove(e) \/ DeclineWrites(e) \/ EraseEntry(e)
         \/ OfferLapses(e) \/ SweepVisits(e)
  PROVE  WaitlistInv'
<1>0. /\ WaitlistTypeOK /\ JoinedCounts /\ OffersPlaced /\ MatchersPlaced /\ BookedEntryStaysAccepted
      /\ line \in [Entries -> WaitlistEntry]
      /\ reopened \in [Named -> 0 .. MaxReopened] /\ MaxReopened \in Nat /\ sweeping \subseteq Entries
      /\ excused \subseteq WSlots
      /\ joined \in Nat /\ joined \in 0 .. Cardinality(Entries)
  BY WaitlistAssumption DEF WaitlistInv, WaitlistTypeOK
<1>1. UNCHANGED <<wslots, matching, accepting, due>> /\ declining' \in [Entries -> Named \union {"no"}]
  BY <1>0 DEF JoinCount, JoinInsert, Remove, DeclineWrites, EraseEntry, OfferLapses, SweepVisits, WaitlistTypeOK
<1>2. /\ line[e].status \in WaitlistStatuses /\ line[e].booked \in BOOLEAN
      /\ line[e].booked = (line[e].status = "accepted")
  <2>1. line[e].status \in WaitlistStatuses /\ line[e].booked \in BOOLEAN
    BY <1>0, Zenon DEF WaitlistEntry
  <2>2. (line[e].status = "accepted") = line[e].booked
    BY <1>0 DEF BookedEntryStaysAccepted
  <2> QED
    BY <2>1, <2>2
\* What remains once the row's move and the events are known.
<1>3. ASSUME EntryMoves(e), sweeping' \subseteq sweeping, JoinedCounts', joined' \in 0 .. Cardinality(Entries),
             reopened' \in [Named -> 0 .. MaxReopened], \A s \in WSlots : reopened[s] > 0 => reopened'[s] > 0,
             excused \subseteq excused', excused' \subseteq WSlots,
             line[e].status = "offered" /\ line'[e].status # "offered" =>
               reopened'[line[e].slot] > 0 \/ line[e].slot \in excused' \union {"none"}
      PROVE  WaitlistInv'
  <2>1. WaitlistTypeOK'
    BY <1>0, <1>1, <1>3 DEF WaitlistTypeOK, EntryMoves
  <2>2. OneOfferPerSlot' /\ OffersPlaced' /\ MatchersPlaced' /\ DueSuits'
    BY <1>1, <1>3, EntryMoved
  <2>3. BookedEntryStaysAccepted'
    BY <1>1, <1>3, BookingsStay
  <2>4. NoWaiterForgotten'
    BY <1>1, <1>3, EntryReleases
  <2> QED
    BY <1>3, <2>1, <2>2, <2>3, <2>4 DEF WaitlistInv
<1>4. CASE JoinCount(e)
  <2>1. line[e].status = "none" /\ line' = Moved(e, "joining") /\ UNCHANGED <<joined, reopened, sweeping, excused>>
    BY <1>4 DEF JoinCount
  <2>2. "joining" \in WaitlistStatuses
    BY DEF WaitlistStatuses
  <2>3. EntryMoves(e)
    <3>1. e \notin LockedRows
      BY <1>0, <2>1 DEF LockedRows, MatchersPlaced
    <3> QED
      BY <1>0, <1>2, <2>1, <2>2, <3>1, MovedEntry DEF EntryMoves
  <2>4. \A f \in Entries : line'[f].status \in {"none", "joining"} <=> line[f].status \in {"none", "joining"}
    BY <1>0, <2>1, <2>2, MovedEntry
  <2>5. JoinedCounts'
    BY <1>0, <2>1, <2>4, CountStandsStill
  <2> QED
    BY <1>0, <1>3, <2>1, <2>3, <2>5
<1>5. CASE JoinInsert(e)
  <2> DEFINE r == [status |-> "waiting", position |-> joined + 1, slot |-> line[e].slot,
                   lapsed |-> line[e].lapsed, booked |-> line[e].booked]
  <2>1. /\ line[e].status = "joining" /\ line' = [line EXCEPT ![e] = r] /\ joined' = joined + 1
        /\ UNCHANGED <<reopened, sweeping, excused>>
    BY <1>5 DEF JoinInsert
  <2>2. r \in WaitlistEntry
    <3>1. line[e].lapsed \in BOOLEAN
      BY <1>0, Zenon DEF WaitlistEntry
    <3> QED
      BY <1>0, <1>2, <3>1 DEF WaitlistEntry, WaitlistStatuses
  <2>3. /\ line' \in [Entries -> WaitlistEntry] /\ line'[e].status = "waiting" /\ line'[e].slot = line[e].slot
        /\ line'[e].booked = line[e].booked /\ \A f \in Entries : f # e => line'[f] = line[f]
    BY <1>0, <2>1, <2>2
  <2>4. EntryMoves(e)
    BY <1>2, <2>1, <2>3 DEF EntryMoves
  <2>5. JoinedCounts' /\ joined' \in 0 .. Cardinality(Entries)
    <3>1. Inserted' = Inserted \union {e} /\ e \notin Inserted /\ Inserted \in SUBSET Entries /\ Inserted' \in SUBSET Entries
      BY <2>1, <2>3 DEF Inserted
    <3>2. /\ IsFiniteSet(Inserted) /\ Cardinality(Inserted) \in Nat /\ Cardinality(Entries) \in Nat
          /\ Cardinality(Inserted') <= Cardinality(Entries)
      BY <3>1, WaitlistAssumption, FS_Subset, FS_CardinalityType
    <3>3. Cardinality(Inserted') = Cardinality(Inserted) + 1
      BY <3>1, <3>2, FS_AddElement
    <3> QED
      BY <1>0, <2>1, <3>2, <3>3 DEF JoinedCounts
  <2> QED
    BY <1>0, <1>3, <2>1, <2>4, <2>5
<1>6. ASSUME NEW st \in {"removed", "declined", "expired"}, line' = Moved(e, st), joined' = joined,
             sweeping' \subseteq sweeping,
             line[e].status \in {"waiting", "offered"}, e \notin LockedRows,
             excused \subseteq excused', excused' \subseteq WSlots,
             \/ reopened' = reopened /\ (line[e].status = "waiting" \/ line[e].slot \in excused' \union {"none"})
             \/ \E s \in Named : /\ CanAnnounce(s) /\ reopened' = Rematch(s)
                                 /\ s = line[e].slot \/ line[e].slot \in excused' \union {"none"}
      PROVE  WaitlistInv'
  <2>1. st \in WaitlistStatuses
    BY <1>6 DEF WaitlistStatuses
  <2>2. EntryMoves(e)
    BY <1>0, <1>2, <1>6, <2>1, MovedEntry DEF EntryMoves
  <2>3. \A f \in Entries : line'[f].status \in {"none", "joining"} <=> line[f].status \in {"none", "joining"}
    BY <1>0, <1>6, <2>1, MovedEntry
  <2>4. JoinedCounts'
    BY <1>0, <1>6, <2>3, CountStandsStill
  <2>5. /\ reopened' \in [Named -> 0 .. MaxReopened] /\ \A s \in WSlots : reopened[s] > 0 => reopened'[s] > 0
        /\ line[e].status = "offered" => reopened'[line[e].slot] > 0 \/ line[e].slot \in excused' \union {"none"}
    <3>1. CASE reopened' = reopened /\ (line[e].status = "waiting" \/ line[e].slot \in excused' \union {"none"})
      BY <1>0, <3>1
    <3>2. ASSUME NEW s \in Named, CanAnnounce(s), reopened' = Rematch(s),
                 s = line[e].slot \/ line[e].slot \in excused' \union {"none"}
          PROVE  /\ reopened' \in [Named -> 0 .. MaxReopened] /\ \A q \in Named : reopened[q] > 0 => reopened'[q] > 0
                 /\ reopened'[s] > 0
      BY <1>0, <3>2 DEF Rematch, CanAnnounce
    <3>3. ASSUME NEW s \in Named, CanAnnounce(s), reopened' = Rematch(s),
                 s = line[e].slot \/ line[e].slot \in excused' \union {"none"}
          PROVE  /\ reopened' \in [Named -> 0 .. MaxReopened] /\ \A q \in WSlots : reopened[q] > 0 => reopened'[q] > 0
                 /\ reopened'[line[e].slot] > 0 \/ line[e].slot \in excused' \union {"none"}
      BY <3>2, <3>3 DEF Named
    <3>4. CASE \E s \in Named : /\ CanAnnounce(s) /\ reopened' = Rematch(s)
                                /\ s = line[e].slot \/ line[e].slot \in excused' \union {"none"}
      <4>1. PICK s \in Named : /\ CanAnnounce(s) /\ reopened' = Rematch(s)
                               /\ s = line[e].slot \/ line[e].slot \in excused' \union {"none"}
        BY <3>4
      <4> QED
        BY <3>3, <4>1
    <3>5. line[e].status = "offered" => line[e].status # "waiting"
      OBVIOUS
    <3> QED
      BY <1>6, <3>1, <3>4, <3>5
  <2> QED
    BY <1>0, <1>3, <1>6, <2>2, <2>4, <2>5
<1>7. line[e].status = "offered" => e \notin LockedRows
  BY <1>0 DEF LockedRows, MatchersPlaced
<1>8. CASE Remove(e)
  BY <1>0, <1>6, <1>8 DEF Remove, WaitlistTypeOK
<1>a. line[e].slot \in Named /\ excused \subseteq WSlots
  <2>1. line[e].slot \in Named
    BY <1>0, Zenon DEF WaitlistEntry
  <2> QED
    BY <1>0, <2>1 DEF WaitlistTypeOK
<1>9. CASE DeclineWrites(e)
  <2> DEFINE read == declining[e]
  <2>1. CASE line[e].status = "offered"
    <3>1. /\ line' = Moved(e, "declined") /\ reopened' = Rematch(read) /\ CanAnnounce(read) /\ read # "no"
          /\ excused' = excused \union ({line[e].slot} \ {read, "none"}) /\ UNCHANGED <<joined, sweeping>>
      BY <1>9, <2>1 DEF DeclineWrites
    <3>2. read \in Named
      BY <1>0, <3>1 DEF WaitlistTypeOK
    <3>3. /\ excused \subseteq excused' /\ excused' \subseteq WSlots
          /\ read = line[e].slot \/ line[e].slot \in excused' \union {"none"}
      BY <1>a, <3>1 DEF Named
    <3> QED
      BY <1>6, <1>7, <2>1, <3>1, <3>2, <3>3
  <2>2. CASE line[e].status # "offered"
    <3>1. UNCHANGED <<line, joined, wslots, reopened, matching, sweeping, accepting, due, excused>>
      BY <1>9, <2>2 DEF DeclineWrites
    <3> QED
      BY <1>0, <1>1, <3>1
         DEF WaitlistInv, WaitlistTypeOK, OneOfferPerSlot, InStatus, BookedEntryStaysAccepted, NoWaiterForgotten,
             OfferedFor, JoinedCounts, Inserted, OffersPlaced, MatchersPlaced, DueSuits
  <2> QED
    BY <2>1, <2>2
<1>12. CASE EraseEntry(e)
  <2>1. /\ line' = Moved(e, "removed") /\ line[e].status \in {"waiting", "offered"} /\ e \notin LockedRows
        /\ UNCHANGED <<joined, sweeping, reopened>>
        /\ line[e].status = "waiting" => excused' = excused
        /\ line[e].status = "offered" => excused' = excused \union ({line[e].slot} \ {"none"})
    BY <1>12 DEF EraseEntry
  <2>2. /\ excused \subseteq excused' /\ excused' \subseteq WSlots
        /\ line[e].status = "waiting" \/ line[e].slot \in excused' \union {"none"}
    BY <1>a, <2>1 DEF Named
  <2> QED
    BY <1>6, <2>1, <2>2
<1>10. CASE OfferLapses(e)
  <2> DEFINE r == [line[e] EXCEPT !.lapsed = TRUE]
  <2>1. line[e].status = "offered" /\ line' = [line EXCEPT ![e] = r] /\ UNCHANGED <<joined, reopened, sweeping, excused>>
    BY <1>10 DEF OfferLapses
  <2>2. r \in WaitlistEntry /\ r.status = line[e].status /\ r.slot = line[e].slot /\ r.booked = line[e].booked
    BY <1>0, <1>2 DEF WaitlistEntry
  <2>3. EntryMoves(e)
    BY <1>0, <1>2, <1>7, <2>1, <2>2 DEF EntryMoves
  <2>4. JoinedCounts'
    <3>1. \A f \in Entries : line'[f].status \in {"none", "joining"} <=> line[f].status \in {"none", "joining"}
      BY <1>0, <2>1, <2>2
    <3> QED
      BY <1>0, <2>1, <3>1, CountStandsStill
  <2>5. line'[e].status = "offered"
    BY <1>0, <2>1, <2>2
  <2> QED
    BY <1>0, <1>3, <2>1, <2>3, <2>4, <2>5
<1>11. CASE SweepVisits(e)
  <2>1. CASE line[e].status = "offered"
    BY <1>6, <1>7, <1>a, <1>11, <2>1 DEF SweepVisits, SweepWins
  <2>2. CASE line[e].status # "offered"
    <3>1. UNCHANGED <<line, joined, wslots, reopened, matching, accepting, declining, due, excused>> /\ sweeping' \subseteq sweeping
      BY <1>11, <2>2 DEF SweepVisits, SweepWins
    <3> QED
      BY <1>0, <3>1 DEF WaitlistInv, WaitlistTypeOK, OneOfferPerSlot, InStatus, BookedEntryStaysAccepted,
                        NoWaiterForgotten, OfferedFor, JoinedCounts, Inserted, OffersPlaced, MatchersPlaced, DueSuits
  <2> QED
    BY <2>1, <2>2
<1> QED
  BY <1>4, <1>5, <1>8, <1>9, <1>10, <1>11, <1>12

\* An acceptance reads the offer, books the slot, or finds it gone and gives the offer up.
LEMMA AcceptSteps ==
  ASSUME WaitlistInv, NEW e \in Entries, AcceptReads(e) \/ AcceptCommits(e) \/ MarkMissed(e)
  PROVE  WaitlistInv'
<1>0. /\ WaitlistTypeOK /\ JoinedCounts /\ OffersPlaced /\ MatchersPlaced /\ BookedEntryStaysAccepted
      /\ line \in [Entries -> WaitlistEntry] /\ accepting \in [Entries -> {"no", "read", "missing"}]
      /\ wslots \in [WSlots -> Entries \union {"open", "walkin"}] /\ due \in [WSlots -> SUBSET Entries]
  BY DEF WaitlistInv, WaitlistTypeOK
<1>1. UNCHANGED <<joined, reopened, matching, sweeping, declining>>
  BY DEF AcceptReads, AcceptCommits, MarkMissed
<1>2. /\ line[e].status \in WaitlistStatuses /\ line[e].booked \in BOOLEAN
      /\ line[e].booked = (line[e].status = "accepted") /\ (line[e].status = "offered" => e \notin LockedRows)
  <2>1. line[e].status \in WaitlistStatuses /\ line[e].booked \in BOOLEAN
    BY <1>0, Zenon DEF WaitlistEntry
  <2>2. (line[e].status = "accepted") = line[e].booked
    BY <1>0 DEF BookedEntryStaysAccepted
  <2>3. line[e].status = "offered" => e \notin LockedRows
    BY <1>0 DEF LockedRows, MatchersPlaced
  <2> QED
    BY <2>1, <2>2, <2>3
<1> DEFINE s == line[e].slot
\* A step that leaves the row alone.
<1>3. ASSUME line' = line, UNCHANGED <<wslots, due>>, excused' = excused \/ (s \in WSlots /\ excused' = excused \union {s}),
             accepting' \in [Entries -> {"no", "read", "missing"}],
             \A f \in Entries : accepting'[f] # "no" => /\ line[f].slot \in WSlots
                                                      /\ line[f].status \notin {"none", "joining", "waiting"}
      PROVE  WaitlistInv'
  <2>1. WaitlistTypeOK'
    BY <1>0, <1>1, <1>3 DEF WaitlistTypeOK
  <2>2. OneOfferPerSlot' /\ BookedEntryStaysAccepted' /\ JoinedCounts' /\ MatchersPlaced' /\ DueSuits'
    BY <1>1, <1>3 DEF WaitlistInv, OneOfferPerSlot, InStatus, BookedEntryStaysAccepted, JoinedCounts, Inserted,
                      MatchersPlaced, DueSuits
  <2>3. OffersPlaced'
    BY <1>0, <1>1, <1>3 DEF OffersPlaced
  <2>4. NoWaiterForgotten'
    BY <1>1, <1>3 DEF WaitlistInv, NoWaiterForgotten, OfferedFor, InStatus
  <2> QED
    BY <2>1, <2>2, <2>3, <2>4 DEF WaitlistInv
<1>4. CASE AcceptReads(e)
  <2>1. /\ UNCHANGED <<line, wslots, due, excused>> /\ line[e].status = "offered" /\ line[e].slot # "none"
        /\ accepting' = [accepting EXCEPT ![e] = "read"]
    BY <1>4 DEF AcceptReads
  <2>2. line[e].slot \in Named
    BY <1>0, Zenon DEF WaitlistEntry
  <2> QED
    BY <1>0, <1>3, <2>1, <2>2 DEF OffersPlaced, Named
<1>5. CASE AcceptCommits(e)
  <2>0. accepting[e] = "read" /\ s \in WSlots
    BY <1>0, <1>5 DEF AcceptCommits, OffersPlaced
  <2>1. CASE ClaimWins(e) /\ wslots[s] = "open"
    <3> DEFINE r == [status |-> "accepted", position |-> line[e].position, slot |-> s, lapsed |-> FALSE, booked |-> TRUE]
    <3>1. /\ line[e].status = "offered" /\ line' = [line EXCEPT ![e] = r] /\ wslots' = [wslots EXCEPT ![s] = e]
          /\ due' = [due EXCEPT ![s] = {}] /\ excused' = excused \ {s} /\ accepting' = [accepting EXCEPT ![e] = "no"]
      BY <1>5, <2>1 DEF AcceptCommits, ClaimWins
    <3>2. r \in WaitlistEntry
      BY <1>0, <2>0 DEF WaitlistEntry, WaitlistStatuses
    <3>3. /\ line' \in [Entries -> WaitlistEntry] /\ line'[e].status = "accepted" /\ line'[e].slot = line[e].slot
          /\ line'[e].booked = TRUE /\ \A f \in Entries : f # e => line'[f] = line[f]
      BY <1>0, <3>1, <3>2
    <3>4. EntryMoves(e)
      BY <1>2, <3>1, <3>3 DEF EntryMoves
    <3>5. WaitlistTypeOK'
      BY <1>0, <1>1, <2>0, <3>1, <3>3 DEF WaitlistTypeOK
    <3>6. OneOfferPerSlot' /\ OffersPlaced' /\ MatchersPlaced' /\ DueSuits'
      <4>1. /\ \A t \in WSlots : due'[t] \subseteq due[t]
            /\ \A f \in Entries : accepting'[f] # "no" => accepting[f] # "no"
        BY <1>0, <2>0, <3>1
      <4> QED
        BY <1>1, <3>4, <4>1, EntryMoved
    <3>7. BookedEntryStaysAccepted'
      <4>1. \A t \in WSlots : \A f \in Entries : wslots'[t] = f => wslots[t] = f \/ (f = e /\ line'[e].status = "accepted")
        BY <1>0, <2>0, <3>1, <3>3
      <4> QED
        BY <3>4, <4>1, BookingsStay
    <3>8. JoinedCounts'
      <4>1. \A f \in Entries : line'[f].status \in {"none", "joining"} <=> line[f].status \in {"none", "joining"}
        BY <3>1, <3>3
      <4> QED
        BY <1>0, <1>1, <4>1, CountStandsStill
    <3>9. NoWaiterForgotten'
      <4>1. e # "open" /\ wslots'[line[e].slot] = e
        BY <1>0, <2>0, <3>1, WaitlistAssumption
      <4>2. ASSUME NEW t \in WSlots, t # line[e].slot
            PROVE  wslots'[t] = wslots[t] /\ due'[t] = due[t] /\ (t \in excused' <=> t \in excused)
        BY <1>0, <2>0, <3>1, <4>2
      <4>3. ASSUME NEW t \in WSlots, t # line[e].slot, Awaited(t)' PROVE Awaited(t)
        BY <1>0, <3>3, <4>2, <4>3 DEF Awaited
      <4>4. ASSUME NEW t \in WSlots, t # line[e].slot, Pursued(t) PROVE Pursued(t)'
        BY WaitlistAssumption, <1>1, <3>3, <4>4 DEF Pursued, OfferedFor, InStatus
      <4> QED
        BY <4>1, <4>2, <4>3, <4>4, StillPursued
    <3> QED
      BY <3>5, <3>6, <3>7, <3>8, <3>9 DEF WaitlistInv
  <2>2. CASE ~(ClaimWins(e) /\ wslots[s] = "open")
    <3>1. UNCHANGED <<line, wslots, due, excused>> /\ accepting' \in [Entries -> {"no", "read", "missing"}]
          /\ \A f \in Entries : accepting'[f] # "no" => accepting[f] # "no"
      BY <1>0, <1>5, <2>0, <2>2 DEF AcceptCommits
    <3> QED
      BY <1>0, <1>3, <3>1 DEF OffersPlaced
  <2> QED
    BY <2>1, <2>2
<1>6. CASE MarkMissed(e)
  <2>0. /\ accepting[e] = "missing" /\ s \in WSlots /\ accepting' = [accepting EXCEPT ![e] = "no"]
        /\ UNCHANGED <<wslots, due>> /\ excused' = IF wslots[s] = "open" THEN excused \union {s} ELSE excused
    BY <1>0, <1>6 DEF MarkMissed, OffersPlaced
  <2>1. /\ accepting' \in [Entries -> {"no", "read", "missing"}]
        /\ \A f \in Entries : accepting'[f] # "no" => accepting[f] # "no"
    BY <1>0, <2>0
  <2>2. CASE line[e].status = "offered"
    <3>1. line' = Moved(e, "missed") /\ "missed" \in WaitlistStatuses
      BY <1>6, <2>2 DEF MarkMissed, WaitlistStatuses
    <3>2. /\ line' \in [Entries -> WaitlistEntry] /\ line'[e].status = "missed" /\ line'[e].slot = line[e].slot
          /\ line'[e].booked = line[e].booked /\ \A f \in Entries : f # e => line'[f] = line[f]
      BY <1>0, <3>1, MovedEntry
    <3>3. EntryMoves(e)
      BY <1>2, <2>2, <3>2 DEF EntryMoves
    <3>4. WaitlistTypeOK'
      BY <1>0, <1>1, <2>0, <2>1, <3>2 DEF WaitlistTypeOK
    <3>5. OneOfferPerSlot' /\ OffersPlaced' /\ MatchersPlaced' /\ DueSuits'
      BY <1>1, <2>0, <2>1, <3>3, EntryMoved
    <3>6. BookedEntryStaysAccepted'
      BY <2>0, <3>3, BookingsStay
    <3>7. JoinedCounts'
      <4>1. \A f \in Entries : line'[f].status \in {"none", "joining"} <=> line[f].status \in {"none", "joining"}
        BY <2>2, <3>2
      <4> QED
        BY <1>0, <1>1, <4>1, CountStandsStill
    <3>8. NoWaiterForgotten'
      <4>1. ASSUME NEW t \in WSlots, Awaited(t)' PROVE Awaited(t)
        BY <2>0, <3>2, <4>1, <1>0 DEF Awaited
      <4>2. ASSUME NEW t \in WSlots, t # line[e].slot, Pursued(t) PROVE Pursued(t)'
        BY WaitlistAssumption, <1>1, <3>2, <4>2 DEF Pursued, OfferedFor, InStatus
      <4> QED
        BY <2>0, <4>1, <4>2, StillPursued
    <3> QED
      BY <3>4, <3>5, <3>6, <3>7, <3>8 DEF WaitlistInv
  <2>3. CASE line[e].status # "offered"
    <3>1. line' = line
      BY <1>6, <2>3 DEF MarkMissed
    <3> QED
      BY <1>0, <1>3, <2>0, <2>1, <3>1 DEF OffersPlaced
  <2> QED
    BY <2>2, <2>3
<1> QED
  BY <1>4, <1>5, <1>6

\* The slot is taken and freed outside the waitlist.
LEMMA WaitSlotSteps ==
  ASSUME WaitlistInv, NEW s \in WSlots, WalkIn(s) \/ SlotReopened(s) \/ SlotFreedByReschedule(s)
  PROVE  WaitlistInv'
<1>0. /\ WaitlistTypeOK /\ DueSuits /\ reopened \in [Named -> 0 .. MaxReopened] /\ MaxReopened \in Nat
      /\ wslots \in [WSlots -> Entries \union {"open", "walkin"}] /\ due \in [WSlots -> SUBSET Entries]
  BY WaitlistAssumption DEF WaitlistInv, WaitlistTypeOK
<1>1. UNCHANGED <<line, joined, matching, sweeping, accepting, declining>>
  BY DEF WalkIn, SlotReopened, SlotFreedByReschedule
<1>2. /\ wslots' \in [WSlots -> Entries \union {"open", "walkin"}] /\ wslots'[s] \in {"open", "walkin"}
      /\ \A t \in WSlots : t # s => wslots'[t] = wslots[t] /\ due'[t] = due[t] /\ reopened'[t] = reopened[t]
                                    /\ (t \in excused' <=> t \in excused)
      /\ wslots'[s] = "open" /\ s \notin excused' => reopened'[s] > 0
      /\ due'[s] \in {{}, due[s], {e \in InStatus("waiting") : s \in Suits[e]}}
      /\ reopened' \in [Named -> 0 .. MaxReopened] /\ due' \in [WSlots -> SUBSET Entries] /\ excused' \subseteq WSlots
  <2>1. CASE WalkIn(s)
    BY <1>0, <2>1 DEF WalkIn, WaitlistTypeOK
  <2>2. CASE SlotReopened(s)
    <3>1. {e \in InStatus("waiting") : s \in Suits[e]} \subseteq Entries
      BY DEF InStatus
    <3> QED
      BY <1>0, <2>2, <3>1 DEF SlotReopened, CanAnnounce, WaitlistTypeOK, Named
  <2>3. CASE SlotFreedByReschedule(s)
    BY <1>0, <2>3 DEF SlotFreedByReschedule, WaitlistTypeOK
  <2> QED
    BY <2>1, <2>2, <2>3
<1>3. WaitlistTypeOK'
  BY <1>0, <1>1, <1>2 DEF WaitlistTypeOK
<1>4. OneOfferPerSlot' /\ JoinedCounts' /\ OffersPlaced' /\ MatchersPlaced'
  BY <1>1 DEF WaitlistInv, OneOfferPerSlot, InStatus, JoinedCounts, Inserted, OffersPlaced, MatchersPlaced
<1>5. BookedEntryStaysAccepted'
  <2>1. \A t \in WSlots : \A e \in Entries : wslots'[t] = e => wslots[t] = e
    BY <1>2, WaitlistAssumption
  <2> QED
    BY <1>1, <2>1 DEF WaitlistInv, BookedEntryStaysAccepted
<1>6. DueSuits'
  BY <1>0, <1>1, <1>2 DEF DueSuits, Inserted, InStatus
<1>7. NoWaiterForgotten'
  <2>1. wslots'[s] = "open" /\ s \notin excused' => Pursued(s)'
    BY <1>2 DEF Pursued
  <2>2. ASSUME NEW t \in WSlots, t # s PROVE (Awaited(t)' => Awaited(t)) /\ (Pursued(t) => Pursued(t)')
    BY <1>1, <1>2, <2>2 DEF Awaited, Pursued, OfferedFor, InStatus
  <2> QED
    BY <1>2, <2>1, <2>2, StillPursued
<1> QED
  BY <1>3, <1>4, <1>5, <1>6, <1>7 DEF WaitlistInv

\* A matcher that is idle, or has just read its slot, or has picked a free waiter, is in order.
LEMMA MatcherPlaced ==
  ASSUME WaitlistInv, NEW m \in Matchers, NEW r \in MatcherRow, line' = line,
         matching' = [matching EXCEPT ![m] = r],
         \/ r = IdleMatcher
         \/ r.step = "read" /\ r.rows = {}
         \/ /\ r.step = "picked"
            /\ \E e \in InStatus("waiting") \ LockedRows : r.rows = {e}
  PROVE  MatchersPlaced'
<1>0. MatchersPlaced /\ matching \in [Matchers -> MatcherRow]
  BY DEF WaitlistInv, WaitlistTypeOK, MatcherRow
<1>1. matching'[m] = r /\ \A n \in Matchers : n # m => matching'[n] = matching[n]
  BY <1>0
<1>2. /\ r.step = "idle" => r = IdleMatcher
      /\ r.step = "read" => r.rows = {}
      /\ r.step = "picked" => \E e \in Entries : r.rows = {e}
      /\ \A e \in r.rows : line[e].status = "waiting" /\ e \notin LockedRows
  BY DEF IdleMatcher, InStatus
<1>3. ASSUME NEW n \in Matchers, NEW k \in Matchers, matching'[n].rows \cap matching'[k].rows # {} PROVE n = k
  <2>1. PICK e : e \in matching'[n].rows /\ e \in matching'[k].rows
    BY <1>3
  <2>2. \A j \in Matchers : j # m /\ e \in matching'[j].rows => e \in LockedRows
    BY <1>1 DEF LockedRows
  <2>3. (n = m \/ k = m) => n = k
    BY <1>1, <1>2, <2>1, <2>2
  <2>4. n # m /\ k # m => n = k
    BY <1>0, <1>1, <2>1 DEF MatchersPlaced
  <2> QED
    BY <2>3, <2>4
<1>4. ASSUME NEW n \in Matchers
      PROVE  /\ matching'[n].step = "idle" => matching'[n] = IdleMatcher
             /\ matching'[n].step = "read" => matching'[n].rows = {}
             /\ matching'[n].step = "picked" => \E e \in Entries : matching'[n].rows = {e}
             /\ \A e \in matching'[n].rows : line'[e].status = "waiting"
  BY <1>0, <1>1, <1>2 DEF MatchersPlaced
<1> QED
  BY <1>3, <1>4 DEF MatchersPlaced

\* A matcher takes an event, dies and gives it back, finds nobody, or picks a waiter.
LEMMA MatcherSteps ==
  ASSUME WaitlistInv, NEW m \in Matchers,
         (\E s \in Named : MatcherRead(m, s)) \/ MatcherDies(m) \/ MatcherGivesUp(m) \/ MatcherPicks(m)
  PROVE  WaitlistInv'
<1>0. /\ WaitlistTypeOK /\ DueSuits /\ MatchersPlaced /\ reopened \in [Named -> 0 .. MaxReopened] /\ MaxReopened \in Nat
      /\ matching \in [Matchers -> MatcherRow]
  BY WaitlistAssumption DEF WaitlistInv, WaitlistTypeOK, MatcherRow
<1>1. UNCHANGED <<line, joined, wslots, sweeping, accepting, declining, due>>
  BY DEF MatcherRead, MatcherDies, MatcherGivesUp, MatcherPicks
<1>2. /\ OneOfferPerSlot' /\ JoinedCounts' /\ OffersPlaced' /\ BookedEntryStaysAccepted' /\ DueSuits'
      /\ \A t \in WSlots : Awaited(t)' <=> Awaited(t)
      /\ \A t \in WSlots : OfferedFor(t)' = OfferedFor(t)
  BY <1>1 DEF WaitlistInv, OneOfferPerSlot, InStatus, JoinedCounts, Inserted, OffersPlaced,
              BookedEntryStaysAccepted, DueSuits, Awaited, OfferedFor
\* What remains once the matcher's row, the events and the excuses are known.
<1>3. ASSUME NEW r \in MatcherRow, matching' = [matching EXCEPT ![m] = r], MatchersPlaced',
             reopened' \in [Named -> 0 .. MaxReopened], excused \subseteq excused', excused' \subseteq WSlots,
             \A t \in WSlots : t # r.slot /\ t # matching[m].slot => reopened'[t] = reopened[t],
             matching[m].slot = r.slot \/ matching[m].slot \notin WSlots
      PROVE  WaitlistInv'
  <2>1. WaitlistTypeOK'
    BY <1>0, <1>1, <1>3 DEF WaitlistTypeOK, MatcherRow
  <2>2. matching'[m].slot = r.slot /\ \A n \in Matchers : n # m => matching'[n] = matching[n]
    BY <1>0, <1>3
  <2>3. ASSUME NEW t \in WSlots, Pursued(t) PROVE Pursued(t)'
    <3>1. CASE t = r.slot
      BY <2>2, <3>1 DEF Pursued
    <3>2. CASE t # r.slot
      BY <1>2, <1>3, <2>2, <2>3, <3>2 DEF Pursued
    <3> QED
      BY <3>1, <3>2
  <2>4. NoWaiterForgotten'
    <3>1. \A t \in WSlots : Pursued(t) => Pursued(t)'
      BY <2>3
    <3>2. \A t \in WSlots : Awaited(t)' => Awaited(t)
      BY <1>2
    <3>3. \A t \in WSlots \ excused' : t \notin excused /\ wslots'[t] = wslots[t]
      BY <1>1, <1>3
    <3> QED
      BY <3>1, <3>2, <3>3, StillPursued
  <2> QED
    BY <1>2, <1>3, <2>1, <2>4 DEF WaitlistInv
<1>4. ASSUME NEW s \in Named, MatcherRead(m, s) PROVE WaitlistInv'
  <2> DEFINE r == [step |-> "read", slot |-> s, rows |-> {}]
  <2>1. /\ matching[m] = IdleMatcher /\ reopened[s] > 0 /\ reopened' = [reopened EXCEPT ![s] = @ - 1]
        /\ excused' = excused
        /\ \/ matching' = [matching EXCEPT ![m] = r]
           \/ matching' = matching /\ (s \in WSlots => wslots[s] # "open")
    BY <1>4 DEF MatcherRead
  <2>2. /\ matching[m].slot \notin WSlots /\ reopened' \in [Named -> 0 .. MaxReopened]
        /\ excused' \subseteq WSlots /\ \A t \in WSlots : t # s => reopened'[t] = reopened[t]
    BY <1>0, <2>1, WaitlistAssumption DEF IdleMatcher, WaitlistTypeOK, Named
  <2>3. CASE matching' = [matching EXCEPT ![m] = r]
    <3>1. r \in MatcherRow /\ r.slot = s
      BY DEF MatcherRow
    <3>2. MatchersPlaced'
      BY <1>1, <2>3, <3>1, MatcherPlaced
    <3> QED
      BY <1>3, <2>1, <2>2, <2>3, <3>1, <3>2
  <2>4. CASE matching' = matching /\ (s \in WSlots => wslots[s] # "open")
    <3>1. MatchersPlaced' /\ WaitlistTypeOK'
      BY <1>0, <1>1, <2>1, <2>2, <2>4 DEF MatchersPlaced, WaitlistTypeOK
    <3>2. ASSUME NEW t \in WSlots, t # s, Pursued(t) PROVE Pursued(t)'
      BY <1>2, <2>2, <2>4, <3>2 DEF Pursued
    <3>3. NoWaiterForgotten'
      BY <1>1, <1>2, <2>1, <2>4, <3>2, StillPursued
    <3> QED
      BY <1>2, <3>1, <3>3 DEF WaitlistInv
  <2> QED
    BY <2>1, <2>3, <2>4
<1>5. IdleMatcher \in MatcherRow /\ IdleMatcher.slot \notin WSlots
  BY WaitlistAssumption DEF IdleMatcher, MatcherRow, Named
<1> DEFINE s == matching[m].slot
<1>6. CASE MatcherDies(m)
  <2>1. /\ s \in Named /\ CanAnnounce(s) /\ reopened' = [reopened EXCEPT ![s] = @ + 1] /\ excused' = excused
        /\ matching' = [matching EXCEPT ![m] = IdleMatcher]
    BY <1>0, <1>6 DEF MatcherDies, MatcherRow
  <2>2. reopened' \in [Named -> 0 .. MaxReopened] /\ reopened'[matching[m].slot] > 0
    BY <1>0, <2>1 DEF CanAnnounce
  <2>3. excused' \subseteq WSlots /\ MatchersPlaced'
    BY <1>0, <1>1, <1>5, <2>1, MatcherPlaced DEF WaitlistTypeOK
  <2>4. NoWaiterForgotten'
    <3>1. ASSUME NEW t \in WSlots, Pursued(t) PROVE Pursued(t)'
      <4>1. CASE t = matching[m].slot
        BY <2>2, <4>1 DEF Pursued
      <4>2. CASE t # matching[m].slot
        BY <1>0, <1>2, <2>1, <3>1, <4>2 DEF Pursued, Named
      <4> QED
        BY <4>1, <4>2
    <3> QED
      BY <1>1, <1>2, <2>1, <3>1, StillPursued
  <2>5. WaitlistTypeOK'
    BY <1>0, <1>1, <1>5, <2>1, <2>2 DEF WaitlistTypeOK, MatcherRow
  <2> QED
    BY <1>2, <2>3, <2>4, <2>5 DEF WaitlistInv
<1>7. CASE MatcherGivesUp(m)
  <2>1. /\ s \in Named /\ reopened' = reopened /\ matching' = [matching EXCEPT ![m] = IdleMatcher]
        /\ \/ (s = "none" \/ OfferedFor(s) # {}) /\ excused' = excused
           \/ s # "none" /\ excused' = IF Suitable(s) = {} THEN excused ELSE excused \union {s}
    BY <1>0, <1>7 DEF MatcherGivesUp, MatcherRow
  <2>2. MatchersPlaced' /\ excused \subseteq excused' /\ excused' \subseteq WSlots
    BY <1>0, <1>1, <1>5, <2>1, MatcherPlaced DEF WaitlistTypeOK, Named
  <2>3. WaitlistTypeOK'
    BY <1>0, <1>1, <1>5, <2>1, <2>2 DEF WaitlistTypeOK, MatcherRow
  <2>4. NoWaiterForgotten'
    <3>1. ASSUME NEW t \in WSlots, t # matching[m].slot, Pursued(t) PROVE Pursued(t)'
      BY <1>0, <1>2, <2>1, <3>1 DEF Pursued
    <3>3. s \in WSlots /\ Suitable(s) = {} => ~Awaited(s)
      BY <1>0, <2>1 DEF Suitable, InStatus, Awaited, DueSuits, Inserted
    <3>2. \A t \in WSlots \ excused' : t = matching[m].slot => Pursued(t)' \/ ~Awaited(t)'
      <4> SUFFICES ASSUME NEW t \in WSlots \ excused', t = matching[m].slot PROVE Pursued(t)' \/ ~Awaited(t)'
        OBVIOUS
      <4>1. CASE OfferedFor(t) # {}
        BY <1>2, <4>1 DEF Pursued
      <4>2. CASE Suitable(t) = {}
        BY <1>2, <3>3, <4>2
      <4> QED
        BY <2>1, <4>1, <4>2, WaitlistAssumption
    <3> QED
      BY <1>1, <1>2, <2>2, <3>1, <3>2, StillPursued
  <2> QED
    BY <1>2, <2>2, <2>3, <2>4 DEF WaitlistInv
<1>8. CASE MatcherPicks(m)
  <2>1. PICK e \in Candidates(s) : matching' = [matching EXCEPT ![m] = [step |-> "picked", slot |-> s, rows |-> {e}]]
    BY <1>8 DEF MatcherPicks
  <2> DEFINE r == [step |-> "picked", slot |-> s, rows |-> {e}]
  <2>2. e \in InStatus("waiting") \ LockedRows /\ e \in Entries /\ s \in Named /\ UNCHANGED <<reopened, excused>>
    BY <1>0, <1>8 DEF Candidates, Suitable, InStatus, MatcherPicks, MatcherRow
  <2>3. r \in MatcherRow
    BY <2>2 DEF MatcherRow
  <2>4. MatchersPlaced'
    BY <1>1, <2>1, <2>2, <2>3, MatcherPlaced
  <2>5. excused' \subseteq WSlots /\ excused \subseteq excused' /\ reopened' \in [Named -> 0 .. MaxReopened]
        /\ \A t \in WSlots : reopened'[t] = reopened[t]
    BY <1>0, <2>2 DEF WaitlistTypeOK
  <2> QED
    BY <1>3, <2>1, <2>3, <2>4, <2>5
<1> QED
  BY <1>4, <1>6, <1>7, <1>8

\* The offer itself: the slot goes on offer to the picked waiter, or the unique
\* index keeps it with the customer who has it.
LEMMA OfferSteps ==
  ASSUME WaitlistInv, NEW m \in Matchers, MatcherOffers(m)
  PROVE  WaitlistInv'
<1>0. /\ WaitlistTypeOK /\ OneOfferPerSlot /\ BookedEntryStaysAccepted /\ JoinedCounts /\ OffersPlaced
      /\ MatchersPlaced /\ DueSuits
      /\ line \in [Entries -> WaitlistEntry] /\ matching \in [Matchers -> MatcherRow]
  BY DEF WaitlistInv, WaitlistTypeOK, MatcherRow
<1>1. UNCHANGED <<joined, wslots, reopened, sweeping, accepting, declining, due, excused>>
  BY DEF MatcherOffers
<1>2. PICK e \in Entries, s \in Named : matching[m].rows = {e} /\ matching[m].slot = s /\ line[e].status = "waiting"
  BY <1>0 DEF MatcherOffers, MatchersPlaced, MatcherRow
<1>3. /\ matching' = [matching EXCEPT ![m] = IdleMatcher] /\ matching[m].step = "picked"
      /\ IdleMatcher \in MatcherRow
  BY DEF MatcherOffers, IdleMatcher, MatcherRow, Named
<1>4. \A n \in Matchers : n # m => matching'[n] = matching[n] /\ e \notin matching[n].rows
  BY <1>0, <1>2, <1>3 DEF MatchersPlaced
<1>5. matching' \in [Matchers -> MatcherRow] /\ matching'[m] = IdleMatcher
  BY <1>0, <1>3
<1>6. CASE NotOnOffer(s)
  <2> DEFINE r == [status |-> "offered", position |-> line[e].position, slot |-> s,
                   lapsed |-> line[e].lapsed, booked |-> line[e].booked]
  <2>1. line' = [f \in Entries |-> IF f \in {e} THEN [status |-> "offered", position |-> line[f].position, slot |-> s,
                                                      lapsed |-> line[f].lapsed, booked |-> line[f].booked]
                                   ELSE line[f]]
    BY <1>2, <1>6 DEF MatcherOffers
  <2>2. r \in WaitlistEntry /\ line[e].booked = FALSE
    <3>1. line[e].lapsed \in BOOLEAN /\ line[e].booked \in BOOLEAN
      BY <1>0, <1>2, Zenon DEF WaitlistEntry
    <3>2. (line[e].status = "accepted") = line[e].booked
      BY <1>0 DEF BookedEntryStaysAccepted
    <3> QED
      BY <1>0, <1>2, <3>1, <3>2 DEF WaitlistEntry, WaitlistStatuses
  <2>3. line'[e] = r /\ \A f \in Entries : f # e => line'[f] = line[f]
    BY <2>1
  <2>4. /\ line' \in [Entries -> WaitlistEntry] /\ line'[e].status = "offered" /\ line'[e].slot = s
        /\ line'[e].booked = FALSE
    BY <1>0, <2>1, <2>2, <2>3
  <2>5. WaitlistTypeOK'
    BY <1>0, <1>1, <1>5, <2>4 DEF WaitlistTypeOK, MatcherRow
  <2>6. OneOfferPerSlot'
    BY <1>0, <1>6, <2>3, <2>4 DEF OneOfferPerSlot, InStatus, NotOnOffer, OfferedFor
  <2>7. BookedEntryStaysAccepted'
    BY <1>0, <1>1, <1>2, <2>3, <2>4 DEF BookedEntryStaysAccepted
  <2>8. JoinedCounts'
    <3>1. \A f \in Entries : line'[f].status \in {"none", "joining"} <=> line[f].status \in {"none", "joining"}
      BY <1>2, <2>3, <2>4
    <3> QED
      BY <1>0, <1>1, <3>1, CountStandsStill
  <2>9. OffersPlaced' /\ DueSuits'
    BY <1>0, <1>1, <1>2, <2>3, <2>4 DEF OffersPlaced, DueSuits, Inserted
  <2>10. MatchersPlaced'
    <3>1. ASSUME NEW n \in Matchers
          PROVE  /\ matching'[n].step = "idle" => matching'[n] = IdleMatcher
                 /\ matching'[n].step = "read" => matching'[n].rows = {}
                 /\ matching'[n].step = "picked" => \E f \in Entries : matching'[n].rows = {f}
      BY <1>0, <1>4, <1>5 DEF MatchersPlaced, IdleMatcher
    <3>2. ASSUME NEW n \in Matchers, NEW f \in matching'[n].rows PROVE line'[f].status = "waiting"
      <4>1. n # m
        BY <1>5, <3>2 DEF IdleMatcher
      <4>2. f # e /\ f \in Entries /\ line[f].status = "waiting"
        BY <1>0, <1>4, <3>2, <4>1 DEF MatchersPlaced, MatcherRow
      <4> QED
        BY <2>3, <4>2
    <3>3. \A n, k \in Matchers : matching'[n].rows \cap matching'[k].rows # {} => n = k
      BY <1>0, <1>4, <1>5 DEF MatchersPlaced, IdleMatcher
    <3> QED
      BY <3>1, <3>2, <3>3 DEF MatchersPlaced
  <2>11. NoWaiterForgotten'
    <3>1. s \in WSlots => Pursued(s)'
      BY <2>4 DEF Pursued, OfferedFor, InStatus
    <3>2. ASSUME NEW t \in WSlots, Awaited(t)' PROVE Awaited(t)
      BY <1>0, <1>1, <2>3, <2>4, <3>2 DEF Awaited, DueSuits, Inserted
    <3>3. ASSUME NEW t \in WSlots, t # s, Pursued(t) PROVE Pursued(t)'
      BY <1>1, <1>2, <1>4, <2>3, <3>3 DEF Pursued, OfferedFor, InStatus
    <3> QED
      BY <1>1, <3>1, <3>2, <3>3, StillPursued
  <2> QED
    BY <2>5, <2>6, <2>7, <2>8, <2>9, <2>10, <2>11 DEF WaitlistInv
<1>7. CASE ~NotOnOffer(s)
  <2>1. line' = line
    BY <1>2, <1>7 DEF MatcherOffers
  <2>2. WaitlistTypeOK'
    BY <1>0, <1>1, <1>5, <2>1 DEF WaitlistTypeOK, MatcherRow
  <2>3. OneOfferPerSlot' /\ BookedEntryStaysAccepted' /\ JoinedCounts' /\ OffersPlaced' /\ DueSuits'
    BY <1>0, <1>1, <2>1 DEF OneOfferPerSlot, InStatus, BookedEntryStaysAccepted, JoinedCounts, Inserted,
                            OffersPlaced, DueSuits
  <2>4. MatchersPlaced'
    BY <1>3, <2>1, MatcherPlaced
  <2>5. NoWaiterForgotten'
    <3>1. \A t \in WSlots : (Awaited(t)' <=> Awaited(t)) /\ OfferedFor(t)' = OfferedFor(t)
      BY <1>1, <2>1 DEF Awaited, OfferedFor, InStatus
    <3>2. OfferedFor(s) # {} /\ s \in WSlots
      BY <1>2, <1>7 DEF NotOnOffer, Named
    <3>3. Pursued(s)'
      BY <3>1, <3>2 DEF Pursued
    <3>4. ASSUME NEW t \in WSlots, t # s, Pursued(t) PROVE Pursued(t)'
      BY <1>1, <1>2, <1>4, <3>1, <3>4 DEF Pursued
    <3> QED
      BY <1>1, <3>1, <3>3, <3>4, StillPursued
  <2> QED
    BY <2>2, <2>3, <2>4, <2>5 DEF WaitlistInv
<1> QED
  BY <1>6, <1>7

\* The sweep reads its list, or a decline its entry; nothing else moves.
LEMMA SweepListed ==
  WaitlistInv /\ (SweepReads \/ (\E e \in Entries : DeclineReads(e)) \/ UNCHANGED waitlistVars) => WaitlistInv'
<1> SUFFICES ASSUME WaitlistInv, SweepReads \/ (\E e \in Entries : DeclineReads(e)) \/ UNCHANGED waitlistVars
             PROVE  WaitlistInv'
  OBVIOUS
<1>0. WaitlistTypeOK /\ OffersPlaced
  BY DEF WaitlistInv
<1>1. UNCHANGED <<line, joined, wslots, reopened, matching, accepting, due, excused>>
  BY DEF SweepReads, DeclineReads, waitlistVars
<1>2. sweeping' \subseteq Entries /\ declining' \in [Entries -> Named \union {"no"}]
  <2>1. CASE SweepReads \/ UNCHANGED waitlistVars
    BY <1>0, <2>1 DEF SweepReads, waitlistVars, WaitlistTypeOK, InStatus
  <2>2. ASSUME NEW e \in Entries, DeclineReads(e)
        PROVE  sweeping' \subseteq Entries /\ declining' \in [Entries -> Named \union {"no"}]
    <3>1. line[e].slot \in Named
      BY <1>0, Zenon DEF WaitlistTypeOK, WaitlistEntry
    <3> QED
      BY <1>0, <2>2, <3>1 DEF DeclineReads, WaitlistTypeOK
  <2> QED
    BY <2>1, <2>2
<1>3. WaitlistTypeOK' /\ OffersPlaced'
  BY <1>0, <1>1, <1>2 DEF WaitlistTypeOK, OffersPlaced
<1> QED
  BY <1>1, <1>3 DEF WaitlistInv, OneOfferPerSlot, InStatus, BookedEntryStaysAccepted, NoWaiterForgotten, OfferedFor,
                    JoinedCounts, Inserted, MatchersPlaced, DueSuits

\* A freed slot is on offer to one waiter at most, an accepted entry keeps its
\* booking, and nobody who was waiting when it was announced is forgotten, with
\* any number of entries, slots and matchers.
THEOREM LineFollowed == WaitlistSpec => []OffersFollowTheLine
<1>1. WaitlistInv /\ [WaitlistNext]_waitlistVars => WaitlistInv'
  <2> SUFFICES ASSUME WaitlistInv, [WaitlistNext]_waitlistVars PROVE WaitlistInv'
    OBVIOUS
  <2>1. ASSUME NEW e \in Entries,
               \/ JoinCount(e) \/ JoinInsert(e) \/ Remove(e) \/ DeclineWrites(e) \/ EraseEntry(e)
               \/ OfferLapses(e) \/ SweepVisits(e)
               \/ AcceptReads(e) \/ AcceptCommits(e) \/ MarkMissed(e)
        PROVE  WaitlistInv'
    BY <2>1, EntrySteps, AcceptSteps
  <2>2. ASSUME NEW s \in WSlots, WalkIn(s) \/ SlotReopened(s) \/ SlotFreedByReschedule(s) PROVE WaitlistInv'
    BY <2>2, WaitSlotSteps
  <2>3. ASSUME NEW m \in Matchers,
               \/ \E s \in Named : MatcherRead(m, s)
               \/ MatcherDies(m) \/ MatcherGivesUp(m) \/ MatcherPicks(m) \/ MatcherOffers(m)
        PROVE  WaitlistInv'
    BY <2>3, MatcherSteps, OfferSteps
  <2>4. CASE SweepReads \/ (\E e \in Entries : DeclineReads(e)) \/ UNCHANGED waitlistVars
    BY <2>4, SweepListed
  <2> QED
    BY <2>1, <2>2, <2>3, <2>4 DEF WaitlistNext
<1>2. WaitlistInv => OffersFollowTheLine
  BY DEF WaitlistInv, OffersFollowTheLine
<1> QED
  BY <1>1, <1>2, LineBegins, PTL DEF WaitlistSpec

(* The open conversation: the inductive invariant.                         *)

ThreadRow == [status : {"loading", "ready"}, shown : SUBSET MessageNumbers,
              nextBefore : 0 .. MaxPosted, newestSeen : 0 .. MaxPosted,
              lastMarked : 0 .. MaxPosted, markingUpTo : 0 .. MaxPosted]

\* Nothing has been asked of a thread that is loading, except its page.
LoadsFirst == /\ page.for = "load" => thread.status = "loading"
              /\ thread.status = "loading" => older = 0

\* What is read, sent or answered exists at the server.
ServedIsPosted == page.last <= posted /\ readTo <= posted /\ ownSend <= posted

\* The older page under way is the one that follows what is shown.
OlderFollows == older # 0 => older = thread.nextBefore

\* What the server answered to a mark it still knows.
AnswersStand == \A k \in marks : k.answer <= readTo

ThreadInv ==
  /\ ThreadTypeOK /\ LoadsFirst /\ ServedIsPosted /\ OlderFollows /\ AnswersStand
  /\ MarkedIsConfirmed /\ SeenIsShown

\* What the rows are.
LEMMA ThreadTypes ==
  ASSUME ThreadInv
  PROVE  /\ PageSize \in Nat \ {0} /\ MaxPosted \in Nat \ {0} /\ MessageNumbers = 1 .. MaxPosted
         /\ posted \in 0 .. MaxPosted /\ readTo \in 0 .. MaxPosted
         /\ thread \in ThreadRow /\ page.last \in 0 .. MaxPosted
         /\ page \in [for : {"no", "load", "poll"}, last : 0 .. MaxPosted]
         /\ older \in 0 .. MaxPosted /\ ownSend \in 0 .. MaxPosted
         /\ marks \subseteq [upTo : MessageNumbers, answer : 0 .. MaxPosted]
         /\ jumped \subseteq MessageNumbers
BY ThreadAssumption DEF ThreadInv, ThreadTypeOK, ThreadRow, MessageNumbers

\* A mark-read request leaves the rest of the thread alone.
LEMMA MarkingKeeps ==
  ASSUME ThreadInv, NEW t \in ThreadRow, NEW upTo \in 0 .. MaxPosted
  PROVE  /\ Marking(t, upTo) \in ThreadRow
         /\ Marking(t, upTo).status = t.status /\ Marking(t, upTo).shown = t.shown
         /\ Marking(t, upTo).nextBefore = t.nextBefore /\ Marking(t, upTo).newestSeen = t.newestSeen
         /\ Marking(t, upTo).lastMarked = t.lastMarked
         /\ MarkRequest(t, upTo) \subseteq [upTo : MessageNumbers, answer : 0 .. MaxPosted]
         /\ \A k \in MarkRequest(t, upTo) : k.answer = 0
<1>1. Marking(t, upTo) = t \/ Marking(t, upTo) = [t EXCEPT !.markingUpTo = upTo]
  BY DEF Marking
<1>2. /\ Marking(t, upTo) \in ThreadRow
      /\ Marking(t, upTo).status = t.status /\ Marking(t, upTo).shown = t.shown
      /\ Marking(t, upTo).nextBefore = t.nextBefore /\ Marking(t, upTo).newestSeen = t.newestSeen
      /\ Marking(t, upTo).lastMarked = t.lastMarked
  BY <1>1 DEF ThreadRow
<1>3. /\ MarkRequest(t, upTo) \subseteq [upTo : MessageNumbers, answer : 0 .. MaxPosted]
      /\ \A k \in MarkRequest(t, upTo) : k.answer = 0
  BY ThreadTypes DEF MarkRequest, Asks, ThreadRow
<1> QED
  BY <1>2, <1>3

\* The thread moves on: what remains to be said of its new row.
LEMMA ThreadMoves ==
  ASSUME ThreadInv, NEW t \in ThreadRow, thread' = t,
         UNCHANGED <<posted, readTo>>, marks' \subseteq [upTo : MessageNumbers, answer : 0 .. MaxPosted],
         \A k \in marks' : k \in marks \/ k.answer = 0,
         page' = page \/ page' = NoPage, ownSend' = ownSend \/ ownSend' = 0, older' = older \/ older' = 0,
         jumped' \subseteq MessageNumbers,
         page'.for = "load" => t.status = "loading", t.status = "loading" => older' = 0,
         older' # 0 => t.nextBefore = thread.nextBefore,
         t.lastMarked <= readTo,
         \A i \in 1 .. t.newestSeen : i \in t.shown \/ i < t.nextBefore \/ i \in jumped'
  PROVE  ThreadInv'
<1>1. /\ page' \in [for : {"no", "load", "poll"}, last : 0 .. MaxPosted] /\ page'.last <= posted
      /\ older' \in 0 .. MaxPosted /\ ownSend' \in 0 .. MaxPosted /\ ownSend' <= posted
  BY ThreadTypes DEF ThreadInv, NoPage, ServedIsPosted
<1>2. ThreadTypeOK'
  BY <1>1, ThreadTypes DEF ThreadTypeOK, ThreadRow
<1>3. LoadsFirst' /\ ServedIsPosted' /\ OlderFollows' /\ MarkedIsConfirmed' /\ SeenIsShown'
  BY <1>1 DEF ThreadInv, LoadsFirst, ServedIsPosted, OlderFollows, MarkedIsConfirmed, SeenIsShown
<1>4. AnswersStand'
  BY ThreadTypes DEF ThreadInv, AnswersStand
<1> QED
  BY <1>2, <1>3, <1>4 DEF ThreadInv

\* A page is what fits behind a sequence, and what does not fit is asked for next.
LEMMA PageCovers ==
  ASSUME PageSize \in Nat \ {0}, MaxPosted \in Nat, NEW n \in 1 .. MaxPosted + 1
  PROVE  /\ PageBefore(n) \subseteq MessageNumbers
         /\ NextBefore(n) \in 0 .. MaxPosted
         /\ \A i \in MessageNumbers : i < n => i \in PageBefore(n) \/ i < NextBefore(n)
BY DEF PageBefore, NextBefore, MessageNumbers

\* The server's steps.
LEMMA ServerSteps ==
  ASSUME ThreadInv, TheyPost \/ IPost \/ \E k \in marks : ServeMark(k)
  PROVE  ThreadInv'
<1>1. UNCHANGED <<thread, page, older, jumped>>
  BY DEF TheyPost, IPost, ServeMark
<1>2. /\ posted' \in 0 .. MaxPosted /\ posted <= posted'
      /\ readTo' \in 0 .. posted' /\ readTo <= readTo' /\ ownSend' \in 0 .. posted'
      /\ marks' \subseteq [upTo : MessageNumbers, answer : 0 .. MaxPosted]
      /\ \A m \in marks' : m \in marks \/ m.answer <= readTo'
  <2>1. /\ posted \in 0 .. MaxPosted /\ readTo \in 0 .. posted /\ ownSend \in 0 .. posted /\ MaxPosted \in Nat
    BY ThreadTypes DEF ThreadInv, ServedIsPosted
  <2>2. CASE TheyPost
    BY <2>1, <2>2, ThreadTypes DEF TheyPost
  <2>3. CASE IPost
    BY <2>1, <2>3, ThreadTypes DEF IPost, AtLeast
  <2>4. ASSUME NEW k \in marks, ServeMark(k)
        PROVE  /\ posted' = posted /\ readTo' \in 0 .. posted /\ readTo <= readTo' /\ ownSend' = ownSend
               /\ marks' \subseteq [upTo : MessageNumbers, answer : 0 .. MaxPosted]
               /\ \A m \in marks' : m \in marks \/ m.answer <= readTo'
    <3>1. k \in [upTo : MessageNumbers, answer : 0 .. MaxPosted] /\ k.upTo \in 1 .. MaxPosted
      BY ThreadTypes
    <3>2. posted' = posted /\ ownSend' = ownSend /\ readTo' \in 0 .. posted /\ readTo <= readTo'
      BY <2>1, <2>4, <3>1 DEF ServeMark, AtLeast, AtMost
    <3> DEFINE m == [k EXCEPT !.answer = readTo']
    <3>3. m \in [upTo : MessageNumbers, answer : 0 .. MaxPosted] /\ m.answer = readTo'
      BY <2>1, <3>1, <3>2
    <3>4. marks' = (marks \ {k}) \union {m}
      BY <2>4 DEF ServeMark
    <3> HIDE DEF m
    <3> QED
      BY <2>1, <3>2, <3>3, <3>4, ThreadTypes
  <2> QED
    BY <2>1, <2>2, <2>3, <2>4
<1>3. page'.last <= posted'
  BY <1>1, <1>2, ThreadTypes DEF ThreadInv, ServedIsPosted
<1>4. ThreadTypeOK'
  <2>1. readTo' \in 0 .. MaxPosted /\ ownSend' \in 0 .. MaxPosted
    BY <1>2, ThreadTypes
  <2> QED
    BY <1>1, <1>2, <2>1 DEF ThreadInv, ThreadTypeOK
<1>5. LoadsFirst' /\ OlderFollows' /\ SeenIsShown'
  BY <1>1 DEF ThreadInv, LoadsFirst, OlderFollows, SeenIsShown
<1>6. ServedIsPosted'
  BY <1>2, <1>3 DEF ServedIsPosted
<1>7. MarkedIsConfirmed'
  BY <1>1, <1>2, ThreadTypes DEF ThreadInv, MarkedIsConfirmed, ThreadRow
<1>8. AnswersStand'
  <2> SUFFICES ASSUME NEW m \in marks' PROVE m.answer <= readTo'
    BY DEF AnswersStand
  <2>1. m \in marks => m.answer <= readTo /\ m.answer \in Int
    BY ThreadTypes DEF ThreadInv, AnswersStand
  <2> QED
    BY <1>2, <2>1, ThreadTypes
<1> QED
  BY <1>4, <1>5, <1>6, <1>7, <1>8 DEF ThreadInv

\* The page under way, the older page under way.
LEMMA OlderAskSteps ==
  ASSUME ThreadInv, ReadPage("load") \/ ReadPage("poll") \/ AskOlder
  PROVE  ThreadInv'
<1>1. UNCHANGED <<posted, readTo, thread, ownSend, marks, jumped>>
  BY DEF ReadPage, AskOlder
<1>2. /\ page' \in [for : {"no", "load", "poll"}, last : 0 .. MaxPosted] /\ page'.last <= posted
      /\ older' \in 0 .. MaxPosted /\ (older' # 0 => older' = thread.nextBefore)
      /\ page'.for = "load" => thread.status = "loading"
      /\ thread.status = "loading" => older' = 0
  <2>1. CASE ReadPage("load") \/ ReadPage("poll")
    BY <2>1, ThreadTypes DEF ReadPage, ThreadInv, OlderFollows, LoadsFirst
  <2>2. CASE AskOlder
    BY <2>2, ThreadTypes DEF AskOlder, ThreadInv, ThreadRow, ServedIsPosted, LoadsFirst
  <2> QED
    BY <2>1, <2>2
<1>3. ThreadTypeOK'
  BY <1>1, <1>2, ThreadTypes DEF ThreadInv, ThreadTypeOK
<1>4. LoadsFirst' /\ ServedIsPosted' /\ OlderFollows' /\ MarkedIsConfirmed' /\ SeenIsShown' /\ AnswersStand'
  BY <1>1, <1>2 DEF ThreadInv, LoadsFirst, ServedIsPosted, OlderFollows, MarkedIsConfirmed, SeenIsShown, AnswersStand
<1> QED
  BY <1>3, <1>4 DEF ThreadInv

\* What arrives at the thread, or is lost on the way.
LEMMA ThreadTurns ==
  ASSUME ThreadInv,
         Loaded \/ Polled \/ PageLost \/ OlderArrives \/ SentAnswered \/ \E k \in marks : MarkEnds(k)
  PROVE  ThreadInv'
<1>1. /\ thread \in ThreadRow /\ page.last \in 0 .. MaxPosted /\ MaxPosted \in Nat /\ PageSize \in Nat \ {0}
      /\ MessageNumbers = 1 .. MaxPosted /\ jumped \subseteq MessageNumbers
      /\ older \in 0 .. MaxPosted /\ ownSend \in 0 .. MaxPosted /\ readTo \in 0 .. MaxPosted
      /\ marks \subseteq [upTo : MessageNumbers, answer : 0 .. MaxPosted]
      /\ NoPage.for = "no"
  BY ThreadTypes DEF NoPage
<1>2. /\ page.for = "load" => thread.status = "loading"
      /\ thread.status = "loading" => older = 0
      /\ older # 0 => older = thread.nextBefore
      /\ thread.lastMarked <= readTo
      /\ \A i \in 1 .. thread.newestSeen : i \in thread.shown \/ i < thread.nextBefore \/ i \in jumped
  BY DEF ThreadInv, LoadsFirst, OlderFollows, MarkedIsConfirmed, SeenIsShown
<1>3. /\ thread.newestSeen \in 0 .. MaxPosted /\ thread.shown \subseteq MessageNumbers
      /\ thread.nextBefore \in 0 .. MaxPosted /\ thread.lastMarked \in 0 .. MaxPosted
  BY <1>1 DEF ThreadRow
<1>4. CASE Loaded
  <2> DEFINE s == [thread EXCEPT !.status = "ready", !.shown = PageBefore(page.last + 1),
                                 !.nextBefore = NextBefore(page.last + 1), !.newestSeen = page.last]
             t == Marking(s, page.last)
  <2>1. /\ PageBefore(page.last + 1) \subseteq MessageNumbers /\ NextBefore(page.last + 1) \in 0 .. MaxPosted
        /\ \A i \in MessageNumbers : i < page.last + 1 => i \in PageBefore(page.last + 1) \/ i < NextBefore(page.last + 1)
    BY <1>1, PageCovers
  <2>2. /\ s \in ThreadRow /\ s.status = "ready" /\ s.shown = PageBefore(page.last + 1)
        /\ s.nextBefore = NextBefore(page.last + 1) /\ s.newestSeen = page.last
        /\ s.lastMarked = thread.lastMarked
    BY <1>1, <2>1 DEF ThreadRow
  <2>3. /\ thread' = t /\ marks' = marks \union MarkRequest(s, page.last) /\ page' = NoPage
        /\ UNCHANGED <<posted, readTo, older, ownSend, jumped>> /\ older = 0
    BY <1>2, <1>4 DEF Loaded
  <2> HIDE DEF s
  <2>4. /\ t \in ThreadRow /\ t.status = "ready" /\ t.shown = PageBefore(page.last + 1)
        /\ t.nextBefore = NextBefore(page.last + 1) /\ t.newestSeen = page.last
        /\ t.lastMarked = thread.lastMarked
        /\ MarkRequest(s, page.last) \subseteq [upTo : MessageNumbers, answer : 0 .. MaxPosted]
        /\ \A k \in MarkRequest(s, page.last) : k.answer = 0
    BY <1>1, <2>2, MarkingKeeps
  <2> HIDE DEF t
  <2>5. \A i \in 1 .. t.newestSeen : i \in t.shown \/ i < t.nextBefore \/ i \in jumped'
    BY <1>1, <2>1, <2>4
  <2> QED
    BY <1>1, <1>2, <2>3, <2>4, <2>5, ThreadMoves
<1>5. CASE Polled
  <2> DEFINE newer == page.last > thread.newestSeen
             s == IF newer THEN [thread EXCEPT !.newestSeen = page.last,
                                               !.shown = @ \union PageBefore(page.last + 1)]
                  ELSE thread
             t == Marking(s, s.newestSeen)
  <2>1. PageBefore(page.last + 1) \subseteq MessageNumbers
    BY <1>1, PageCovers
  <2>2. /\ s \in ThreadRow /\ s.status = thread.status /\ s.nextBefore = thread.nextBefore
        /\ s.lastMarked = thread.lastMarked
        /\ newer => s.newestSeen = page.last /\ s.shown = thread.shown \union PageBefore(page.last + 1)
        /\ ~newer => s.newestSeen = thread.newestSeen /\ s.shown = thread.shown
    BY <1>1, <2>1 DEF ThreadRow
  <2>3. /\ thread' = t /\ marks' = marks \union MarkRequest(s, s.newestSeen) /\ page' = NoPage
        /\ jumped' = IF newer THEN (jumped \union Between(thread, page.last)) \ s.shown ELSE jumped
        /\ UNCHANGED <<posted, readTo, older, ownSend>>
    BY <1>5 DEF Polled
  <2> HIDE DEF s
  <2>4. s.newestSeen \in 0 .. MaxPosted
    BY <2>2 DEF ThreadRow
  <2>5. /\ t \in ThreadRow /\ t.status = thread.status /\ t.shown = s.shown
        /\ t.nextBefore = thread.nextBefore /\ t.newestSeen = s.newestSeen
        /\ t.lastMarked = thread.lastMarked
        /\ MarkRequest(s, s.newestSeen) \subseteq [upTo : MessageNumbers, answer : 0 .. MaxPosted]
        /\ \A k \in MarkRequest(s, s.newestSeen) : k.answer = 0
    BY <2>2, <2>4, MarkingKeeps
  <2> HIDE DEF t
  <2>6. jumped' \subseteq MessageNumbers
    BY <1>1, <2>3 DEF Between
  <2>7. \A i \in 1 .. t.newestSeen : i \in t.shown \/ i < t.nextBefore \/ i \in jumped'
    <3>1. CASE newer
      <4>1. \A i \in MessageNumbers : i <= page.last =>
              i <= thread.newestSeen \/ i \in PageBefore(page.last + 1) \/ i \in Between(thread, page.last)
        BY <1>1, <1>3 DEF PageBefore, Between
      <4> QED
        BY <1>1, <1>2, <1>3, <2>2, <2>3, <2>5, <3>1, <4>1
    <3>2. CASE ~newer
      BY <1>2, <2>2, <2>3, <2>5, <3>2
    <3> QED
      BY <3>1, <3>2
  <2> HIDE DEF newer
  <2> QED
    BY <1>1, <1>2, <2>3, <2>5, <2>6, <2>7, ThreadMoves
<1>6. CASE PageLost
  BY <1>1, <1>2, <1>6, ThreadMoves DEF PageLost
<1>7. CASE OlderArrives
  <2>1. CASE UNCHANGED thread
    BY <1>1, <1>2, <1>7, <2>1, ThreadMoves DEF OlderArrives
  <2>2. CASE thread' = [thread EXCEPT !.shown = @ \union PageBefore(older), !.nextBefore = NextBefore(older)]
    <3> DEFINE t == [thread EXCEPT !.shown = @ \union PageBefore(older), !.nextBefore = NextBefore(older)]
    <3>1. /\ PageBefore(older) \subseteq MessageNumbers /\ NextBefore(older) \in 0 .. MaxPosted
          /\ \A i \in MessageNumbers : i < older => i \in PageBefore(older) \/ i < NextBefore(older)
      BY <1>1, <1>7, PageCovers DEF OlderArrives
    <3>2. /\ t \in ThreadRow /\ t.status = thread.status /\ t.shown = thread.shown \union PageBefore(older)
          /\ t.nextBefore = NextBefore(older) /\ t.newestSeen = thread.newestSeen
          /\ t.lastMarked = thread.lastMarked
      BY <1>1, <3>1 DEF ThreadRow
    <3>3. thread' = t /\ older' = 0 /\ UNCHANGED <<posted, readTo, page, ownSend, marks, jumped>>
      BY <1>7, <2>2 DEF OlderArrives
    <3> HIDE DEF t
    <3>4. \A i \in 1 .. t.newestSeen : i \in t.shown \/ i < t.nextBefore \/ i \in jumped'
      BY <1>1, <1>2, <1>3, <1>7, <3>1, <3>2, <3>3 DEF OlderArrives
    <3> QED
      BY <1>1, <1>2, <3>2, <3>3, <3>4, ThreadMoves
  <2> QED
    BY <1>7, <2>1, <2>2 DEF OlderArrives
<1>8. CASE SentAnswered
  <2> DEFINE t == [thread EXCEPT !.shown = @ \union {ownSend}, !.newestSeen = AtLeast(@, ownSend)]
  <2>1. /\ t \in ThreadRow /\ t.status = thread.status /\ t.shown = thread.shown \union {ownSend}
        /\ t.nextBefore = thread.nextBefore /\ t.newestSeen = AtLeast(thread.newestSeen, ownSend)
        /\ t.lastMarked = thread.lastMarked
    <3> DEFINE n == AtLeast(thread.newestSeen, ownSend)
               shown == thread.shown \union {ownSend}
    <3>1. n \in 0 .. MaxPosted /\ shown \in SUBSET MessageNumbers
      BY <1>1, <1>3, <1>8 DEF AtLeast, SentAnswered
    <3>2. t = [thread EXCEPT !.shown = shown, !.newestSeen = n]
      OBVIOUS
    <3> HIDE DEF n, shown, t
    <3>3. /\ t \in ThreadRow /\ t.status = thread.status /\ t.shown = shown
          /\ t.nextBefore = thread.nextBefore /\ t.newestSeen = n
          /\ t.lastMarked = thread.lastMarked
      BY <1>1, <3>1, <3>2 DEF ThreadRow
    <3> QED
      BY <3>3 DEF n, shown
  <2>2. /\ thread' = t /\ ownSend' = 0 /\ UNCHANGED <<posted, readTo, page, older, marks>>
        /\ jumped' = jumped \union {i \in MessageNumbers : thread.newestSeen < i /\ i < ownSend}
    BY <1>8 DEF SentAnswered
  <2> HIDE DEF t
  <2>3. \A i \in 1 .. t.newestSeen : i \in t.shown \/ i < t.nextBefore \/ i \in jumped'
    BY <1>1, <1>2, <1>3, <2>1, <2>2 DEF AtLeast
  <2>4. jumped' \subseteq MessageNumbers
    BY <1>1, <2>2
  <2> QED
    BY <1>1, <1>2, <2>1, <2>2, <2>3, <2>4, ThreadMoves
<1>9. ASSUME NEW k \in marks, MarkEnds(k) PROVE ThreadInv'
  <2> DEFINE t == [thread EXCEPT !.lastMarked = Confirmed(k), !.markingUpTo = IF @ = k.upTo THEN 0 ELSE @]
  <2>1. k.answer \in 0 .. MaxPosted /\ k.answer <= readTo
    BY <1>1, <1>9 DEF ThreadInv, AnswersStand
  <2>2. Confirmed(k) \in 0 .. MaxPosted /\ Confirmed(k) <= readTo
    BY <1>1, <1>2, <1>3, <2>1 DEF Confirmed, AtLeast
  <2>3. /\ t \in ThreadRow /\ t.status = thread.status /\ t.shown = thread.shown
        /\ t.nextBefore = thread.nextBefore /\ t.newestSeen = thread.newestSeen
        /\ t.lastMarked = Confirmed(k)
    <3> DEFINE c == Confirmed(k)
               n == IF thread.markingUpTo = k.upTo THEN 0 ELSE thread.markingUpTo
    <3>1. c \in 0 .. MaxPosted /\ n \in 0 .. MaxPosted
      BY <1>1, <2>2 DEF ThreadRow
    <3>2. t = [thread EXCEPT !.lastMarked = c, !.markingUpTo = n]
      OBVIOUS
    <3> HIDE DEF c, n, t
    <3>3. /\ t \in ThreadRow /\ t.status = thread.status /\ t.shown = thread.shown
          /\ t.nextBefore = thread.nextBefore /\ t.newestSeen = thread.newestSeen
          /\ t.lastMarked = c
      BY <1>1, <3>1, <3>2 DEF ThreadRow
    <3> QED
      BY <3>3 DEF c
  <2>4. thread' = t /\ marks' = marks \ {k} /\ UNCHANGED <<posted, readTo, page, older, ownSend, jumped>>
    BY <1>9 DEF MarkEnds
  <2> HIDE DEF t
  <2> QED
    BY <1>1, <1>2, <2>2, <2>3, <2>4, ThreadMoves
<1> QED
  BY <1>4, <1>5, <1>6, <1>7, <1>8, <1>9

(* The conversation: the inductive invariant.                              *)

ChannelRow == [last : 0 .. MaxSequence, count : 0 .. MaxSequence, closed : BOOLEAN]
RequestRow == [step : {"idle", "sent", "allowed", "answered", "refused", "error"},
               key : 0 .. MaxKeys, seen : 0 .. MaxSequence]
ComposerRow == [key : 0 .. MaxKeys, used : 0 .. MaxKeys, awaits : Requests \union {NoRequest}]

\* What travels is a message its user composed.
InFlight == \A r \in Requests : requests[r].step # "idle" => requests[r].key \in 1 .. KeyLimit[SideOf[r]]

\* The counters are the messages, and no message is numbered beyond them.
MessagesCounted ==
  /\ IsFiniteSet(messages)
  /\ conversation.last = Cardinality(messages) /\ conversation.count = conversation.last
MessagesNumbered ==
  \A m \in messages : m.sequence <= conversation.last /\ m.key \in 1 .. KeyLimit[m.sender]

ChatInv ==
  /\ ChatTypeOK /\ InFlight /\ MessagesCounted /\ MessagesNumbered
  /\ QueuedNotFailed /\ OneMessagePerKey /\ ChargedOncePerMessage /\ ClosedByDecision

\* There is room for the messages the users may compose.
Composable == {p \in ChatSides \X (1 .. MaxKeys) : p[2] <= KeyLimit[p[1]]}

LEMMA ComposableCounted ==
  IsFiniteSet(Composable) /\ MaxSequence \in Nat /\ MaxSequence = Cardinality(Composable)
<1>1. IsFiniteSet(ChatSides) /\ IsFiniteSet(1 .. MaxKeys)
  <2>1. \A n \in Int : IsFiniteSet(1 .. n)
    BY FS_Interval
  <2>2. MaxKeys \in Int
    BY DEF MaxKeys
  <2> QED
    BY <2>1, <2>2, ChatAssumption
<1>2. IsFiniteSet(ChatSides \X (1 .. MaxKeys))
  BY <1>1, FS_Product
<1>3. IsFiniteSet(Composable)
  BY <1>2, FS_Subset DEF Composable
<1>4. MaxSequence = Cardinality(Composable)
  BY DEF MaxSequence, Composable
<1> QED
  BY <1>3, <1>4, FS_CardinalityType

LEMMA ChatTypes ==
  ASSUME ChatInv
  PROVE  /\ conversation \in ChannelRow /\ messages \subseteq ChatMessage /\ MaxSequence \in Nat
         /\ sentCount \in [ChatSides -> Nat] /\ charged \in [ChatSides -> Nat]
         /\ requests \in [Requests -> RequestRow] /\ composer \in [ChatSides -> ComposerRow]
         /\ \A r \in Requests : SideOf[r] \in ChatSides
         /\ \A u \in ChatSides : KeyLimit[u] \in 1 .. 2 /\ 1 .. KeyLimit[u] \subseteq 1 .. MaxKeys
         /\ MaxMinutes \in Nat
<1>1. /\ conversation \in ChannelRow /\ messages \subseteq ChatMessage
      /\ sentCount \in [ChatSides -> Nat] /\ charged \in [ChatSides -> Nat]
      /\ requests \in [Requests -> RequestRow] /\ composer \in [ChatSides -> ComposerRow]
  BY DEF ChatInv, ChatTypeOK, ChannelRow, RequestRow, ComposerRow
<1>2. /\ \A r \in Requests : SideOf[r] \in ChatSides
      /\ \A u \in ChatSides : KeyLimit[u] \in 1 .. 2
      /\ MaxMinutes \in Nat
  BY ChatAssumption
<1>3. \A u \in ChatSides : 1 .. KeyLimit[u] \subseteq 1 .. MaxKeys
  BY <1>2 DEF MaxKeys
<1> QED
  BY <1>1, <1>2, <1>3, ComposableCounted

\* A message that is not there yet still fits.
LEMMA SpaceLeft ==
  ASSUME ChatInv, NEW u \in ChatSides, NEW k \in 1 .. KeyLimit[u], MessageOf(u, k) = {}
  PROVE  conversation.last + 1 \in 0 .. MaxSequence
<1>1. /\ IsFiniteSet(messages) /\ conversation.last = Cardinality(messages) /\ messages \subseteq ChatMessage
      /\ MaxSequence \in Nat /\ conversation.last \in 0 .. MaxSequence
      /\ \A m \in messages : m.key \in 1 .. KeyLimit[m.sender]
      /\ \A m, n \in messages : m.sender = n.sender /\ m.key = n.key => m = n
  BY ChatTypes DEF ChatInv, MessagesCounted, MessagesNumbered, OneMessagePerKey, ChannelRow
<1> DEFINE T == Composable \ {<<u, k>>}
           f == [m \in messages |-> <<m.sender, m.key>>]
<1>2. <<u, k>> \in Composable
  BY ChatTypes DEF Composable
<1>3. IsFiniteSet(T) /\ Cardinality(T) = MaxSequence - 1
  BY <1>2, ComposableCounted, FS_RemoveElement
<1>4. ASSUME NEW m \in messages PROVE <<m.sender, m.key>> \in T
  <2>1. m.sender \in ChatSides /\ m.key \in 1 .. MaxKeys /\ m.key <= KeyLimit[m.sender]
    BY <1>1, ChatTypes DEF ChatMessage
  <2>2. <<m.sender, m.key>> \in Composable
    BY <2>1 DEF Composable
  <2>3. <<m.sender, m.key>> # <<u, k>>
    BY DEF MessageOf
  <2> QED
    BY <2>2, <2>3
<1> HIDE DEF T
<1>5. f \in [messages -> T] /\ \A m, n \in messages : f[m] = f[n] => m = n
  BY <1>1, <1>4
<1> HIDE DEF f
<1>6. f \in Injection(messages, T)
  BY <1>5, Fun_IsInj
<1>7. Cardinality(messages) <= Cardinality(T)
  BY <1>3, <1>6, FS_Injection
<1> QED
  BY <1>1, <1>3, <1>7

\* A send moves on, or the composer does: what is stored stays.
LEMMA RequestMoves ==
  ASSUME ChatInv, requests' \in [Requests -> RequestRow], composer' \in [ChatSides -> ComposerRow],
         \A r \in Requests : requests'[r].step # "idle" => requests'[r].key \in 1 .. KeyLimit[SideOf[r]],
         UNCHANGED <<conversation, messages, blocks, sentCount, charged, minute, report, failed>>
  PROVE  ChatInv'
<1>1. ChatTypeOK'
  BY DEF ChatInv, ChatTypeOK, RequestRow, ComposerRow
<1>2. InFlight'
  BY DEF InFlight
<1>3. MessagesCounted' /\ MessagesNumbered' /\ QueuedNotFailed' /\ OneMessagePerKey' /\ ClosedByDecision'
  BY DEF ChatInv, MessagesCounted, MessagesNumbered, QueuedNotFailed, OneMessagePerKey, ClosedByDecision, MessageOf
<1>4. ChargedOncePerMessage'
  BY DEF ChatInv, ChargedOncePerMessage
<1> QED
  BY <1>1, <1>2, <1>3, <1>4 DEF ChatInv

\* The composer, and the reads before the lock.
LEMMA ComposerSteps ==
  ASSUME ChatInv,
         \/ \E r \in Requests : Submit(r) \/ Abandon(r) \/ TakeReply(r) \/ SendEvaluates(r)
         \/ \E u \in Clients : EditDraft(u)
  PROVE  ChatInv'
<1>1. /\ requests \in [Requests -> RequestRow] /\ composer \in [ChatSides -> ComposerRow]
      /\ MaxSequence \in Nat /\ conversation \in ChannelRow
      /\ \A r \in Requests : SideOf[r] \in ChatSides
      /\ \A u \in ChatSides : KeyLimit[u] \in 1 .. 2 /\ 1 .. KeyLimit[u] \subseteq 1 .. MaxKeys
  BY ChatTypes
<1>2. \A r \in Requests : requests[r].step # "idle" => requests[r].key \in 1 .. KeyLimit[SideOf[r]]
  BY DEF ChatInv, InFlight
<1>3. ASSUME NEW r \in Requests, NEW row \in RequestRow, requests' = [requests EXCEPT ![r] = row],
             row.step # "idle" => row.key \in 1 .. KeyLimit[SideOf[r]],
             composer' \in [ChatSides -> ComposerRow],
             UNCHANGED <<conversation, messages, blocks, sentCount, charged, minute, report, failed>>
      PROVE  ChatInv'
  BY <1>1, <1>2, <1>3, RequestMoves
<1>4. IdleRequest \in RequestRow /\ IdleRequest.step = "idle"
  BY <1>1 DEF IdleRequest, RequestRow, MaxKeys
<1>5. ASSUME NEW r \in Requests, Submit(r) PROVE ChatInv'
  <2> DEFINE u == SideOf[r]
             k == IF composer[u].key # 0 THEN composer[u].key ELSE composer[u].used + 1
             used == IF k > composer[u].used THEN k ELSE composer[u].used
             row == [step |-> "sent", key |-> k, seen |-> 0]
             draft == [key |-> k, used |-> used, awaits |-> r]
  <2>1. u \in ChatSides /\ k \in 1 .. KeyLimit[u] /\ used \in 0 .. MaxKeys /\ k \in 0 .. MaxKeys
    BY <1>1, <1>5 DEF Submit, ComposerRow, MaxKeys
  <2>2. /\ composer' = [composer EXCEPT ![u] = draft] /\ requests' = [requests EXCEPT ![r] = row]
        /\ UNCHANGED <<conversation, messages, blocks, sentCount, charged, minute, report, failed>>
    BY <1>5 DEF Submit
  <2>3. row \in RequestRow /\ row.step = "sent" /\ row.key = k
    BY <1>1, <2>1 DEF RequestRow
  <2>4. draft \in ComposerRow
    BY <2>1 DEF ComposerRow
  <2> HIDE DEF k, row, draft
  <2> QED
    BY <1>1, <1>3, <2>1, <2>2, <2>3, <2>4
<1>6. ASSUME NEW r \in Requests, Abandon(r) PROVE ChatInv'
  <2> DEFINE draft == [composer[SideOf[r]] EXCEPT !.awaits = NoRequest]
  <2>1. draft \in ComposerRow /\ SideOf[r] \in ChatSides
    BY <1>1 DEF ComposerRow
  <2>2. composer' = [composer EXCEPT ![SideOf[r]] = draft]
    BY <1>6 DEF Abandon
  <2> HIDE DEF draft
  <2> QED
    BY <1>1, <1>2, <1>6, <2>1, <2>2, RequestMoves DEF Abandon
<1>7. ASSUME NEW r \in Requests, TakeReply(r) PROVE ChatInv'
  <2> DEFINE u == SideOf[r]
             draft == [key |-> IF requests[r].step = "error" THEN composer[u].key ELSE 0,
                       used |-> composer[u].used, awaits |-> NoRequest]
  <2>1. draft \in ComposerRow /\ u \in ChatSides
    BY <1>1 DEF ComposerRow, MaxKeys
  <2>2. composer' = composer \/ composer' = [composer EXCEPT ![u] = draft]
    BY <1>7 DEF TakeReply
  <2> HIDE DEF draft
  <2>3. composer' \in [ChatSides -> ComposerRow]
    BY <1>1, <2>1, <2>2
  <2> QED
    BY <1>3, <1>4, <1>7, <2>3 DEF TakeReply
<1>8. ASSUME NEW r \in Requests, SendEvaluates(r) PROVE ChatInv'
  <2> DEFINE allowed == [step |-> "allowed", key |-> requests[r].key, seen |-> conversation.last]
             ended(how) == [requests[r] EXCEPT !.step = how]
  <2>1. /\ requests[r].step = "sent" /\ UNCHANGED <<conversation, messages, blocks, sentCount, charged, minute,
                                                    report, composer, failed>>
        /\ \/ requests' = [requests EXCEPT ![r] = allowed]
           \/ requests' = [requests EXCEPT ![r] = ended("refused")]
           \/ requests' = [requests EXCEPT ![r] = ended("answered")]
    BY <1>8 DEF SendEvaluates, Replied
  <2>2. allowed \in RequestRow /\ allowed.key = requests[r].key
    BY <1>1 DEF RequestRow, ChannelRow
  <2>3. \A how \in {"refused", "answered"} : ended(how) \in RequestRow /\ ended(how).key = requests[r].key
    BY <1>1 DEF RequestRow
  <2>4. requests[r].key \in 1 .. KeyLimit[SideOf[r]]
    BY <1>2, <2>1
  <2> HIDE DEF allowed, ended
  <2> QED
    BY <1>1, <1>3, <2>1, <2>2, <2>3, <2>4
<1>9. ASSUME NEW u \in Clients, EditDraft(u) PROVE ChatInv'
  <2> DEFINE draft == [composer[u] EXCEPT !.key = 0]
  <2>1. u \in ChatSides
    BY ChatAssumption
  <2>2. draft \in ComposerRow
    BY <1>1, <2>1 DEF ComposerRow, MaxKeys
  <2>3. composer' = [composer EXCEPT ![u] = draft]
    BY <1>9 DEF EditDraft
  <2> HIDE DEF draft
  <2> QED
    BY <1>1, <1>2, <1>9, <2>1, <2>2, <2>3, RequestMoves DEF EditDraft
<1> QED
  BY <1>5, <1>6, <1>7, <1>8, <1>9

\* Blocks, reports and the clock.
LEMMA ModerationSteps ==
  ASSUME ChatInv,
         \/ \E u \in Clients : \/ FileReport(u) \/ \E on \in BOOLEAN : SetBlock(u, on)
                               \/ \E outcome \in {"rejected", "closed"} : Decide(u, outcome)
         \/ NextMinute
  PROVE  ChatInv'
<1>1. /\ conversation \in ChannelRow /\ MaxMinutes \in Nat /\ Clients \subseteq ChatSides
      /\ sentCount \in [ChatSides -> Nat] /\ charged \in [ChatSides -> Nat]
      /\ report \in [ChatSides -> {"none", "open", "rejected", "closed"}]
      /\ blocks \subseteq ChatSides /\ minute \in 0 .. MaxMinutes
  BY ChatTypes, ChatAssumption DEF ChatInv, ChatTypeOK
<1>2. UNCHANGED <<messages, charged, requests, composer, failed>>
  BY DEF FileReport, SetBlock, Decide, NextMinute
<1>3. /\ conversation' \in ChannelRow /\ conversation'.last = conversation.last
      /\ conversation'.count = conversation.count
      /\ report' \in [ChatSides -> {"none", "open", "rejected", "closed"}]
      /\ sentCount' \in [ChatSides -> Nat] /\ blocks' \subseteq ChatSides /\ minute' \in 0 .. MaxMinutes
      /\ ClosedByDecision'
  <2>0. ClosedByDecision
    BY DEF ChatInv
  <2>1. ASSUME NEW u \in Clients, FileReport(u)
        PROVE  /\ UNCHANGED <<conversation, blocks, sentCount, minute>>
               /\ report' \in [ChatSides -> {"none", "open", "rejected", "closed"}] /\ ClosedByDecision'
    BY <1>1, <2>0, <2>1 DEF FileReport, ClosedByDecision
  <2>2. ASSUME NEW u \in Clients, NEW on \in BOOLEAN, SetBlock(u, on)
        PROVE  /\ UNCHANGED <<conversation, report, sentCount, minute>> /\ blocks' \subseteq ChatSides
               /\ ClosedByDecision'
    BY <1>1, <2>0, <2>2 DEF SetBlock, ClosedByDecision
  <2>3. CASE NextMinute
    <3>1. /\ UNCHANGED <<conversation, report, blocks>>
          /\ minute < MaxMinutes /\ minute' = minute + 1 /\ sentCount' = [u \in ChatSides |-> 0]
      BY <2>3 DEF NextMinute
    <3>2. ClosedByDecision'
      BY <2>0, <3>1 DEF ClosedByDecision
    <3>3. minute' \in 0 .. MaxMinutes /\ sentCount' \in [ChatSides -> Nat]
      BY <1>1, <3>1
    <3> QED
      BY <1>1, <3>1, <3>2, <3>3
  <2>4. ASSUME NEW u \in Clients, NEW outcome \in {"rejected", "closed"}, Decide(u, outcome)
        PROVE  /\ UNCHANGED <<blocks, sentCount, minute>>
               /\ conversation' \in ChannelRow /\ conversation'.last = conversation.last
               /\ conversation'.count = conversation.count
               /\ report' \in [ChatSides -> {"none", "open", "rejected", "closed"}] /\ ClosedByDecision'
    <3>1. /\ UNCHANGED <<blocks, sentCount, minute>> /\ report[u] = "open" /\ u \in ChatSides
          /\ report' = [report EXCEPT ![u] = outcome]
          /\ conversation' = IF outcome = "closed" THEN [conversation EXCEPT !.closed = TRUE] ELSE conversation
      BY <1>1, <2>4 DEF Decide, Decidable
    <3>2. /\ conversation' \in ChannelRow /\ conversation'.last = conversation.last
          /\ conversation'.count = conversation.count
          /\ outcome = "closed" => conversation'.closed = TRUE
          /\ outcome # "closed" => conversation'.closed = conversation.closed
      BY <1>1, <3>1 DEF ChannelRow
    <3>3. ClosedByDecision'
      BY <1>1, <2>0, <3>1, <3>2 DEF ClosedByDecision
    <3> QED
      BY <1>1, <3>1, <3>2, <3>3
  <2> QED
    BY <1>1, <2>1, <2>2, <2>3, <2>4
<1>4. ChatTypeOK'
  BY <1>2, <1>3 DEF ChatInv, ChatTypeOK, ChannelRow
<1>5. /\ InFlight' /\ MessagesCounted' /\ MessagesNumbered' /\ QueuedNotFailed' /\ OneMessagePerKey'
  BY <1>2, <1>3 DEF ChatInv, InFlight, MessagesCounted, MessagesNumbered, QueuedNotFailed, OneMessagePerKey, MessageOf
<1>6. ChargedOncePerMessage'
  BY <1>2 DEF ChatInv, ChargedOncePerMessage
<1> QED
  BY <1>3, <1>4, <1>5, <1>6 DEF ChatInv

\* From the lock to the commit: the number is new, and the charge is the message's own.
LEMMA SendSteps ==
  ASSUME ChatInv, NEW r \in Requests, SendCommits(r)
  PROVE  ChatInv'
<1> DEFINE u == SideOf[r]
           k == requests[r].key
           n == NextSequence(r)
           ended(how) == [requests[r] EXCEPT !.step = how]
<1>1. /\ requests \in [Requests -> RequestRow] /\ conversation \in ChannelRow
      /\ messages \subseteq ChatMessage /\ MaxSequence \in Nat
      /\ sentCount \in [ChatSides -> Nat] /\ charged \in [ChatSides -> Nat]
      /\ u \in ChatSides /\ 1 .. KeyLimit[u] \subseteq 1 .. MaxKeys
      /\ failed \subseteq (ChatSides \X (1 .. MaxKeys))
      /\ conversation.last \in 0 .. MaxSequence /\ conversation.closed \in BOOLEAN
  <2>1. failed \subseteq (ChatSides \X (1 .. MaxKeys))
    BY DEF ChatInv, ChatTypeOK
  <2>2. conversation.last \in 0 .. MaxSequence /\ conversation.closed \in BOOLEAN
    BY ChatTypes, Zenon DEF ChannelRow
  <2> QED
    BY <2>1, <2>2, ChatTypes
<1>2. /\ requests[r].step = "allowed" /\ k \in 1 .. KeyLimit[u] /\ n = conversation.last + 1
      /\ UNCHANGED <<blocks, minute, report, composer>>
  BY DEF SendCommits, ChatInv, InFlight, NextSequence
<1>3. /\ IsFiniteSet(messages) /\ conversation.last = Cardinality(messages)
      /\ conversation.count = conversation.last
      /\ \A m \in messages : m.sequence <= conversation.last /\ m.key \in 1 .. KeyLimit[m.sender]
  BY DEF ChatInv, MessagesCounted, MessagesNumbered
<1>4. SequenceFree(n)
  <2>1. \A m \in messages : m.sequence \in Int
    BY <1>1 DEF ChatMessage
  <2> QED
    BY <1>1, <1>2, <1>3, <2>1 DEF SequenceFree
<1>5. \A how \in {"refused", "answered", "error"} : ended(how) \in RequestRow /\ ended(how).key = k
  BY <1>1 DEF RequestRow
<1>6. ASSUME NEW how \in {"refused", "answered", "error"}, Replied(r, how)
      PROVE  requests' \in [Requests -> RequestRow] /\ InFlight'
  <2>1. requests' = [requests EXCEPT ![r] = ended(how)]
    BY <1>6 DEF Replied
  <2> HIDE DEF ended
  <2>2. requests' \in [Requests -> RequestRow]
    BY <1>1, <1>5, <2>1
  <2>3. InFlight'
    BY <1>1, <1>2, <1>5, <2>1 DEF ChatInv, InFlight
  <2> QED
    BY <2>2, <2>3
<1> HIDE DEF n, k, u, ended
<1>7. CASE ~Charges(u) /\ Replied(r, "refused") /\ UNCHANGED <<conversation, messages, sentCount, charged, failed>>
  <2>1. composer' \in [ChatSides -> ComposerRow]
    BY <1>2, ChatTypes
  <2> QED
    BY <1>2, <1>6, <1>7, <2>1, RequestMoves DEF InFlight
<1>8. CASE /\ Charges(u) /\ ~(KeyFree(u, k) /\ SequenceFree(n))
           /\ Replied(r, "error") /\ failed' = failed \union {<<u, k>>}
           /\ sentCount' = RolledBack(sentCount, u) /\ charged' = RolledBack(charged, u)
           /\ UNCHANGED <<conversation, messages>>
  <2>1. MessageOf(u, k) # {}
    BY <1>4, <1>8 DEF KeyFree
  <2>2. UNCHANGED <<sentCount, charged>>
    BY <1>8 DEF RolledBack
  <2>3. requests' \in [Requests -> RequestRow] /\ InFlight'
    BY <1>6, <1>8
  <2>4. failed' \subseteq (ChatSides \X (1 .. MaxKeys))
    BY <1>1, <1>2, <1>8
  <2>5. ChatTypeOK'
    BY <1>2, <1>8, <2>2, <2>3, <2>4 DEF ChatInv, ChatTypeOK, RequestRow
  <2>6. QueuedNotFailed'
    <3>1. \A f \in failed : MessageOf(f[1], f[2]) # {}
      BY DEF ChatInv, QueuedNotFailed
    <3> QED
      BY <1>8, <2>1, <3>1 DEF QueuedNotFailed, MessageOf
  <2>7. /\ MessagesCounted' /\ MessagesNumbered' /\ OneMessagePerKey' /\ ClosedByDecision'
    BY <1>2, <1>8 DEF ChatInv, MessagesCounted, MessagesNumbered, OneMessagePerKey, ClosedByDecision
  <2>8. ChargedOncePerMessage'
    BY <1>8, <2>2 DEF ChatInv, ChargedOncePerMessage
  <2> QED
    BY <2>3, <2>5, <2>6, <2>7, <2>8 DEF ChatInv
<1>9. CASE /\ Charges(u) /\ KeyFree(u, k) /\ SequenceFree(n)
           /\ messages' = messages \union {[sequence |-> n, sender |-> u, key |-> k]}
           /\ conversation' = [last |-> n, count |-> conversation.count + 1, closed |-> conversation.closed]
           /\ sentCount' = PlusOne(sentCount, u) /\ charged' = PlusOne(charged, u)
           /\ Replied(r, "answered") /\ UNCHANGED failed
  <2> DEFINE msg == [sequence |-> n, sender |-> u, key |-> k]
  <2>1. MessageOf(u, k) = {} /\ n \in 1 .. MaxSequence
    <3>1. MessageOf(u, k) = {}
      BY <1>9 DEF KeyFree
    <3>2. conversation.last + 1 \in 0 .. MaxSequence
      BY <1>1, <1>2, <3>1, SpaceLeft
    <3> QED
      BY <1>1, <1>2, <3>1, <3>2
  <2>2. msg \in ChatMessage /\ msg.sequence = n /\ msg.sender = u /\ msg.key = k
    BY <1>1, <1>2, <2>1 DEF ChatMessage
  <2>3. /\ conversation' \in ChannelRow /\ conversation'.last = n /\ conversation'.count = n
        /\ conversation'.closed = conversation.closed
    BY <1>1, <1>2, <1>3, <1>9, <2>1 DEF ChannelRow
  <2>4. messages' = messages \union {msg}
    BY <1>9
  <2> HIDE DEF msg
  <2>5. msg \notin messages
    BY <2>1, <2>2 DEF MessageOf
  <2>6. requests' \in [Requests -> RequestRow] /\ InFlight'
    BY <1>6, <1>9
  <2>7. /\ sentCount' = [sentCount EXCEPT ![u] = sentCount[u] + 1]
        /\ charged' = [charged EXCEPT ![u] = charged[u] + 1]
    BY <1>1, <1>9 DEF PlusOne
  <2>8. sentCount' \in [ChatSides -> Nat] /\ charged' \in [ChatSides -> Nat]
    BY <1>1, <2>7
  <2>9. ChatTypeOK'
    BY <1>1, <1>2, <1>9, <2>2, <2>3, <2>4, <2>6, <2>8 DEF ChatInv, ChatTypeOK, ChannelRow, RequestRow
  <2>10. MessagesCounted'
    BY <1>1, <1>2, <1>3, <2>3, <2>4, <2>5, FS_AddElement DEF MessagesCounted
  <2>11. MessagesNumbered'
    <3>1. \A m \in messages : m.sequence \in Int
      BY <1>1 DEF ChatMessage
    <3> QED
      BY <1>1, <1>2, <1>3, <2>2, <2>3, <2>4, <3>1 DEF MessagesNumbered
  <2>12. QueuedNotFailed'
    BY <1>9 DEF ChatInv, QueuedNotFailed, MessageOf
  <2>13. OneMessagePerKey'
    BY <2>1, <2>2, <2>4 DEF ChatInv, OneMessagePerKey, MessageOf
  <2>14. ChargedOncePerMessage'
    <3> SUFFICES ASSUME NEW v \in ChatSides
                 PROVE  charged'[v] = Cardinality({m \in messages' : m.sender = v})
      BY DEF ChargedOncePerMessage
    <3> DEFINE S == {m \in messages : m.sender = v}
               T == {m \in messages' : m.sender = v}
    <3>1. charged[v] = Cardinality(S) /\ charged[v] \in Nat
      BY <1>1 DEF ChatInv, ChargedOncePerMessage
    <3>2. IsFiniteSet(S)
      BY <1>3, FS_Subset
    <3>3. v = u => T = S \union {msg} /\ msg \notin S
      BY <2>2, <2>4, <2>5
    <3>4. v # u => T = S
      BY <2>2, <2>4
    <3> HIDE DEF S, T
    <3>5. Cardinality(S \union {msg}) = IF msg \in S THEN Cardinality(S) ELSE Cardinality(S) + 1
      BY <3>2, FS_AddElement
    <3>6. charged'[v] = IF v = u THEN charged[v] + 1 ELSE charged[v]
      BY <1>1, <2>7
    <3>7. charged'[v] = Cardinality(T)
      BY <3>1, <3>3, <3>4, <3>5, <3>6
    <3> QED
      BY <3>7 DEF T
  <2>15. ClosedByDecision'
    BY <1>2, <2>3 DEF ChatInv, ClosedByDecision
  <2> QED
    BY <2>6, <2>9, <2>10, <2>11, <2>12, <2>13, <2>14, <2>15 DEF ChatInv
<1> QED
  BY <1>7, <1>8, <1>9 DEF SendCommits, n, k, u

LEMMA ChatBegins == ChatInit => ChatInv
<1> SUFFICES ASSUME ChatInit PROVE ChatInv
  OBVIOUS
<1>1. MaxSequence \in Nat /\ MaxMinutes \in Nat
  BY ComposableCounted, ChatAssumption
<1>2. ChatTypeOK
  BY <1>1 DEF ChatInit, ChatTypeOK, NewConversation, IdleRequest, MaxKeys
<1>3. InFlight /\ MessagesNumbered /\ QueuedNotFailed /\ OneMessagePerKey /\ ClosedByDecision
  BY DEF ChatInit, InFlight, MessagesNumbered, QueuedNotFailed, OneMessagePerKey, ClosedByDecision, IdleRequest, NewConversation
<1>4. MessagesCounted
  BY FS_EmptySet DEF ChatInit, MessagesCounted, NewConversation
<1>5. ChargedOncePerMessage
  <2>1. \A u \in ChatSides : {m \in messages : m.sender = u} = {} /\ charged[u] = 0
    BY DEF ChatInit
  <2> QED
    BY <2>1, FS_EmptySet DEF ChargedOncePerMessage
<1> QED
  BY <1>2, <1>3, <1>4, <1>5 DEF ChatInv

LEMMA ThreadBegins == ThreadInit => ThreadInv
<1> SUFFICES ASSUME ThreadInit PROVE ThreadInv
  OBVIOUS
<1>1. ThreadTypeOK
  BY ThreadAssumption DEF ThreadInit, ThreadTypeOK, NewThread, NoPage, MessageNumbers
<1>2. LoadsFirst /\ ServedIsPosted /\ OlderFollows /\ MarkedIsConfirmed /\ SeenIsShown /\ AnswersStand
  BY DEF ThreadInit, NewThread, NoPage, LoadsFirst, ServedIsPosted, OlderFollows, MarkedIsConfirmed, SeenIsShown,
         AnswersStand
<1> QED
  BY <1>1, <1>2 DEF ThreadInv

\* Both ends of a conversation agree (ConversationConsistent), for any number of sends,
\* retries and pages in flight: each composed message is stored and charged once, a
\* conversation closes by a decision alone, and what a thread has marked read it has
\* shown and the server has confirmed.
THEOREM ConversationAgrees == PlatformSpec => []ConversationConsistent
<1>1. Init => ChatInv /\ ThreadInv
  BY ChatBegins, ThreadBegins DEF Init
<1>2. ChatInv /\ [ChatNext]_chatVars => ChatInv'
  <2>1. ASSUME ChatInv, UNCHANGED chatVars PROVE ChatInv'
    <3>1. requests' \in [Requests -> RequestRow] /\ composer' \in [ChatSides -> ComposerRow]
      BY <2>1, ChatTypes DEF chatVars
    <3>2. \A r \in Requests : requests'[r].step # "idle" => requests'[r].key \in 1 .. KeyLimit[SideOf[r]]
      BY <2>1 DEF ChatInv, InFlight, chatVars
    <3> QED
      BY <2>1, <3>1, <3>2, RequestMoves DEF chatVars
  <2> QED
    BY <2>1, ComposerSteps, ModerationSteps, SendSteps DEF ChatNext
<1>3. ThreadInv /\ [ThreadNext]_threadVars => ThreadInv'
  <2>1. ASSUME ThreadInv, UNCHANGED threadVars PROVE ThreadInv'
    BY <2>1 DEF ThreadInv, ThreadTypeOK, LoadsFirst, ServedIsPosted, OlderFollows, MarkedIsConfirmed, SeenIsShown,
                AnswersStand, threadVars
  <2> QED
    BY <2>1, ServerSteps, OlderAskSteps, ThreadTurns DEF ThreadNext
<1>4. ChatInv /\ ThreadInv /\ [Next]_vars => (ChatInv /\ ThreadInv)'
  <2>1. [Next]_vars => [ChatNext]_chatVars /\ [ThreadNext]_threadVars
    BY DEF Next, vars
  <2> QED
    BY <1>2, <1>3, <2>1
<1>5. ChatInv /\ ThreadInv => ConversationConsistent
  BY DEF ChatInv, ThreadInv, ConversationConsistent
<1> QED
  BY <1>1, <1>4, <1>5, PTL DEF PlatformSpec

(* Ratings: the inductive invariant.                                       *)

ReviewRow == [status : {"none", "published", "hidden"}, triaged : BOOLEAN]
ReviewEvent == [booking : ReviewedBookings, n : 1 .. MaxModerations + 1, delta : {"add", "take"}]
ModeratingRow == [booking : ReviewedBookings \union {"none"}, from : {"none", "published", "hidden"},
                  to : {"none", "published", "hidden"}]

Published == {b \in ReviewedBookings : reviews[b].status = "published"}
OfDelta(E, d) == {e \in E : e.delta = d}

\* The events of a review are numbered as they were emitted, the first by its creation.
EventsNumbered ==
  /\ IsFiniteSet(reviewEvents)
  /\ \A b \in ReviewedBookings :
       /\ reviews[b].status = "none" => EventsOf(b) = {} /\ ~reviews[b].triaged
       /\ \A e \in EventsOf(b) : e.n <= Cardinality(EventsOf(b))

\* A decision is about a review that exists.
DecidesReviews ==
  \A m \in ReviewModerators : moderating[m] # NotModerating =>
    /\ moderating[m].booking \in ReviewedBookings
    /\ moderating[m].from \in {"published", "hidden"} /\ moderating[m].to \in {"published", "hidden"}

\* The events tell what is published, and the counter what was applied.
EventsTell ==
  Cardinality(OfDelta(reviewEvents, "add")) = Cardinality(OfDelta(reviewEvents, "take")) + Cardinality(Published)
CounterTells ==
  ~clamped => Cardinality(OfDelta(applied, "add")) = Cardinality(OfDelta(applied, "take")) + reviewCount

RatingsInv ==
  /\ ReviewsTypeOK /\ EventsNumbered /\ DecidesReviews /\ EventsTell /\ CounterTells

(* Search: the inductive invariant.                                        *)

\* Revisions: the source is ahead of its events, and the document of neither.
RevisionsOrdered ==
  /\ source.profile <= source.revision /\ source.media <= source.revision
  /\ document.profile <= document.revision /\ document.media <= document.revision
  /\ document.profile <= source.profile /\ document.media <= source.media
  /\ document.revision <= source.revision
  /\ \A e \in sent : IF e.kind = "profile" THEN e.revision <= source.profile ELSE e.revision <= source.media

PushersBusy == \A p \in Pushers : pushers[p].at # "idle" => pushers[p].job \in {"flush", "reindex"}

\* While pushes run one at a time and no change meets a rebuild: what a push has
\* read, written and switched to.
FlushStands(t) ==
  t.job = "flush" /\ t.at # "idle" =>
    /\ dirty
    /\ t.fresh => t.content = ContentOf(document)
    /\ t.at \in {"aliased", "filled"} => alias = t.target
    /\ t.at = "filled" => engine[t.target] = t.content
RebuildStands(t) ==
  t.job = "reindex" =>
    /\ t.at \in {"copied", "filled", "swapped", "recorded"} => t.content = ContentOf(document)
    /\ t.at \in {"filled", "swapped", "recorded"} => engine[t.target] = t.content
    /\ t.at \in {"swapped", "recorded"} => alias = t.target
InTurnIndexed ==
  ~flushesMet =>
    /\ \A p, q \in Pushing : p = q
    /\ ~dirty => engine[alias] = ContentOf(document)
    /\ \A p \in Pushers : FlushStands(pushers[p]) /\ RebuildStands(pushers[p])

SearchInv == SearchTypeOK /\ RevisionsOrdered /\ PushersBusy /\ InTurnIndexed

LEMMA RatingsTypes ==
  ASSUME RatingsInv
  PROVE  /\ reviewable \subseteq ReviewedBookings /\ reviews \in [ReviewedBookings -> ReviewRow]
         /\ reviewEvents \subseteq ReviewEvent /\ moderating \in [ReviewModerators -> ModeratingRow]
         /\ applied \subseteq reviewEvents /\ reviewCount \in Nat /\ clamped \in BOOLEAN
         /\ MaxModerations \in Nat /\ IsFiniteSet(reviewEvents) /\ IsFiniteSet(Published)
         /\ Cardinality(Published) \in Nat
<1>1. /\ reviewable \subseteq ReviewedBookings /\ reviews \in [ReviewedBookings -> ReviewRow]
      /\ reviewEvents \subseteq ReviewEvent /\ moderating \in [ReviewModerators -> ModeratingRow]
      /\ applied \subseteq reviewEvents /\ reviewCount \in Nat /\ clamped \in BOOLEAN
  BY DEF RatingsInv, ReviewsTypeOK, ReviewRow, ReviewEvent, ModeratingRow
<1>2. MaxModerations \in Nat /\ IsFiniteSet(reviewEvents)
  BY ReviewsAssumption DEF RatingsInv, EventsNumbered
<1>3. IsFiniteSet(Published) /\ Cardinality(Published) \in Nat
  BY ReviewsAssumption, FS_Subset, FS_CardinalityType DEF Published
<1> QED
  BY <1>1, <1>2, <1>3

\* The events of one kind among finitely many.
LEMMA DeltasCounted ==
  ASSUME NEW E, IsFiniteSet(E), NEW d
  PROVE  IsFiniteSet(OfDelta(E, d)) /\ Cardinality(OfDelta(E, d)) \in Nat
BY FS_Subset, FS_CardinalityType DEF OfDelta

\* One event more.
LEMMA DeltaAdded ==
  ASSUME NEW E, IsFiniteSet(E), NEW e, e \notin E, NEW d
  PROVE  Cardinality(OfDelta(E \union {e}, d)) =
           IF e.delta = d THEN Cardinality(OfDelta(E, d)) + 1 ELSE Cardinality(OfDelta(E, d))
<1>1. IsFiniteSet(OfDelta(E, d)) /\ Cardinality(OfDelta(E, d)) \in Nat
  BY DeltasCounted
<1>2. CASE e.delta = d
  <2>1. OfDelta(E \union {e}, d) = OfDelta(E, d) \union {e} /\ e \notin OfDelta(E, d)
    BY <1>2 DEF OfDelta
  <2> QED
    BY <1>1, <1>2, <2>1, FS_AddElement
<1>3. CASE e.delta # d
  <2>1. OfDelta(E \union {e}, d) = OfDelta(E, d)
    BY <1>3 DEF OfDelta
  <2> QED
    BY <1>3, <2>1
<1> QED
  BY <1>2, <1>3

\* The next event of a review is a new one.
LEMMA EmittedIsNew ==
  ASSUME RatingsInv, NEW b \in ReviewedBookings, NEW d \in {"add", "take"},
         Cardinality(EventsOf(b)) <= MaxModerations
  PROVE  \E e \in ReviewEvent :
           /\ Emitted(b, d) = reviewEvents \union {e} /\ e \notin reviewEvents
           /\ e.booking = b /\ e.delta = d /\ e.n = Cardinality(EventsOf(b)) + 1
           /\ Cardinality(EventsOf(b)) \in Nat /\ IsFiniteSet(EventsOf(b))
<1>1. /\ IsFiniteSet(EventsOf(b)) /\ Cardinality(EventsOf(b)) \in Nat
      /\ \A e \in EventsOf(b) : e.n <= Cardinality(EventsOf(b)) /\ e.n \in Int
  BY RatingsTypes, FS_Subset, FS_CardinalityType DEF EventsOf, RatingsInv, EventsNumbered, ReviewEvent
<1> DEFINE e == [booking |-> b, n |-> Cardinality(EventsOf(b)) + 1, delta |-> d]
<1>2. e \in ReviewEvent /\ e.booking = b /\ e.delta = d /\ e.n = Cardinality(EventsOf(b)) + 1
  BY <1>1, RatingsTypes DEF ReviewEvent
<1>3. Emitted(b, d) = reviewEvents \union {e}
  BY DEF Emitted
<1> HIDE DEF e
<1>4. e \notin reviewEvents
  <2>1. e \in reviewEvents => e \in EventsOf(b)
    BY <1>2 DEF EventsOf
  <2> QED
    BY <1>1, <1>2, <2>1
<1> QED
  BY <1>1, <1>2, <1>3, <1>4

\* A review becomes or stays visible or hidden, with the event that says so.
LEMMA ReviewMoves ==
  ASSUME RatingsInv, NEW b \in ReviewedBookings, NEW row \in ReviewRow, row.status # "none",
         reviews' = [reviews EXCEPT ![b] = row],
         \/ reviewEvents' = reviewEvents /\ row.status = reviews[b].status
         \/ /\ reviewEvents' = Emitted(b, "add") /\ Cardinality(EventsOf(b)) <= MaxModerations
            /\ row.status = "published" /\ reviews[b].status # "published"
         \/ /\ reviewEvents' = Emitted(b, "take") /\ Cardinality(EventsOf(b)) <= MaxModerations
            /\ row.status # "published" /\ reviews[b].status = "published",
         moderating' \in [ReviewModerators -> ModeratingRow], DecidesReviews',
         UNCHANGED <<reviewable, applied, reviewCount, clamped>>
  PROVE  RatingsInv'
<1>1. /\ reviews \in [ReviewedBookings -> ReviewRow] /\ reviews' \in [ReviewedBookings -> ReviewRow]
      /\ reviews'[b] = row /\ \A c \in ReviewedBookings \ {b} : reviews'[c] = reviews[c]
      /\ applied \subseteq reviewEvents /\ reviewEvents \subseteq ReviewEvent /\ IsFiniteSet(reviewEvents)
      /\ IsFiniteSet(Published) /\ Cardinality(Published) \in Nat
  BY RatingsTypes
<1>2. CounterTells'
  BY DEF RatingsInv, CounterTells
<1>3. ASSUME reviewEvents' \subseteq ReviewEvent, reviewEvents \subseteq reviewEvents', EventsNumbered', EventsTell'
      PROVE  RatingsInv'
  <2>1. ReviewsTypeOK'
    BY <1>1, <1>3 DEF RatingsInv, ReviewsTypeOK, ReviewRow, ReviewEvent, ModeratingRow
  <2> QED
    BY <1>2, <1>3, <2>1 DEF RatingsInv
<1>4. CASE reviewEvents' = reviewEvents /\ row.status = reviews[b].status
  <2>1. Published' = Published
    BY <1>1, <1>4 DEF Published
  <2>2. EventsTell'
    BY <1>4, <2>1 DEF RatingsInv, EventsTell, OfDelta
  <2>3. EventsNumbered'
    BY <1>1, <1>4 DEF RatingsInv, EventsNumbered, EventsOf
  <2> QED
    BY <1>1, <1>3, <1>4, <2>2, <2>3
<1>5. ASSUME NEW d \in {"add", "take"}, reviewEvents' = Emitted(b, d),
             Cardinality(EventsOf(b)) <= MaxModerations,
             Cardinality(Published') = IF d = "add" THEN Cardinality(Published) + 1 ELSE Cardinality(Published) - 1
      PROVE  RatingsInv'
  <2>1. PICK e \in ReviewEvent :
           /\ reviewEvents' = reviewEvents \union {e} /\ e \notin reviewEvents
           /\ e.booking = b /\ e.delta = d /\ e.n = Cardinality(EventsOf(b)) + 1
           /\ Cardinality(EventsOf(b)) \in Nat /\ IsFiniteSet(EventsOf(b))
    BY <1>5, EmittedIsNew
  <2>2. \A x \in {"add", "take"} :
          Cardinality(OfDelta(reviewEvents', x)) =
            IF d = x THEN Cardinality(OfDelta(reviewEvents, x)) + 1 ELSE Cardinality(OfDelta(reviewEvents, x))
    BY <1>1, <2>1, DeltaAdded
  <2>3. \A x \in {"add", "take"} : Cardinality(OfDelta(reviewEvents, x)) \in Nat
    BY <1>1, DeltasCounted
  <2>4. EventsTell'
    <3>1. Cardinality(OfDelta(reviewEvents, "add")) =
            Cardinality(OfDelta(reviewEvents, "take")) + Cardinality(Published)
      BY DEF RatingsInv, EventsTell
    <3>2. Cardinality(OfDelta(reviewEvents', "add")) =
            Cardinality(OfDelta(reviewEvents', "take")) + Cardinality(Published')
      BY <1>1, <1>5, <2>2, <2>3, <3>1
    <3> QED
      BY <3>2 DEF EventsTell, OfDelta
  <2>5. EventsOf(b)' = EventsOf(b) \union {e} /\ e \notin EventsOf(b)
    BY <2>1 DEF EventsOf
  <2>6. \A c \in ReviewedBookings \ {b} : EventsOf(c)' = EventsOf(c)
    BY <2>1 DEF EventsOf
  <2>7. Cardinality(EventsOf(b)') = Cardinality(EventsOf(b)) + 1
    BY <2>1, <2>5, FS_AddElement
  <2>8. IsFiniteSet(reviewEvents')
    BY <1>1, <2>1, FS_AddElement
  <2>9. \A x \in EventsOf(b)' : x.n <= Cardinality(EventsOf(b)')
    <3>1. \A x \in EventsOf(b) : x.n <= Cardinality(EventsOf(b)) /\ x.n \in Int
      BY <1>1 DEF RatingsInv, EventsNumbered, EventsOf, ReviewEvent
    <3> QED
      BY <2>1, <2>5, <2>7, <3>1
  <2>10. EventsNumbered'
    <3> SUFFICES ASSUME NEW c \in ReviewedBookings
                 PROVE  /\ reviews'[c].status = "none" => EventsOf(c)' = {} /\ ~reviews'[c].triaged
                        /\ \A x \in EventsOf(c)' : x.n <= Cardinality(EventsOf(c)')
      BY <2>8 DEF EventsNumbered
    <3>1. CASE c = b
      BY <1>1, <2>9, <3>1
    <3>2. CASE c # b
      BY <1>1, <2>6, <3>2 DEF RatingsInv, EventsNumbered
    <3> QED
      BY <3>1, <3>2
  <2> QED
    BY <1>1, <1>3, <2>1, <2>4, <2>10
<1>6. CASE /\ reviewEvents' = Emitted(b, "add") /\ Cardinality(EventsOf(b)) <= MaxModerations
           /\ row.status = "published" /\ reviews[b].status # "published"
  <2>1. Published' = Published \union {b} /\ b \notin Published
    BY <1>1, <1>6 DEF Published
  <2>2. Cardinality(Published') = Cardinality(Published) + 1
    BY <1>1, <2>1, FS_AddElement
  <2> QED
    BY <1>5, <1>6, <2>2
<1>7. CASE /\ reviewEvents' = Emitted(b, "take") /\ Cardinality(EventsOf(b)) <= MaxModerations
           /\ row.status # "published" /\ reviews[b].status = "published"
  <2>1. Published' = Published \ {b} /\ b \in Published
    BY <1>1, <1>7 DEF Published
  <2>2. Cardinality(Published') = Cardinality(Published) - 1
    BY <1>1, <2>1, FS_RemoveElement
  <2> QED
    BY <1>5, <1>7, <2>2
<1> QED
  BY <1>4, <1>6, <1>7

LEMMA ReviewSteps ==
  ASSUME RatingsInv, NEW b \in ReviewedBookings, RecordEligibility(b) \/ CreateReview(b)
  PROVE  RatingsInv'
<1>1. CASE RecordEligibility(b)
  <2>1. reviewable' \subseteq ReviewedBookings /\ UNCHANGED <<reviews, reviewEvents, moderating, applied, reviewCount, clamped>>
    BY <1>1, RatingsTypes DEF RecordEligibility
  <2> QED
    BY <2>1 DEF RatingsInv, ReviewsTypeOK, EventsNumbered, EventsOf, DecidesReviews, EventsTell, CounterTells,
                OfDelta, Published
<1>2. CASE CreateReview(b)
  <2> DEFINE row == [reviews[b] EXCEPT !.status = "published"]
  <2>1. row \in ReviewRow /\ row.status = "published" /\ reviews[b].status = "none"
    <3>1. reviews[b] \in ReviewRow /\ reviews[b] = [status |-> "none", triaged |-> FALSE]
      BY <1>2, RatingsTypes DEF CreateReview, NoReview
    <3>2. row \in ReviewRow /\ row.status = "published"
      BY <3>1 DEF ReviewRow
    <3> QED
      BY <3>1, <3>2
  <2>2. reviews' = [reviews EXCEPT ![b] = row]
    BY <1>2 DEF CreateReview
  <2>3. Cardinality(EventsOf(b)) <= MaxModerations
    <3>1. EventsOf(b) = {}
      BY <2>1 DEF RatingsInv, EventsNumbered
    <3> QED
      BY <3>1, FS_EmptySet, RatingsTypes
  <2>4. /\ reviewEvents' = Emitted(b, "add") /\ UNCHANGED <<reviewable, moderating, applied, reviewCount, clamped>>
        /\ moderating' \in [ReviewModerators -> ModeratingRow]
    BY <1>2, RatingsTypes DEF CreateReview
  <2>5. DecidesReviews'
    BY <2>4 DEF RatingsInv, DecidesReviews
  <2> HIDE DEF row
  <2> QED
    BY <2>1, <2>2, <2>3, <2>4, <2>5, ReviewMoves
<1> QED
  BY <1>1, <1>2

LEMMA ModeratorSteps ==
  ASSUME RatingsInv, NEW m \in ReviewModerators,
         \/ \E b \in ReviewedBookings, to \in {"published", "hidden"} : ReadReview(m, b, to)
         \/ DecideReview(m)
  PROVE  RatingsInv'
<1>1. /\ moderating \in [ReviewModerators -> ModeratingRow] /\ reviews \in [ReviewedBookings -> ReviewRow]
  BY RatingsTypes
<1>2. NotModerating \in ModeratingRow
  BY DEF NotModerating, ModeratingRow
<1>3. ASSUME moderating' \in [ReviewModerators -> ModeratingRow], DecidesReviews',
             UNCHANGED <<reviewable, reviews, reviewEvents, applied, reviewCount, clamped>>
      PROVE  RatingsInv'
  BY <1>3 DEF RatingsInv, ReviewsTypeOK, EventsNumbered, EventsOf, EventsTell, CounterTells, OfDelta, Published,
              ModeratingRow
<1>4. ASSUME NEW b \in ReviewedBookings, NEW to \in {"published", "hidden"}, ReadReview(m, b, to)
      PROVE  RatingsInv'
  <2> DEFINE row == [booking |-> b, from |-> reviews[b].status, to |-> to]
  <2>1. reviews[b].status \in {"published", "hidden"}
    <3>1. reviews[b] \in ReviewRow /\ reviews[b] # NoReview
      BY <1>1, <1>4 DEF ReadReview
    <3>2. reviews[b].status = "none" => ~reviews[b].triaged
      BY DEF RatingsInv, EventsNumbered
    <3>3. reviews[b].status # "none"
      BY <3>1, <3>2 DEF ReviewRow, NoReview
    <3> QED
      BY <3>1, <3>3 DEF ReviewRow
  <2>2. /\ row \in ModeratingRow /\ row.booking = b /\ row.from \in {"published", "hidden"}
        /\ row.to \in {"published", "hidden"}
    BY <2>1 DEF ModeratingRow
  <2>3. moderating' = [moderating EXCEPT ![m] = row]
        /\ UNCHANGED <<reviewable, reviews, reviewEvents, applied, reviewCount, clamped>>
    BY <1>4 DEF ReadReview
  <2> HIDE DEF row
  <2>4. DecidesReviews'
    BY <1>1, <2>2, <2>3 DEF RatingsInv, DecidesReviews
  <2> QED
    BY <1>1, <1>3, <2>2, <2>3, <2>4
<1>5. CASE DecideReview(m)
  <2> DEFINE d == moderating[m]
  <2>1. d # NotModerating /\ d.booking \in ReviewedBookings
        /\ d.from \in {"published", "hidden"} /\ d.to \in {"published", "hidden"}
    BY <1>5 DEF DecideReview, RatingsInv, DecidesReviews
  <2>2. moderating' = [moderating EXCEPT ![m] = NotModerating] /\ UNCHANGED <<reviewable, applied, reviewCount, clamped>>
    BY <1>5 DEF DecideReview
  <2>3. moderating' \in [ReviewModerators -> ModeratingRow] /\ DecidesReviews'
    BY <1>1, <1>2, <2>2 DEF RatingsInv, DecidesReviews
  <2>4. CASE UNCHANGED <<reviews, reviewEvents>>
    BY <1>3, <2>2, <2>3, <2>4
  <2>5. CASE ~ UNCHANGED <<reviews, reviewEvents>>
    <3> DEFINE row == [status |-> d.to, triaged |-> TRUE]
    <3>1. /\ reviews[d.booking].status = d.from
          /\ d.from # d.to => Cardinality(EventsOf(d.booking)) <= MaxModerations
          /\ reviews' = [reviews EXCEPT ![d.booking] = row]
          /\ reviewEvents' = IF d.from = d.to THEN reviewEvents
                             ELSE Emitted(d.booking, IF d.to = "hidden" THEN "take" ELSE "add")
      BY <1>5, <2>5 DEF DecideReview, Decides
    <3>2. row \in ReviewRow /\ row.status = d.to
      BY <2>1 DEF ReviewRow
    <3> HIDE DEF row, d
    <3>3. CASE d.from = d.to
      BY <2>1, <2>2, <2>3, <3>1, <3>2, <3>3, ReviewMoves
    <3>4. CASE d.from # d.to /\ d.to = "hidden"
      BY <2>1, <2>2, <2>3, <3>1, <3>2, <3>4, ReviewMoves
    <3>5. CASE d.from # d.to /\ d.to = "published"
      BY <2>1, <2>2, <2>3, <3>1, <3>2, <3>5, ReviewMoves
    <3> QED
      BY <2>1, <3>3, <3>4, <3>5
  <2> QED
    BY <2>4, <2>5
<1> QED
  BY <1>4, <1>5

\* An event is applied once, and moves the counter by its amount.
LEMMA RatingSteps ==
  ASSUME RatingsInv, NEW e \in reviewEvents, ApplyRating(e)
  PROVE  RatingsInv'
<1>1. /\ e \in ReviewEvent /\ e.delta \in {"add", "take"} /\ e \notin applied
      /\ applied' = applied \union {e} /\ applied \subseteq reviewEvents /\ IsFiniteSet(applied)
      /\ reviewCount \in Nat /\ clamped \in BOOLEAN
      /\ reviewCount' = IF e.delta = "add" THEN reviewCount + 1
                        ELSE IF reviewCount = 0 THEN 0 ELSE reviewCount - 1
      /\ clamped' = (clamped \/ (e.delta = "take" /\ reviewCount = 0))
      /\ UNCHANGED <<reviewable, reviews, reviewEvents, moderating>>
  BY RatingsTypes, FS_Subset DEF ApplyRating, Claimed, ReviewEvent
<1>2. reviewCount' \in Nat
  BY <1>1
<1>3. clamped' \in BOOLEAN
  BY <1>1, Zenon
<1>4. ReviewsTypeOK'
  BY <1>1, <1>2, <1>3 DEF RatingsInv, ReviewsTypeOK
<1>5. EventsNumbered' /\ DecidesReviews' /\ EventsTell'
  BY <1>1 DEF RatingsInv, EventsNumbered, EventsOf, DecidesReviews, EventsTell, OfDelta, Published
<1>6. CounterTells'
  <2> SUFFICES ASSUME ~clamped'
               PROVE  Cardinality(OfDelta(applied', "add")) = Cardinality(OfDelta(applied', "take")) + reviewCount'
    BY DEF CounterTells, OfDelta
  <2>1. ~clamped /\ ~(e.delta = "take" /\ reviewCount = 0)
    BY <1>1
  <2>2. Cardinality(OfDelta(applied, "add")) = Cardinality(OfDelta(applied, "take")) + reviewCount
    BY <2>1 DEF RatingsInv, CounterTells
  <2>3. \A x \in {"add", "take"} :
          /\ Cardinality(OfDelta(applied, x)) \in Nat
          /\ Cardinality(OfDelta(applied', x)) =
               IF e.delta = x THEN Cardinality(OfDelta(applied, x)) + 1 ELSE Cardinality(OfDelta(applied, x))
    BY <1>1, DeltaAdded, DeltasCounted
  <2> QED
    BY <1>1, <2>1, <2>2, <2>3
<1> QED
  BY <1>4, <1>5, <1>6 DEF RatingsInv

LEMMA RatingsBegin == ReviewsInit => RatingsInv
<1> SUFFICES ASSUME ReviewsInit PROVE RatingsInv
  OBVIOUS
<1>1. ReviewsTypeOK
  BY DEF ReviewsInit, ReviewsTypeOK, NoReview, NotModerating
<1>2. EventsNumbered /\ DecidesReviews
  BY FS_EmptySet DEF ReviewsInit, EventsNumbered, EventsOf, DecidesReviews, NoReview
<1>3. Published = {} /\ OfDelta(reviewEvents, "add") = {} /\ OfDelta(reviewEvents, "take") = {}
      /\ OfDelta(applied, "add") = {} /\ OfDelta(applied, "take") = {} /\ reviewCount = 0
  BY DEF ReviewsInit, Published, OfDelta, NoReview
<1>4. EventsTell /\ CounterTells
  BY <1>3, FS_EmptySet DEF EventsTell, CounterTells
<1> QED
  BY <1>1, <1>2, <1>4 DEF RatingsInv

LEMMA ReviewsFollow ==
  /\ RatingsInv /\ [ReviewsNext]_reviewVars => RatingsInv'
  /\ RatingsInv => ReviewsTypeOK /\ RatingsAgree
<1>1. ASSUME RatingsInv, UNCHANGED reviewVars PROVE RatingsInv'
  BY <1>1 DEF RatingsInv, ReviewsTypeOK, EventsNumbered, EventsOf, DecidesReviews, EventsTell, CounterTells,
              OfDelta, Published, reviewVars
<1>2. RatingsInv /\ [ReviewsNext]_reviewVars => RatingsInv'
  BY <1>1, ReviewSteps, ModeratorSteps, RatingSteps DEF ReviewsNext
<1>3. ASSUME RatingsInv, applied = reviewEvents, ~clamped
      PROVE  reviewCount = Cardinality(Published)
  <2>1. /\ Cardinality(OfDelta(reviewEvents, "add")) = Cardinality(OfDelta(reviewEvents, "take")) + Cardinality(Published)
        /\ Cardinality(OfDelta(reviewEvents, "add")) = Cardinality(OfDelta(reviewEvents, "take")) + reviewCount
    BY <1>3 DEF RatingsInv, EventsTell, CounterTells
  <2>2. Cardinality(OfDelta(reviewEvents, "take")) \in Nat /\ Cardinality(Published) \in Nat /\ reviewCount \in Nat
    BY <1>3, RatingsTypes, DeltasCounted
  <2> QED
    BY <2>1, <2>2
<1> QED
  BY <1>2, <1>3 DEF RatingsInv, RatingsAgree, Published

(* Search: the steps.                                                      *)

PusherRow ==
  [job : {"none", "flush", "reindex"}, fresh : BOOLEAN, content : Content, target : Generations,
   at : {"idle", "read", "located", "aliased", "building", "copied", "filled", "swapped", "recorded"}]
SourceRow == [revision : Revisions, profile : Revisions, media : Revisions]

LEMMA SearchTypes ==
  ASSUME SearchInv
  PROVE  /\ source \in SourceRow /\ document \in SourceRow /\ ContentOf(document) \in Content
         /\ sent \subseteq [kind : {"profile", "media"}, revision : Revisions]
         /\ engine \in [Generations -> Content] /\ alias \in Generations /\ recorded \in Generations
         /\ pushers \in [Pushers -> PusherRow] /\ engineFaults \in 0 .. MaxEngineFaults
         /\ MaxRevision \in Nat /\ MaxGeneration \in Nat /\ MaxEngineFaults \in Nat
         /\ Revisions = 0 .. MaxRevision /\ Generations = 0 .. MaxGeneration
<1>1. /\ source \in SourceRow /\ document \in SourceRow
      /\ sent \subseteq [kind : {"profile", "media"}, revision : Revisions]
      /\ engine \in [Generations -> Content] /\ alias \in Generations /\ recorded \in Generations
      /\ pushers \in [Pushers -> PusherRow] /\ engineFaults \in 0 .. MaxEngineFaults
  BY DEF SearchInv, SearchTypeOK, SourceRow, PusherRow
<1>2. ContentOf(document) \in Content
  BY <1>1 DEF SourceRow, Content, ContentOf
<1>3. MaxRevision \in Nat /\ MaxGeneration \in Nat /\ MaxEngineFaults \in Nat
  BY SearchIndexAssumption
<1> QED
  BY <1>1, <1>2, <1>3 DEF Revisions, Generations

\* The source changes and says so.
LEMMA ChangeSteps ==
  ASSUME SearchInv, NEW kind \in {"profile", "media"}, Change(kind)
  PROVE  SearchInv' /\ UNCHANGED document
<1> DEFINE r == source.revision + 1
           event == [kind |-> kind, revision |-> r]
<1>1. /\ source \in SourceRow /\ source.revision \in Revisions /\ source.profile \in Revisions
      /\ source.media \in Revisions /\ MaxRevision \in Nat /\ Revisions = 0 .. MaxRevision
  BY SearchTypes DEF SourceRow
<1>2. /\ source.revision < MaxRevision /\ sent' = sent \union {event}
      /\ source' = IF kind = "profile" THEN [source EXCEPT !.revision = r, !.profile = r]
                   ELSE [source EXCEPT !.revision = r, !.media = r]
      /\ UNCHANGED <<document, dirty, engine, alias, recorded, pushers, engineFaults, flushesMet>>
  BY DEF Change
<1>3. r \in Revisions /\ r > source.revision
  BY <1>1, <1>2
<1>4. event \in [kind : {"profile", "media"}, revision : Revisions] /\ event.kind = kind /\ event.revision = r
  BY <1>3
<1>5. /\ source' \in SourceRow /\ source'.revision = r
      /\ source'.profile = IF kind = "profile" THEN r ELSE source.profile
      /\ source'.media = IF kind = "profile" THEN source.media ELSE r
  <2> HIDE DEF r
  <2> QED
    BY <1>1, <1>2, <1>3 DEF SourceRow
<1> HIDE DEF r, event
<1>6. SearchTypeOK'
  BY <1>2, <1>4, <1>5 DEF SearchInv, SearchTypeOK, SourceRow
<1>7. RevisionsOrdered'
  <2>1. /\ source.profile <= source.revision /\ source.media <= source.revision
        /\ document.profile <= document.revision /\ document.media <= document.revision
        /\ document.profile <= source.profile /\ document.media <= source.media
        /\ document.revision <= source.revision
        /\ \A e \in sent : IF e.kind = "profile" THEN e.revision <= source.profile ELSE e.revision <= source.media
    BY DEF SearchInv, RevisionsOrdered
  <2>2. /\ document.profile \in Int /\ document.media \in Int /\ document.revision \in Int
        /\ \A e \in sent : e.revision \in Int /\ e.kind \in {"profile", "media"}
    BY SearchTypes DEF SourceRow
  <2>3. source.profile <= source'.profile /\ source.media <= source'.media /\ source.revision <= source'.revision
        /\ source'.profile <= source'.revision /\ source'.media <= source'.revision
    BY <1>1, <1>3, <1>5, <2>1
  <2>4. r \in Int /\ source'.profile \in Int /\ source'.media \in Int /\ source'.revision \in Int
    BY <1>1, <1>3, <1>5
  <2>5. \A e \in sent' : IF e.kind = "profile" THEN e.revision <= source'.profile ELSE e.revision <= source'.media
    <3>1. ASSUME NEW e \in sent
          PROVE  IF e.kind = "profile" THEN e.revision <= source'.profile ELSE e.revision <= source'.media
      BY <1>1, <2>1, <2>2, <2>3, <2>4
    <3>2. IF event.kind = "profile" THEN event.revision <= source'.profile ELSE event.revision <= source'.media
      BY <1>4, <1>5, <2>4
    <3> QED
      BY <1>2, <3>1, <3>2
  <2> QED
    BY <1>1, <1>2, <2>1, <2>2, <2>3, <2>4, <2>5 DEF RevisionsOrdered
<1>8. PushersBusy' /\ InTurnIndexed'
  BY <1>2 DEF SearchInv, PushersBusy, InTurnIndexed, Pushing, FlushStands, RebuildStands, ContentOf
<1> QED
  BY <1>2, <1>6, <1>7, <1>8 DEF SearchInv

\* A write is accepted only forward, and no push keeps its mark past it.
Forward(d) ==
  /\ d.profile >= document.profile /\ d.media >= document.media /\ d.revision >= document.revision
  /\ d.profile <= d.revision /\ d.media <= d.revision
  /\ d.profile <= source.profile /\ d.media <= source.media /\ d.revision <= source.revision

LEMMA AcceptedSteps ==
  ASSUME SearchInv, NEW d \in SourceRow, Forward(d), Accepted(d)
  PROVE  SearchInv' /\ document' = d
<1>1. /\ document' = d /\ dirty' = TRUE
      /\ pushers' = [p \in Pushers |-> [pushers[p] EXCEPT !.fresh = FALSE]]
      /\ flushesMet' = (flushesMet \/ Rebuilding # {})
      /\ UNCHANGED <<source, sent, engine, alias, recorded, engineFaults>>
  BY DEF Accepted
<1>2. pushers \in [Pushers -> PusherRow]
  BY SearchTypes
<1>3. ASSUME NEW p \in Pushers
      PROVE  /\ pushers'[p] \in PusherRow /\ pushers'[p].fresh = FALSE
             /\ pushers'[p].job = pushers[p].job /\ pushers'[p].at = pushers[p].at
             /\ pushers'[p].content = pushers[p].content /\ pushers'[p].target = pushers[p].target
  BY <1>1, <1>2 DEF PusherRow
<1>4. pushers' \in [Pushers -> PusherRow]
  BY <1>1, <1>3
<1>5. flushesMet' \in BOOLEAN
  <2>1. flushesMet \in BOOLEAN
    BY DEF SearchInv, SearchTypeOK
  <2> QED
    BY <1>1, <2>1, Zenon
<1>6. SearchTypeOK'
  BY <1>1, <1>4, <1>5 DEF SearchInv, SearchTypeOK, SourceRow, PusherRow
<1>7. RevisionsOrdered'
  BY <1>1 DEF SearchInv, RevisionsOrdered, Forward
<1>8. PushersBusy'
  BY <1>3 DEF SearchInv, PushersBusy
<1>9. InTurnIndexed'
  <2> SUFFICES ASSUME ~flushesMet' PROVE InTurnIndexed'
    BY DEF InTurnIndexed
  <2>1. ~flushesMet /\ Rebuilding = {}
    BY <1>1
  <2>2. Pushing' = Pushing
    BY <1>3 DEF Pushing
  <2>3. \A p, q \in Pushing' : p = q
    BY <2>1, <2>2 DEF SearchInv, InTurnIndexed
  <2>4. ASSUME NEW p \in Pushers PROVE FlushStands(pushers[p])' /\ RebuildStands(pushers[p])'
    <3>1. FlushStands(pushers[p]) /\ pushers[p].job # "reindex"
      BY <2>1 DEF SearchInv, InTurnIndexed, Rebuilding
    <3> QED
      BY <1>1, <1>3, <3>1 DEF FlushStands, RebuildStands
  <2> QED
    BY <1>1, <2>3, <2>4 DEF InTurnIndexed
<1> QED
  BY <1>1, <1>6, <1>7, <1>8, <1>9 DEF SearchInv

LEMMA ApplySteps ==
  ASSUME SearchInv, RebuildProjection \/ \E e \in sent : ApplyProfessional(e) \/ ApplyMedia(e)
  PROVE  \E d \in SourceRow : Forward(d) /\ Accepted(d)
<1>1. /\ source.revision \in Revisions /\ source.profile \in Revisions /\ source.media \in Revisions
      /\ document.revision \in Revisions /\ document.profile \in Revisions /\ document.media \in Revisions
      /\ document \in SourceRow
      /\ MaxRevision \in Nat /\ Revisions = 0 .. MaxRevision
      /\ \A e \in sent : e.revision \in Revisions
  BY SearchTypes DEF SourceRow
<1>2. /\ source.profile <= source.revision /\ source.media <= source.revision
      /\ document.profile <= document.revision /\ document.media <= document.revision
      /\ document.profile <= source.profile /\ document.media <= source.media
      /\ document.revision <= source.revision
      /\ \A e \in sent : IF e.kind = "profile" THEN e.revision <= source.profile ELSE e.revision <= source.media
  BY DEF SearchInv, RevisionsOrdered
<1>3. ASSUME NEW e \in sent, ApplyProfessional(e) PROVE \E d \in SourceRow : Forward(d) /\ Accepted(d)
  <2> DEFINE d == [document EXCEPT !.revision = e.revision, !.profile = e.revision]
  <2>1. e.kind = "profile" /\ document.revision < e.revision /\ Accepted(d)
    BY <1>3 DEF ApplyProfessional, Newer
  <2>2. d \in SourceRow /\ d.revision = e.revision /\ d.profile = e.revision /\ d.media = document.media
    BY <1>1 DEF SourceRow
  <2> HIDE DEF d
  <2>3. Forward(d)
    BY <1>1, <1>2, <2>1, <2>2 DEF Forward
  <2> QED
    BY <2>1, <2>2, <2>3
<1>4. ASSUME NEW e \in sent, ApplyMedia(e) PROVE \E d \in SourceRow : Forward(d) /\ Accepted(d)
  <2> DEFINE d == [document EXCEPT !.revision = e.revision, !.media = e.revision]
  <2>1. e.kind = "media" /\ document.revision <= e.revision /\ Accepted(d)
    BY <1>4 DEF ApplyMedia
  <2>2. d \in SourceRow /\ d.revision = e.revision /\ d.media = e.revision /\ d.profile = document.profile
    BY <1>1 DEF SourceRow
  <2> HIDE DEF d
  <2>3. Forward(d)
    BY <1>1, <1>2, <2>1, <2>2 DEF Forward
  <2> QED
    BY <2>1, <2>2, <2>3
<1>5. CASE RebuildProjection
  <2> DEFINE d == [revision |-> source.revision, media |-> source.media,
                   profile |-> IF Newer(source.revision) THEN source.profile ELSE document.profile]
  <2>1. document.revision <= source.revision /\ Accepted(d)
    BY <1>5 DEF RebuildProjection
  <2>2. d \in SourceRow /\ d.revision = source.revision /\ d.media = source.media
        /\ d.profile \in {source.profile, document.profile}
    BY <1>1 DEF SourceRow
  <2> HIDE DEF d
  <2>3. Forward(d)
    BY <1>1, <1>2, <2>1, <2>2 DEF Forward
  <2> QED
    BY <2>1, <2>2, <2>3
<1> QED
  BY <1>3, <1>4, <1>5

LEMMA Unpushed == NotPushing \in PusherRow /\ NotPushing.at = "idle" /\ NotPushing.job = "none"
<1>1. MaxRevision \in Nat /\ MaxGeneration \in Nat
  BY SearchIndexAssumption
<1>2. NothingIndexed \in Content /\ 0 \in Generations
  BY <1>1 DEF NothingIndexed, Content, Revisions, Generations
<1> QED
  BY <1>2 DEF NotPushing, PusherRow

\* A push moves on, alone unless pushes have met: what remains to be said of it.
LEMMA PusherMoves ==
  ASSUME SearchInv, NEW p \in Pushers, NEW t \in PusherRow, pushers' = [pushers EXCEPT ![p] = t],
         UNCHANGED <<source, sent, document>>,
         dirty' \in BOOLEAN, flushesMet' \in BOOLEAN, engineFaults' \in 0 .. MaxEngineFaults,
         engine' \in [Generations -> Content], alias' \in Generations, recorded' \in Generations,
         t.at # "idle" => t.job \in {"flush", "reindex"},
         ~flushesMet' =>
           /\ \A q \in Pushing : q = p
           /\ ~dirty' => engine'[alias'] = ContentOf(document)
           /\ t.job = "flush" /\ t.at # "idle" =>
                /\ dirty'
                /\ t.fresh => t.content = ContentOf(document)
                /\ t.at \in {"aliased", "filled"} => alias' = t.target
                /\ t.at = "filled" => engine'[t.target] = t.content
           /\ t.job = "reindex" =>
                /\ t.at \in {"copied", "filled", "swapped", "recorded"} => t.content = ContentOf(document)
                /\ t.at \in {"filled", "swapped", "recorded"} => engine'[t.target] = t.content
                /\ t.at \in {"swapped", "recorded"} => alias' = t.target
  PROVE  SearchInv' /\ UNCHANGED document
<1>1. /\ pushers \in [Pushers -> PusherRow] /\ pushers' \in [Pushers -> PusherRow]
      /\ pushers'[p] = t /\ \A q \in Pushers \ {p} : pushers'[q] = pushers[q]
  BY SearchTypes
<1>2. SearchTypeOK'
  BY <1>1 DEF SearchInv, SearchTypeOK, PusherRow
<1>3. RevisionsOrdered'
  BY DEF SearchInv, RevisionsOrdered
<1>4. PushersBusy'
  BY <1>1 DEF SearchInv, PushersBusy
<1>5. InTurnIndexed'
  <2> SUFFICES ASSUME ~flushesMet' PROVE InTurnIndexed'
    BY DEF InTurnIndexed
  <2>1. \A q \in Pushers \ {p} : pushers'[q].at = "idle"
    BY <1>1 DEF Pushing
  <2>2. \A q, s \in Pushing' : q = s
    BY <2>1 DEF Pushing
  <2>3. ContentOf(document') = ContentOf(document)
    BY DEF ContentOf
  <2>4. ASSUME NEW q \in Pushers PROVE FlushStands(pushers[q])' /\ RebuildStands(pushers[q])'
    <3>1. CASE q = p
      BY <1>1, <2>3, <3>1 DEF FlushStands, RebuildStands
    <3>2. CASE q # p
      BY <2>1, <3>2 DEF FlushStands, RebuildStands
    <3> QED
      BY <3>1, <3>2
  <2>5. ~dirty' => engine'[alias'] = ContentOf(document')
    BY <2>3
  <2> QED
    BY <2>2, <2>4, <2>5 DEF InTurnIndexed
<1> QED
  BY <1>2, <1>3, <1>4, <1>5 DEF SearchInv

\* What holds of the push that runs, and of what it may meet.
LEMMA PushTypes ==
  ASSUME SearchInv, NEW p \in Pushers
  PROVE  /\ pushers[p] \in PusherRow /\ pushers[p].content \in Content /\ pushers[p].target \in Generations
         /\ pushers[p].fresh \in BOOLEAN
         /\ dirty \in BOOLEAN /\ flushesMet \in BOOLEAN /\ engineFaults \in 0 .. MaxEngineFaults
         /\ engine \in [Generations -> Content] /\ alias \in Generations /\ recorded \in Generations
         /\ ContentOf(document) \in Content
         /\ ~flushesMet => /\ pushers[p].at # "idle" => \A q \in Pushing : q = p
                           /\ ~dirty => engine[alias] = ContentOf(document)
                           /\ FlushStands(pushers[p]) /\ RebuildStands(pushers[p])
<1>1. pushers[p] \in PusherRow
  BY SearchTypes
<1>2. /\ pushers[p].content \in Content /\ pushers[p].target \in Generations /\ pushers[p].fresh \in BOOLEAN
  BY <1>1 DEF PusherRow
<1>3. dirty \in BOOLEAN /\ flushesMet \in BOOLEAN /\ engineFaults \in 0 .. MaxEngineFaults
      /\ engine \in [Generations -> Content] /\ alias \in Generations /\ recorded \in Generations
  BY DEF SearchInv, SearchTypeOK
<1>4. ContentOf(document) \in Content
  BY SearchTypes
<1>5. ~flushesMet => /\ pushers[p].at # "idle" => \A q \in Pushing : q = p
                     /\ ~dirty => engine[alias] = ContentOf(document)
                     /\ FlushStands(pushers[p]) /\ RebuildStands(pushers[p])
  BY DEF SearchInv, InTurnIndexed, Pushing
<1> QED
  BY <1>1, <1>2, <1>3, <1>4, <1>5

\* The sweep.
LEMMA FlushSteps ==
  ASSUME SearchInv, NEW p \in Pushers, FlushRead(p) \/ FlushStep(p)
  PROVE  SearchInv' /\ UNCHANGED document
<1> DEFINE row == pushers[p]
<1>1. /\ row \in PusherRow /\ row.content \in Content /\ row.target \in Generations /\ row.fresh \in BOOLEAN
      /\ dirty \in BOOLEAN /\ flushesMet \in BOOLEAN /\ engineFaults \in 0 .. MaxEngineFaults
      /\ engine \in [Generations -> Content] /\ alias \in Generations /\ recorded \in Generations
      /\ ContentOf(document) \in Content
      /\ ~flushesMet => /\ row.at # "idle" => \A q \in Pushing : q = p
                        /\ ~dirty => engine[alias] = ContentOf(document)
                        /\ FlushStands(row) /\ RebuildStands(row)
  BY PushTypes
<1>2. NotPushing \in PusherRow /\ NotPushing.at = "idle" /\ NotPushing.job = "none"
  BY Unpushed
<1>3. CASE FlushRead(p)
  <2> DEFINE t == [NotPushing EXCEPT !.job = "flush", !.at = "read", !.fresh = TRUE,
                                     !.content = ContentOf(document)]
  <2>1. t \in PusherRow /\ t.job = "flush" /\ t.at = "read" /\ t.fresh = TRUE /\ t.content = ContentOf(document)
    <3> DEFINE c == ContentOf(document)
    <3> HIDE DEF c
    <3>1. c \in Content
      BY <1>1 DEF c
    <3>2. LET s == [NotPushing EXCEPT !.job = "flush", !.at = "read", !.fresh = TRUE, !.content = c]
          IN  s \in PusherRow /\ s.job = "flush" /\ s.at = "read" /\ s.fresh = TRUE /\ s.content = c
      BY <1>2, <3>1 DEF PusherRow
    <3> QED
      BY <3>2 DEF c
  <2>2. /\ pushers' = [pushers EXCEPT ![p] = t] /\ dirty = TRUE
        /\ flushesMet' = (flushesMet \/ Pushing # {})
        /\ UNCHANGED <<source, sent, document, dirty, engine, alias, recorded, engineFaults>>
    BY <1>1, <1>3 DEF FlushRead, Pushed
  <2>3. flushesMet' \in BOOLEAN
    BY <1>1, <2>2, Zenon
  <2>4. ~flushesMet' => \A q \in Pushing : q = p
    BY <2>2
  <2> HIDE DEF t
  <2> QED
    BY <1>1, <2>1, <2>2, <2>3, <2>4, PusherMoves
<1>4. CASE FlushLocate(p)
  <2> DEFINE t == [row EXCEPT !.at = "located", !.target = recorded]
  <2>1. row.job = "flush" /\ row.at = "read"
    BY <1>4 DEF FlushLocate, At
  <2>2. t \in PusherRow /\ t.job = "flush" /\ t.at = "located" /\ t.fresh = row.fresh /\ t.content = row.content
    BY <1>1, <2>1 DEF PusherRow
  <2>3. /\ pushers' = [pushers EXCEPT ![p] = t]
        /\ UNCHANGED <<source, sent, document, dirty, engine, alias, recorded, engineFaults, flushesMet>>
    BY <1>4 DEF FlushLocate, Pushed
  <2>4. ~flushesMet => dirty /\ (row.fresh => row.content = ContentOf(document)) /\ \A q \in Pushing : q = p
    BY <1>1, <2>1 DEF FlushStands
  <2> HIDE DEF t
  <2> QED
    BY <1>1, <2>1, <2>2, <2>3, <2>4, PusherMoves
<1>5. CASE FlushAlias(p)
  <2> DEFINE t == [row EXCEPT !.at = "aliased"]
  <2>1. row.job = "flush" /\ row.at = "located"
    BY <1>5 DEF FlushAlias, At
  <2>2. /\ t \in PusherRow /\ t.job = "flush" /\ t.at = "aliased" /\ t.fresh = row.fresh /\ t.content = row.content
        /\ t.target = row.target
    BY <1>1, <2>1 DEF PusherRow
  <2>3. /\ pushers' = [pushers EXCEPT ![p] = t] /\ alias' = row.target
        /\ UNCHANGED <<source, sent, document, dirty, engine, recorded, engineFaults, flushesMet>>
    BY <1>5 DEF FlushAlias, Pushed
  <2>4. ~flushesMet => dirty /\ (row.fresh => row.content = ContentOf(document)) /\ \A q \in Pushing : q = p
    BY <1>1, <2>1 DEF FlushStands
  <2> HIDE DEF t
  <2> QED
    BY <1>1, <2>1, <2>2, <2>3, <2>4, PusherMoves
<1>6. CASE FlushPush(p)
  <2>1. /\ row.job = "flush" /\ row.at = "aliased"
        /\ UNCHANGED <<source, sent, document, dirty, alias, recorded, flushesMet>>
    BY <1>6 DEF FlushPush, At, Pushed
  <2>2. ~flushesMet => /\ dirty /\ (row.fresh => row.content = ContentOf(document)) /\ alias = row.target
                       /\ \A q \in Pushing : q = p
    BY <1>1, <2>1 DEF FlushStands
  <2>3. CASE /\ engine' = [engine EXCEPT ![row.target] = row.content]
             /\ Pushed(p, [row EXCEPT !.at = "filled"]) /\ UNCHANGED engineFaults
    <3> DEFINE t == [row EXCEPT !.at = "filled"]
    <3>1. /\ t \in PusherRow /\ t.job = "flush" /\ t.at = "filled" /\ t.fresh = row.fresh /\ t.content = row.content
          /\ t.target = row.target
      BY <1>1, <2>1 DEF PusherRow
    <3>2. pushers' = [pushers EXCEPT ![p] = t]
      BY <2>3 DEF Pushed
    <3>3. engine' \in [Generations -> Content] /\ engine'[row.target] = row.content
      BY <1>1, <2>3
    <3> HIDE DEF t
    <3> QED
      BY <1>1, <2>1, <2>2, <2>3, <3>1, <3>2, <3>3, PusherMoves
  <2>4. CASE Refuses /\ Pushed(p, NotPushing) /\ UNCHANGED engine
    <3>1. engineFaults' \in 0 .. MaxEngineFaults /\ pushers' = [pushers EXCEPT ![p] = NotPushing]
      BY <1>1, <2>4, SearchIndexAssumption DEF Refuses, Pushed
    <3> QED
      BY <1>1, <1>2, <2>1, <2>2, <2>4, <3>1, PusherMoves
  <2> QED
    BY <1>6, <2>3, <2>4 DEF FlushPush
<1>7. CASE FlushClear(p)
  <2>1. /\ row.job = "flush" /\ row.at = "filled" /\ pushers' = [pushers EXCEPT ![p] = NotPushing]
        /\ dirty' = (dirty /\ ~row.fresh)
        /\ UNCHANGED <<source, sent, document, engine, alias, recorded, engineFaults, flushesMet>>
    BY <1>7 DEF FlushClear, At, Pushed, SeenLast
  <2>2. ~flushesMet => /\ dirty /\ (row.fresh => row.content = ContentOf(document)) /\ alias = row.target
                       /\ engine[row.target] = row.content /\ \A q \in Pushing : q = p
    BY <1>1, <2>1 DEF FlushStands
  <2>3. dirty' \in BOOLEAN
    BY <2>1, Zenon
  <2>4. ~flushesMet => (~dirty' => engine[alias] = ContentOf(document))
    BY <2>1, <2>2
  <2> QED
    BY <1>1, <1>2, <2>1, <2>2, <2>3, <2>4, PusherMoves
<1> QED
  BY <1>3, <1>4, <1>5, <1>6, <1>7 DEF FlushStep

\* A rebuild.
LEMMA RebuildSteps ==
  ASSUME SearchInv, NEW p \in Pushers, ReindexStart(p) \/ ReindexStep(p)
  PROVE  SearchInv' /\ UNCHANGED document
<1> DEFINE row == pushers[p]
<1>1. /\ row \in PusherRow /\ row.content \in Content /\ row.target \in Generations /\ row.fresh \in BOOLEAN
      /\ dirty \in BOOLEAN /\ flushesMet \in BOOLEAN /\ engineFaults \in 0 .. MaxEngineFaults
      /\ engine \in [Generations -> Content] /\ alias \in Generations /\ recorded \in Generations
      /\ ContentOf(document) \in Content
      /\ ~flushesMet => /\ row.at # "idle" => \A q \in Pushing : q = p
                        /\ ~dirty => engine[alias] = ContentOf(document)
                        /\ FlushStands(row) /\ RebuildStands(row)
  BY PushTypes
<1>2. NotPushing \in PusherRow /\ NotPushing.at = "idle" /\ NotPushing.job = "none"
  BY Unpushed
<1>3. CASE ReindexStart(p)
  <2> DEFINE t == [NotPushing EXCEPT !.job = "reindex", !.at = "building", !.target = recorded + 1]
  <2>1. recorded + 1 \in Generations
    BY <1>1, <1>3, SearchIndexAssumption DEF ReindexStart, Generations
  <2>2. t \in PusherRow /\ t.job = "reindex" /\ t.at = "building"
    <3> DEFINE n == recorded + 1
    <3> HIDE DEF n
    <3>1. n \in Generations
      BY <2>1 DEF n
    <3>2. LET s == [NotPushing EXCEPT !.job = "reindex", !.at = "building", !.target = n]
          IN  s \in PusherRow /\ s.job = "reindex" /\ s.at = "building"
      BY <1>2, <3>1 DEF PusherRow
    <3> QED
      BY <3>2 DEF n
  <2>3. /\ pushers' = [pushers EXCEPT ![p] = t] /\ flushesMet' = (flushesMet \/ Pushing # {})
        /\ UNCHANGED <<source, sent, document, dirty, engine, alias, recorded, engineFaults>>
    BY <1>3 DEF ReindexStart, Pushed
  <2>4. flushesMet' \in BOOLEAN
    BY <1>1, <2>3, Zenon
  <2>5. ~flushesMet' => ~flushesMet /\ \A q \in Pushing : q = p
    BY <2>3
  <2> HIDE DEF t
  <2> QED
    BY <1>1, <2>2, <2>3, <2>4, <2>5, PusherMoves
<1>4. CASE ReindexCopy(p)
  <2> DEFINE t == [row EXCEPT !.at = "copied", !.content = ContentOf(document)]
  <2>1. row.job = "reindex" /\ row.at = "building"
    BY <1>4 DEF ReindexCopy, At
  <2>2. t \in PusherRow /\ t.job = "reindex" /\ t.at = "copied" /\ t.content = ContentOf(document)
    <3> DEFINE c == ContentOf(document)
    <3> HIDE DEF c
    <3>1. c \in Content
      BY <1>1 DEF c
    <3>2. LET s == [row EXCEPT !.at = "copied", !.content = c]
          IN  s \in PusherRow /\ s.job = "reindex" /\ s.at = "copied" /\ s.content = c
      BY <1>1, <2>1, <3>1 DEF PusherRow
    <3> QED
      BY <3>2 DEF c
  <2>3. /\ pushers' = [pushers EXCEPT ![p] = t]
        /\ UNCHANGED <<source, sent, document, dirty, engine, alias, recorded, engineFaults, flushesMet>>
    BY <1>4 DEF ReindexCopy, Pushed
  <2> HIDE DEF t
  <2> QED
    BY <1>1, <2>1, <2>2, <2>3, PusherMoves
<1>5. CASE ReindexFill(p)
  <2>1. /\ row.job = "reindex" /\ row.at = "copied"
        /\ UNCHANGED <<source, sent, document, dirty, alias, recorded, flushesMet>>
    BY <1>5 DEF ReindexFill, At, Pushed
  <2>2. ~flushesMet => /\ ~dirty => engine[alias] = ContentOf(document)
                       /\ row.content = ContentOf(document) /\ \A q \in Pushing : q = p
    BY <1>1, <2>1 DEF RebuildStands
  <2>3. CASE /\ engine' = [engine EXCEPT ![row.target] = row.content]
             /\ Pushed(p, [row EXCEPT !.at = "filled"]) /\ UNCHANGED engineFaults
    <3> DEFINE t == [row EXCEPT !.at = "filled"]
    <3>1. /\ t \in PusherRow /\ t.job = "reindex" /\ t.at = "filled" /\ t.content = row.content
          /\ t.target = row.target
      BY <1>1, <2>1 DEF PusherRow
    <3>2. pushers' = [pushers EXCEPT ![p] = t]
      BY <2>3 DEF Pushed
    <3>3. /\ engine' \in [Generations -> Content] /\ engine'[row.target] = row.content
          /\ engine'[alias] = row.content \/ engine'[alias] = engine[alias]
      BY <1>1, <2>3
    <3> HIDE DEF t
    <3> QED
      BY <1>1, <2>1, <2>2, <2>3, <3>1, <3>2, <3>3, PusherMoves
  <2>4. CASE Refuses /\ Pushed(p, NotPushing) /\ UNCHANGED engine
    <3>1. engineFaults' \in 0 .. MaxEngineFaults /\ pushers' = [pushers EXCEPT ![p] = NotPushing]
      BY <1>1, <2>4, SearchIndexAssumption DEF Refuses, Pushed
    <3> QED
      BY <1>1, <1>2, <2>1, <2>2, <2>4, <3>1, PusherMoves
  <2> QED
    BY <1>5, <2>3, <2>4 DEF ReindexFill
<1>6. CASE ReindexSwap(p) \/ ReindexRecord(p)
  <2> DEFINE t(at) == [row EXCEPT !.at = at]
  <2>1. \A at \in {"swapped", "recorded"} :
          t(at) \in PusherRow /\ t(at).job = row.job /\ t(at).at = at /\ t(at).content = row.content /\ t(at).target = row.target
    BY <1>1 DEF PusherRow
  <2>2. /\ row.job = "reindex" /\ row.at \in {"filled", "swapped"}
        /\ UNCHANGED <<source, sent, document, dirty, engine, engineFaults, flushesMet>>
        /\ \/ pushers' = [pushers EXCEPT ![p] = t("swapped")] /\ alias' = row.target /\ recorded' = recorded
           \/ /\ pushers' = [pushers EXCEPT ![p] = t("recorded")] /\ alias' = alias /\ recorded' = row.target
              /\ row.at = "swapped"
    BY <1>6 DEF ReindexSwap, ReindexRecord, At, Pushed
  <2>3. ~flushesMet => /\ ~dirty => engine[alias] = ContentOf(document)
                       /\ row.content = ContentOf(document) /\ engine[row.target] = row.content
                       /\ row.at = "swapped" => alias = row.target
                       /\ \A q \in Pushing : q = p
    BY <1>1, <2>2 DEF RebuildStands
  <2> HIDE DEF t
  <2>4. CASE pushers' = [pushers EXCEPT ![p] = t("swapped")] /\ alias' = row.target /\ recorded' = recorded
    BY <1>1, <2>1, <2>2, <2>3, <2>4, PusherMoves
  <2>5. CASE /\ pushers' = [pushers EXCEPT ![p] = t("recorded")] /\ alias' = alias /\ recorded' = row.target
             /\ row.at = "swapped"
    BY <1>1, <2>1, <2>2, <2>3, <2>5, PusherMoves
  <2> QED
    BY <2>2, <2>4, <2>5
<1>7. CASE ReindexClear(p)
  <2>1. /\ row.job = "reindex" /\ row.at = "recorded" /\ pushers' = [pushers EXCEPT ![p] = NotPushing]
        /\ dirty' = FALSE
        /\ UNCHANGED <<source, sent, document, engine, alias, recorded, engineFaults, flushesMet>>
    BY <1>7 DEF ReindexClear, At, Pushed
  <2>2. ~flushesMet => /\ row.content = ContentOf(document) /\ alias = row.target
                       /\ engine[row.target] = row.content /\ \A q \in Pushing : q = p
    BY <1>1, <2>1 DEF RebuildStands
  <2> QED
    BY <1>1, <1>2, <2>1, <2>2, PusherMoves
<1> QED
  BY <1>3, <1>4, <1>5, <1>6, <1>7 DEF ReindexStep

LEMMA SearchBegins == SearchInit => SearchInv
<1> SUFFICES ASSUME SearchInit PROVE SearchInv
  OBVIOUS
<1>1. /\ MaxRevision \in Nat /\ MaxGeneration \in Nat /\ MaxEngineFaults \in Nat
      /\ 0 \in Revisions /\ 0 \in Generations /\ NothingIndexed \in Content
  BY SearchIndexAssumption DEF Revisions, Generations, NothingIndexed, Content
<1>2. NotPushing \in PusherRow /\ NotPushing.at = "idle" /\ NotPushing.job = "none"
  BY Unpushed
<1>3. /\ source \in SourceRow /\ document \in SourceRow
  BY <1>1 DEF SearchInit, SourceRow
<1>4. SearchTypeOK
  <2>1. engine \in [Generations -> Content]
    BY <1>1 DEF SearchInit
  <2>2. pushers \in [Pushers -> PusherRow]
    BY <1>2 DEF SearchInit
  <2>3. /\ sent = {} /\ dirty = FALSE /\ flushesMet = FALSE /\ engineFaults = 0
        /\ alias = 0 /\ recorded = 0 /\ 0 \in 0 .. MaxEngineFaults
    BY <1>1 DEF SearchInit
  <2>4. dirty \in BOOLEAN /\ flushesMet \in BOOLEAN
    BY <2>3
  <2> QED
    BY <1>1, <1>3, <2>1, <2>2, <2>3, <2>4 DEF SearchTypeOK, SourceRow, PusherRow
<1>5. RevisionsOrdered /\ PushersBusy
  BY <1>2 DEF SearchInit, RevisionsOrdered, PushersBusy
<1>6. Pushing = {} /\ engine[alias] = ContentOf(document)
  BY <1>1, <1>2 DEF SearchInit, Pushing, ContentOf, NothingIndexed
<1>7. \A p \in Pushers : FlushStands(pushers[p]) /\ RebuildStands(pushers[p])
  BY <1>2 DEF SearchInit, FlushStands, RebuildStands
<1> QED
  BY <1>4, <1>5, <1>6, <1>7 DEF SearchInv, InTurnIndexed

\* A step keeps the invariant and never takes the document back.
NotBack == document'.profile >= document.profile /\ document'.media >= document.media
           /\ document'.revision >= document.revision

LEMMA SearchSteps == SearchInv /\ SearchNext => SearchInv' /\ NotBack
<1> SUFFICES ASSUME SearchInv, SearchNext PROVE SearchInv' /\ NotBack
  OBVIOUS
<1>1. ASSUME UNCHANGED document PROVE NotBack
  BY <1>1, SearchTypes DEF NotBack, SourceRow, Revisions
<1>2. CASE \E kind \in {"profile", "media"} : Change(kind)
  BY <1>1, <1>2, ChangeSteps
<1>3. CASE RebuildProjection \/ \E e \in sent : ApplyProfessional(e) \/ ApplyMedia(e)
  <2>1. PICK d \in SourceRow : Forward(d) /\ Accepted(d)
    BY <1>3, ApplySteps
  <2> QED
    BY <2>1, AcceptedSteps DEF Forward, NotBack
<1>4. CASE \E p \in Pushers : FlushRead(p) \/ FlushStep(p)
  BY <1>1, <1>4, FlushSteps
<1>5. CASE \E p \in Pushers : ReindexStart(p) \/ ReindexStep(p)
  BY <1>1, <1>5, RebuildSteps
<1> QED
  BY <1>2, <1>3, <1>4, <1>5 DEF SearchNext

\* Searches answer with what the platform knows (SearchAgrees), for any number of pushes,
\* moderators and redelivered events: a clean document is the one the engine holds, the
\* counters count the published reviews, and no event takes the document back.
THEOREM SearchFollows == PlatformSpec => SearchAgrees
<1>1. Init => RatingsInv /\ SearchInv
  BY RatingsBegin, SearchBegins DEF Init
<1>2. [Next]_vars => [SearchNext]_searchVars /\ [ReviewsNext]_reviewVars
  BY DEF Next, vars
<1>3. ASSUME SearchInv, UNCHANGED searchVars PROVE SearchInv'
  BY <1>3 DEF SearchInv, SearchTypeOK, RevisionsOrdered, PushersBusy, InTurnIndexed, Pushing, FlushStands,
              RebuildStands, ContentOf, searchVars
<1>4. RatingsInv /\ SearchInv /\ [Next]_vars => (RatingsInv /\ SearchInv)'
  BY <1>2, <1>3, SearchSteps, ReviewsFollow
<1>5. SearchInv /\ [Next]_vars =>
        [document'.profile >= document.profile /\ document'.media >= document.media
         /\ document'.revision >= document.revision]_searchVars
  BY <1>2, SearchSteps DEF NotBack
<1>6. RatingsInv /\ SearchInv => SearchTypeOK /\ CleanIsIndexed /\ ReviewsTypeOK /\ RatingsAgree
  BY ReviewsFollow DEF SearchInv, InTurnIndexed, CleanIsIndexed
<1> QED
  BY <1>1, <1>4, <1>5, <1>6, PTL DEF PlatformSpec, SearchAgrees, NeverBackwards
==============================================================================
