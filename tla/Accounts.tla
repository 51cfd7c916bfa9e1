------------------------------ MODULE Accounts ------------------------------
(***************************************************************************)
(* The accounts of one organization, from its sign-up to the deletion of   *)
(* its users, under the handlers of OrganizationService, AuthService and   *)
(* TokenService. Nothing here runs in a transaction: a handler that writes *)
(* twice may stop after the first write. Handlers otherwise run one at a   *)
(* time, each to its end.                                                  *)
(*                                                                         *)
(* Abstracted: an account is known by its email, which stays; passwords and*)
(* profile fields are left out, and with them the handlers that write      *)
(* nothing else. Whether a code that is offered is the right one is a      *)
(* choice. Every role but OrganizationAdmin is "user". A SuperAdmin of     *)
(* another organization is always there to act. logout revokes nothing:    *)
(* it passes req.user.id, which JwtStrategy does not set.                  *)
(*                                                                         *)
(* Bounds: MaxSessions refresh tokens an account holds at a time.          *)
(***************************************************************************)
EXTENDS Integers, FiniteSets

CONSTANTS
  Emails,
  OrgEmail,     \* the address the organization signs up with
  MaxTries,     \* MAX_OTP_ATTEMPTS
  MaxSessions

ASSUME AccountsAssumption ==
  /\ IsFiniteSet(Emails) /\ OrgEmail \in Emails
  /\ MaxTries \in Nat \ {0} /\ MaxSessions \in Nat \ {0}

VARIABLES
  org,       \* the organizations row and its email_verification_tokens row
  users,     \* users[e]: the user row of that address
  sessions,  \* sessions[e]: how many live refresh tokens login has given out
  unsent     \* whose live refresh tokens were made by register and given to nobody

accountVars == <<org, users, sessions, unsent>>

Roles == {"OrganizationAdmin", "user"}

\* A code that was mailed, and is good until its expiry.
Codes == {"none", "live", "expired"}

OrgRow == [signedUp: BOOLEAN, emailVerified: BOOLEAN, code: Codes, attemptCount: 0..MaxTries]

\* `role` is the relation (role_id), `role_guid` what JwtStrategy goes by.
UserRow == [exists: BOOLEAN, is_email_verified: BOOLEAN, is_active: BOOLEAN, is_deleted: BOOLEAN,
            role: Roles, role_guid: Roles, code: Codes]

NoUser == [exists |-> FALSE, is_email_verified |-> FALSE, is_active |-> FALSE, is_deleted |-> FALSE,
           role |-> "user", role_guid |-> "user", code |-> "none"]

AccountsTypeOK ==
  /\ org \in OrgRow
  /\ users \in [Emails -> UserRow]
  /\ sessions \in [Emails -> 0..MaxSessions]
  /\ unsent \subseteq Emails

AccountsInit ==
  /\ org = [signedUp |-> FALSE, emailVerified |-> FALSE, code |-> "none", attemptCount |-> 0]
  /\ users = [e \in Emails |-> NoUser]
  /\ sessions = [e \in Emails |-> 0]
  /\ unsent = {}

-----------------------------------------------------------------------------
(* The organization signs up.                                              *)

\* register, again while the address is unverified, and resendOtp: the codes sent
\* before are deleted, so there is one and its attempts start over, or none when the
\* handler stops before it saves the new one.
SendOrgCode ==
  /\ ~org.emailVerified
  /\ \E code \in {"none", "live"} :
       org' = [org EXCEPT !.signedUp = TRUE, !.code = code, !.attemptCount = 0]
  /\ UNCHANGED <<users, sessions, unsent>>

OrgCodeExpires ==
  /\ org.code = "live"
  /\ org' = [org EXCEPT !.code = "expired"]
  /\ UNCHANGED <<users, sessions, unsent>>

\* Mutant: the last attempt does not count.
CanTryOrgCode_Once == org.signedUp /\ ~org.emailVerified /\ org.code = "live" /\ org.attemptCount <= MaxTries

CanTryOrgCode == org.signedUp /\ ~org.emailVerified /\ org.code = "live" /\ org.attemptCount < MaxTries

OrgVerifyFails ==
  /\ CanTryOrgCode
  /\ org' = [org EXCEPT !.attemptCount = @ + 1]
  /\ UNCHANGED <<users, sessions, unsent>>

\* createOrgAdmin, whose row is verified and active at once.
FirstAdmin == [NoUser EXCEPT !.exists = TRUE, !.is_email_verified = TRUE, !.is_active = TRUE,
                             !.role = "OrganizationAdmin", !.role_guid = "OrganizationAdmin"]

\* verifyEmail saves the organization before it creates the admin and may stop in
\* between, when a second call answers that all is well; a user row that has the
\* address already is left as it is.
VerifyOrgEmail ==
  /\ CanTryOrgCode
  /\ org' = [org EXCEPT !.emailVerified = TRUE]
  /\ \/ users' = IF users[OrgEmail].exists THEN users ELSE [users EXCEPT ![OrgEmail] = FirstAdmin]
     \/ UNCHANGED users
  /\ UNCHANGED <<sessions, unsent>>

-----------------------------------------------------------------------------
(* Accounts come to life.                                                  *)

\* RolesGuard on OrganizationAdmin, by role_guid; the account is not deleted.
ActsAsAdmin(e) == users[e].exists /\ ~users[e].is_deleted /\ users[e].role_guid = "OrganizationAdmin"

CanRegister(e) == /\ org.emailVerified
                  /\ \E a \in Emails : ActsAsAdmin(a)
                  /\ ~users[e].is_email_verified

\* register of a new address, or of an unverified one whose relation to the old
\* role stays and which keeps whether it is deleted; the tokens it makes are not
\* in the answer, and a failure may come before they are made.
Register(e, role) ==
  /\ CanRegister(e)
  /\ users' = [users EXCEPT ![e] =
                 [exists |-> TRUE, is_email_verified |-> FALSE, is_active |-> FALSE,
                  is_deleted |-> users[e].is_deleted,
                  role |-> IF users[e].exists THEN users[e].role ELSE role,
                  role_guid |-> role, code |-> "live"]]
  /\ unsent' \in {unsent, unsent \cup {e}}
  /\ UNCHANGED <<org, sessions>>

\* resendVerificationCode and resendVerificationMail, whatever the account is.
ResendCode(e) ==
  /\ users[e].exists
  /\ users' = [users EXCEPT ![e].code = "live"]
  /\ UNCHANGED <<org, sessions, unsent>>

CodeExpires(e) ==
  /\ users[e].code = "live"
  /\ users' = [users EXCEPT ![e].code = "expired"]
  /\ UNCHANGED <<org, sessions, unsent>>

\* verifyEmail, of a deleted account too.
VerifyEmail(e) ==
  /\ users[e].exists
  /\ ~users[e].is_email_verified
  /\ users[e].code = "live"
  /\ users' = [users EXCEPT ![e].is_email_verified = TRUE, ![e].is_active = TRUE, ![e].code = "none"]
  /\ UNCHANGED <<org, sessions, unsent>>

-----------------------------------------------------------------------------
(* Accounts in use.                                                        *)

\* Mutant: an active account need not be verified.
MaySignIn_Active(e) == users[e].exists /\ users[e].is_active

MaySignIn(e) == users[e].exists /\ users[e].is_active /\ users[e].is_email_verified

Login(e) ==
  /\ MaySignIn(e)
  /\ sessions[e] < MaxSessions
  /\ sessions' = [sessions EXCEPT ![e] = @ + 1]
  /\ UNCHANGED <<org, users, unsent>>

SessionExpires(e) ==
  /\ \/ sessions[e] > 0 /\ sessions' = [sessions EXCEPT ![e] = @ - 1] /\ UNCHANGED unsent
     \/ e \in unsent /\ unsent' = unsent \ {e} /\ UNCHANGED sessions
  /\ UNCHANGED <<org, users>>

\* revokeAllUserRefreshTokens, or the handler stopped before it.
RevokeAll(e) ==
  \/ sessions' = [sessions EXCEPT ![e] = 0] /\ unsent' = unsent \ {e}
  \/ UNCHANGED <<sessions, unsent>>

\* updateUser with a role: the relation and the guid are set together.
ChangeRole(e, role) ==
  /\ users[e].exists /\ ~users[e].is_deleted
  /\ users' = [users EXCEPT ![e].role = role, ![e].role_guid = role]
  /\ UNCHANGED <<org, sessions, unsent>>

ToggleStatus(e, isActive) ==
  /\ users[e].exists /\ ~users[e].is_deleted
  /\ users' = [users EXCEPT ![e].is_active = isActive]
  /\ UNCHANGED <<org, sessions, unsent>>

\* adminResetPassword, of which only the sessions it ends show here.
AdminResetPassword(e) ==
  /\ users[e].exists /\ ~users[e].is_deleted /\ users[e].is_active /\ users[e].is_email_verified
  /\ RevokeAll(e)
  /\ UNCHANGED <<org, users>>

\* Those deleteUser counts: by relation, not by guid.
ActiveAdmins == {e \in Emails : /\ users[e].exists /\ ~users[e].is_deleted
                                /\ users[e].is_active /\ users[e].role = "OrganizationAdmin"}

\* Mutant: the account to be deleted is counted with the others.
CanDelete_Counted(e) ==
  /\ users[e].exists /\ ~users[e].is_deleted
  /\ users[e].role = "OrganizationAdmin" => ActiveAdmins # {}

\* deleteUser by a SuperAdmin or another administrator.
CanDelete(e) ==
  /\ users[e].exists /\ ~users[e].is_deleted
  /\ users[e].role = "OrganizationAdmin" => ActiveAdmins \ {e} # {}

DeleteUser(e) ==
  /\ CanDelete(e)
  /\ users' = [users EXCEPT ![e].is_active = FALSE, ![e].is_deleted = TRUE]
  /\ RevokeAll(e)
  /\ UNCHANGED org

-----------------------------------------------------------------------------
SignUpStep == SendOrgCode \/ OrgCodeExpires \/ OrgVerifyFails \/ VerifyOrgEmail

AccountStep(e) ==
  \/ \E role \in Roles : Register(e, role)
  \/ ResendCode(e)
  \/ CodeExpires(e)
  \/ VerifyEmail(e)
  \/ Login(e)
  \/ SessionExpires(e)

AdministrationStep(e) ==
  \/ \E role \in Roles : ChangeRole(e, role)
  \/ \E isActive \in BOOLEAN : ToggleStatus(e, isActive)
  \/ AdminResetPassword(e)
  \/ DeleteUser(e)

AccountsNext == SignUpStep \/ \E e \in Emails : AccountStep(e) \/ AdministrationStep(e)

AccountsSpec == AccountsInit /\ [][AccountsNext]_accountVars

-----------------------------------------------------------------------------
(* Properties.                                                             *)

\* Whoever holds a session has a verified address, however often the address
\* was registered, verified, deactivated or deleted since the session began.
SignedInIsVerified ==
  \A e \in Emails : sessions[e] > 0 => users[e].exists /\ users[e].is_email_verified

\* A deletion never takes the last active administrator away: an administrator
\* who goes leaves another one behind who is active.
DeletionLeavesAdmin ==
  [][\A e \in Emails :
       users[e].role = "OrganizationAdmin" /\ ~users[e].is_deleted /\ users'[e].is_deleted
         => ActiveAdmins' # {}]_accountVars

=============================================================================
