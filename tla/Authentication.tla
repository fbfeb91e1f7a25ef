--------------------------- MODULE Authentication ---------------------------
(***************************************************************************)
(* The login and the password change of a connection: the commands AUTH,   *)
(* MECH and PASSWD of MainProtocolHandler, the two protocol handlers they  *)
(* delegate to, StandardAuthenticator and the slices of the authentication *)
(* units it is configured with.                                            *)
(*                                                                         *)
(* A message is one unit here; how messages are cut out of the bytes of    *)
(* the network is module EscDlf's matter. Hashes and encryption are        *)
(* represented by who can compute them: a client can answer a challenge    *)
(* with the passwords it knows and can repeat any answer that was ever     *)
(* given to an earlier challenge.                                          *)
(***************************************************************************)
EXTENDS Integers

CONSTANTS
    Configurations, \* the lists of authentication units to try: sequences of records [id, kind]
    Units, Names, Passwords,
    Known,          \* the passwords the client knows
    NoUser,
    MaxDialogues,   \* bound on the dialogues of a connection
    MaxChanges      \* bound on the changes of the accounts

Kinds == {"textfile", "database", "pam", "sasl"}

ASSUME ConfigurationsAssumption ==
    \A c \in Configurations : \A i \in DOMAIN c : i \in Nat /\ c[i] \in [id : Units, kind : Kinds]
ASSUME KnownAssumption == Known \subseteq Passwords
ASSUME BoundsAssumption == MaxDialogues \in Nat /\ MaxChanges \in Nat

Accounts == [unit : Units, name : Names, pwd : Passwords]
Users == [unit : Units, mech : {"WOLFRAME-CRAM", "WOLFRAME-PAM"}, name : Names]
ASSUME NoUserAssumption == NoUser \notin Accounts \cup Users \cup Names

VARIABLES
    units,          \* AuthenticationFactory::m_authUnits
    accounts,       \* the password files and the accounts of the operating system
    changes,
    seen,           \* the accounts there were at some time in the present dialogue
    dialogue,       \* the number of the present dialogue
    m_stateidx,     \* MainSTM::State, "Terminated" when the connection is closed
    delegate,       \* the handler that has been delegated to: "none", "auth" or "passwd"
    m_status,       \* StandardAuthenticator::m_status
    slice,          \* the current one of m_slices; the others are never called
    m_user,         \* StandardAuthenticator::m_user
    ctxuser,        \* ExecContext::m_user
    changer         \* the TextFilePwdChanger

accountVars == <<units, accounts, changes>>
authVars == <<m_status, slice, m_user>>
vars == <<accountVars, seen, dialogue, m_stateidx, delegate, authVars, ctxuser, changer>>

\* Slices of all kinds as one record: usr is the account the text file unit has
\* found, login the name given to PAM; a challenge is identified by its dialogue.
NoSlice == [unit |-> NoUser, kind |-> "none", state |-> "none", usr |-> NoUser, login |-> NoUser,
            fake |-> FALSE, last |-> FALSE, challenge |-> 0]
NoChanger == [state |-> "none", usr |-> NoUser, challenge |-> 0]

\* An account has one password.
Consistent(accs) == \A a, b \in accs : a.unit = b.unit /\ a.name = b.name => a = b

Init ==
    /\ units \in Configurations
    /\ accounts \in {a \in SUBSET Accounts : Consistent(a)}
    /\ changes = 0
    /\ seen = {}
    /\ dialogue = 0
    /\ m_stateidx = "Unauthenticated"
    /\ delegate = "none"
    /\ m_status = "INITIALIZED"
    /\ slice = NoSlice
    /\ m_user = NoUser
    /\ ctxuser = NoUser
    /\ changer = NoChanger

-----------------------------------------------------------------------------
(* What a client can send *)

\* The answers to the challenges of this and of earlier dialogues; number 0 stands
\* for no challenge, the password itself.
Responses ==
    [challenge : 0..dialogue, pwd : Known] \cup [challenge : 1..(dialogue - 1), pwd : Passwords]

-----------------------------------------------------------------------------
(* The slices *)

UnitMech == [textfile |-> "WOLFRAME-CRAM", database |-> "WOLFRAME-CRAM",
             pam |-> "WOLFRAME-PAM", sasl |-> "WOLFRAME-SASL"]

\* AuthenticationUnit::slice() returns a slice: the PAM and the SASL unit for every
\* mechanism, the database unit for none.
HasSlice(kind, mech) == kind \in {"pam", "sasl"} \/ (kind = "textfile" /\ mech = "WOLFRAME-CRAM")

\* AuthenticatorSlice::status()
SliceStatus(s) ==
    CASE s.state \in {"INITIALIZED", "CHALLENGE_SENT", "WAITING_FOR_PWD"} -> "AWAITING_MESSAGE"
      [] s.state \in {"USER_FOUND", "ASK_FOR_PASSWORD"} -> "MESSAGE_AVAILABLE"
      [] OTHER -> s.state

\* TextFileAuthSlice::messageIn(), first message: the user whose name is hashed in
\* it is looked up in the file. The last slice goes on with a fake user. The file
\* may be unreadable and the hash malformed. (These operators give the set of what
\* the slice may become.)
TextFileName(s, name) ==
    LET found == {a \in accounts : a.unit = s.unit /\ a.name = name}
        unknown == IF s.last THEN [s EXCEPT !.state = "USER_FOUND", !.fake = TRUE]
                   ELSE [s EXCEPT !.state = "USER_NOT_FOUND"]
    IN {[s EXCEPT !.state = "USER_FOUND", !.usr = a] : a \in found}
       \cup (IF found = {} THEN {unknown} ELSE {})
       \cup {[s EXCEPT !.state = "SYSTEM_FAILURE"]}

\* Second message: the response to the challenge.
TextFileResponse_anyChallenge(s, msg) ==
    {[s EXCEPT !.state = IF ~s.fake /\ msg.pwd = s.usr.pwd THEN "AUTHENTICATED" ELSE "INVALID_CREDENTIALS"]}
TextFileResponse_asksAgain(s, msg) ==
    {[s EXCEPT !.state = IF ~s.fake /\ msg = [challenge |-> s.challenge, pwd |-> s.usr.pwd]
                         THEN "AUTHENTICATED" ELSE "CHALLENGE_SENT"]}
TextFileResponse(s, msg) ==
    {[s EXCEPT !.state = IF ~s.fake /\ msg = [challenge |-> s.challenge, pwd |-> s.usr.pwd]
                         THEN "AUTHENTICATED" ELSE "INVALID_CREDENTIALS"]}

\* PAMAuthSlice::messageIn(): pam_start() with the name, then pam_authenticate() and
\* pam_acct_mgmt() with the password, each of which may fail.
PAMName(s, name) ==
    {[s EXCEPT !.state = "ASK_FOR_PASSWORD", !.login = name], [s EXCEPT !.state = "SYSTEM_FAILURE"]}

PAMPassword(s, msg) ==
    LET account == {a \in accounts : a.unit = s.unit /\ a.name = s.login}
        result == IF account = {} THEN "USER_NOT_FOUND"
                  ELSE IF \E a \in account : msg = [challenge |-> 0, pwd |-> a.pwd] THEN "AUTHENTICATED"
                  ELSE "INVALID_CREDENTIALS"
    IN {[s EXCEPT !.state = result], [s EXCEPT !.state = "SYSTEM_FAILURE"]}

\* messageOut(): the challenge or the question for the password.
SliceMessageOut(s) ==
    IF s.kind = "textfile" THEN [s EXCEPT !.state = "CHALLENGE_SENT", !.challenge = dialogue]
    ELSE [s EXCEPT !.state = "WAITING_FOR_PWD"]

\* AuthenticatorSlice::user(). The PAM unit asks PAM for the name (PAM_USER), which a
\* PAM module may have changed during the authentication; here it is the login.
SliceUser_login(s) ==
    [unit |-> s.unit, mech |-> UnitMech[s.kind], name |-> s.login]
SliceUser(s) ==
    [unit |-> s.unit, mech |-> UnitMech[s.kind], name |-> IF s.kind = "textfile" THEN s.usr.name ELSE s.login]

-----------------------------------------------------------------------------
(* StandardAuthenticator *)

\* The authenticator after its slice has become s: the end of messageIn() and of
\* messageOut(). Slices are disposed when the dialogue is decided. The branch for a
\* slice that is AUTHENTICATED and has no user, which keeps the slices and the status
\* as they were, is left out: only a PAM module that leaves PAM_USER empty leads there.
Settle_statusKept(s) ==
    LET st == SliceStatus(s)
    IN CASE st \in {"MESSAGE_AVAILABLE", "AWAITING_MESSAGE"} -> slice' = s /\ UNCHANGED <<m_status, m_user>>
         [] st = "SYSTEM_FAILURE" -> m_status' = st /\ slice' = s /\ UNCHANGED m_user
         [] st = "AUTHENTICATED" -> m_status' = st /\ slice' = NoSlice /\ m_user' = SliceUser(s)
         [] OTHER -> m_status' = "INVALID_CREDENTIALS" /\ slice' = NoSlice /\ UNCHANGED m_user
Settle(s) ==
    LET st == SliceStatus(s)
    IN CASE st \in {"MESSAGE_AVAILABLE", "AWAITING_MESSAGE", "SYSTEM_FAILURE"} ->
              m_status' = st /\ slice' = s /\ UNCHANGED m_user
         [] st = "AUTHENTICATED" ->
              m_status' = st /\ slice' = NoSlice /\ m_user' = SliceUser(s)
         [] OTHER ->
              m_status' = "INVALID_CREDENTIALS" /\ slice' = NoSlice /\ UNCHANGED m_user

\* The units that give a slice for a mechanism that one of them has announced.
Offering(mech) ==
    IF \E i \in DOMAIN units : UnitMech[units[i].kind] = mech
    THEN {i \in DOMAIN units : HasSlice(units[i].kind, mech)} ELSE {}

\* setMech(): all data is reset; the first slice is used, and told when it is alone.
SetMech_lastNotTold(mech) ==
    \E i \in Offering(mech) :
        /\ \A j \in Offering(mech) : i <= j
        /\ m_user' = NoUser
        /\ slice' = [NoSlice EXCEPT !.unit = units[i].id, !.kind = units[i].kind,
                                    !.state = IF units[i].kind = "sasl" THEN "SYSTEM_FAILURE" ELSE "INITIALIZED"]
        /\ m_status' = SliceStatus(slice')
SetMech(mech) ==
    \E i \in Offering(mech) :
        /\ \A j \in Offering(mech) : i <= j
        /\ m_user' = NoUser
        /\ slice' = [NoSlice EXCEPT !.unit = units[i].id, !.kind = units[i].kind,
                                    !.state = IF units[i].kind = "sasl" THEN "SYSTEM_FAILURE" ELSE "INITIALIZED",
                                    !.last = (units[i].kind = "textfile" /\ Offering(mech) = {i})]
        /\ m_status' = SliceStatus(slice')

-----------------------------------------------------------------------------
(* The commands *)

Command(states) == delegate = "none" /\ m_stateidx \in states

\* 'ERR AUTH denied' is not reachable: AuthenticationFactory::authenticator() always
\* makes an authenticator.
DoAuth ==
    /\ Command({"Unauthenticated", "Authenticated", "Authenticated_passwd"})
    /\ m_stateidx' = "Authentication"
    /\ UNCHANGED <<accountVars, seen, dialogue, delegate, authVars, ctxuser, changer>>

DoMechNone ==
    /\ Command({"Authentication"})
    /\ m_stateidx' = "Authenticated"
    /\ UNCHANGED <<accountVars, seen, dialogue, delegate, authVars, ctxuser, changer>>

DoMechDenied(mech) ==
    /\ Command({"Authentication"})
    /\ Offering(mech) = {}
    /\ m_status' = "MECH_UNAVAILABLE" /\ slice' = NoSlice /\ m_user' = NoUser
    /\ UNCHANGED <<accountVars, seen, dialogue, m_stateidx, delegate, ctxuser, changer>>

DoMech(mech) ==
    /\ Command({"Authentication"})
    /\ dialogue < MaxDialogues
    /\ SetMech(mech)
    /\ delegate' = "auth"
    /\ dialogue' = dialogue + 1
    /\ seen' = accounts
    /\ UNCHANGED <<accountVars, m_stateidx, ctxuser, changer>>

\* passwordChanger(): a text file unit with the identifier of the unit that has
\* authenticated the user, and TextFilePwdChanger's constructor. There is none for
\* the users of other units.
ChangerUnits_anyUnit == {u.id : u \in {units[i] : i \in DOMAIN units}}
ChangerUnits ==
    {u.id : u \in {units[i] : i \in {j \in DOMAIN units :
        units[j].kind = "textfile" /\ units[j].id = ctxuser.unit /\ ctxuser.mech = "WOLFRAME-CRAM"}}}

DoPasswdDenied ==
    /\ Command({"Authenticated_passwd"})
    /\ ChangerUnits = {}
    /\ UNCHANGED vars

DoPasswd ==
    /\ Command({"Authenticated_passwd"})
    /\ dialogue < MaxDialogues
    /\ \E id \in ChangerUnits :
        LET found == {a \in accounts : a.unit = id /\ a.name = ctxuser.name}
        IN \/ \E a \in found : changer' = [NoChanger EXCEPT !.state = "INITIALIZED", !.usr = a]
           \/ found = {} /\ changer' = [NoChanger EXCEPT !.state = "SYSTEM_FAILURE"]
    /\ delegate' = "passwd"
    /\ dialogue' = dialogue + 1
    /\ seen' = accounts
    /\ UNCHANGED <<accountVars, m_stateidx, authVars, ctxuser>>

\* The password file cannot be read: the exception ends the connection.
DoPasswdThrows ==
    /\ Command({"Authenticated_passwd"})
    /\ ChangerUnits # {}
    /\ m_stateidx' = "Terminated"
    /\ UNCHANGED <<accountVars, seen, dialogue, delegate, authVars, ctxuser, changer>>

DoQuit ==
    /\ Command({"Unauthenticated", "Authentication", "Authenticated", "Authenticated_passwd"})
    /\ m_stateidx' = "Terminated"
    /\ UNCHANGED <<accountVars, seen, dialogue, delegate, authVars, ctxuser, changer>>

-----------------------------------------------------------------------------
(* AuthProtocolHandler *)

AuthWrites ==
    /\ delegate = "auth"
    /\ m_status = "MESSAGE_AVAILABLE"
    /\ Settle(SliceMessageOut(slice))
    /\ UNCHANGED <<accountVars, seen, dialogue, m_stateidx, delegate, ctxuser, changer>>

\* consumeNextMessage() has a message and messageIn() is called.
AuthReads ==
    /\ delegate = "auth"
    /\ m_status = "AWAITING_MESSAGE"
    /\ \/ \E name \in Names :
            /\ slice.state = "INITIALIZED"
            /\ \E s \in (IF slice.kind = "textfile" THEN TextFileName(slice, name) ELSE PAMName(slice, name)) :
                  Settle(s)
       \/ \E msg \in Responses :
            /\ slice.state # "INITIALIZED"
            /\ \E s \in (IF slice.kind = "textfile" THEN TextFileResponse(slice, msg) ELSE PAMPassword(slice, msg)) :
                  Settle(s)
    /\ UNCHANGED <<accountVars, seen, dialogue, m_stateidx, delegate, ctxuser, changer>>

\* The handler closes with an error unless the user is authenticated: endMech().
MechFailed ==
    /\ delegate = "auth"
    /\ m_status \in {"INVALID_CREDENTIALS", "MECH_UNAVAILABLE", "SYSTEM_FAILURE"}
    /\ delegate' = "none"
    /\ m_stateidx' = "Unauthenticated"
    /\ UNCHANGED <<accountVars, seen, dialogue, authVars, ctxuser, changer>>

\* The user is moved to the execution context. PASSWD is for users with the
\* authorization on sockets with the capability.
EndMech_copiesUser ==
    /\ delegate = "auth"
    /\ m_status = "AUTHENTICATED"
    /\ delegate' = "none"
    /\ ctxuser' = m_user
    /\ m_stateidx' \in {"Authenticated", "Authenticated_passwd"}
    /\ UNCHANGED <<accountVars, seen, dialogue, authVars, changer>>
EndMech ==
    /\ delegate = "auth"
    /\ m_status = "AUTHENTICATED"
    /\ delegate' = "none"
    /\ IF m_user = NoUser
       THEN m_stateidx' = "Unauthenticated" /\ UNCHANGED ctxuser
       ELSE m_stateidx' \in {"Authenticated", "Authenticated_passwd"} /\ ctxuser' = m_user
    /\ m_user' = NoUser
    /\ UNCHANGED <<accountVars, seen, dialogue, m_status, slice, changer>>

-----------------------------------------------------------------------------
(* PasswordChangeProtocolHandler and TextFilePwdChanger *)

PasswdWrites ==
    /\ delegate = "passwd"
    /\ changer.state = "INITIALIZED"
    /\ changer' = [changer EXCEPT !.state = "CHALLENGE_SENT", !.challenge = dialogue]
    /\ UNCHANGED <<accountVars, seen, dialogue, m_stateidx, delegate, authVars, ctxuser>>

\* The new password is encrypted with the response to the challenge.
PasswdReads ==
    /\ delegate = "passwd"
    /\ changer.state = "CHALLENGE_SENT"
    /\ \E msg \in Responses :
        changer' = [changer EXCEPT !.state =
                       IF msg = [challenge |-> changer.challenge, pwd |-> changer.usr.pwd]
                       THEN "PASSWORD_EXCHANGED" ELSE "INVALID_MESSAGE"]
    /\ UNCHANGED <<accountVars, seen, dialogue, m_stateidx, delegate, authVars, ctxuser>>

\* The handler closes: endPasswordChange(). Nothing is done with the new password.
EndPasswd ==
    /\ delegate = "passwd"
    /\ changer.state \in {"PASSWORD_EXCHANGED", "INVALID_MESSAGE", "SYSTEM_FAILURE"}
    /\ delegate' = "none"
    /\ changer' = NoChanger
    /\ UNCHANGED <<accountVars, seen, dialogue, m_stateidx, authVars, ctxuser>>

-----------------------------------------------------------------------------
\* The administrator adds, removes or changes an account at any time.
ChangeAccounts ==
    /\ changes < MaxChanges
    /\ \E u \in Units, name \in Names :
        LET others == {a \in accounts : ~(a.unit = u /\ a.name = name)}
        IN \/ accounts' = others
           \/ \E p \in Passwords : accounts' = others \cup {[unit |-> u, name |-> name, pwd |-> p]}
    /\ changes' = changes + 1
    /\ seen' = seen \cup accounts'
    /\ UNCHANGED <<units, dialogue, m_stateidx, delegate, authVars, ctxuser, changer>>

Finished == m_stateidx = "Terminated" /\ UNCHANGED vars

Mechs == {UnitMech[k] : k \in Kinds}

Dialogue == AuthWrites \/ AuthReads \/ MechFailed \/ EndMech \/ PasswdWrites \/ PasswdReads \/ EndPasswd

Next ==
    \/ DoAuth \/ DoMechNone \/ (\E mech \in Mechs : DoMechDenied(mech) \/ DoMech(mech))
    \/ DoPasswd \/ DoPasswdDenied \/ DoPasswdThrows \/ DoQuit
    \/ Dialogue \/ ChangeAccounts \/ Finished

Spec == Init /\ [][Next]_vars

\* The client answers when it is asked, and the connection calls nextOperation()
\* after every operation.
FairSpec == Spec /\ WF_vars(Dialogue)

-----------------------------------------------------------------------------
(* Properties *)

SliceStates ==
    {"INITIALIZED", "USER_FOUND", "USER_NOT_FOUND", "CHALLENGE_SENT", "INVALID_CREDENTIALS", "AUTHENTICATED",
     "SYSTEM_FAILURE", "ASK_FOR_PASSWORD", "WAITING_FOR_PWD"}
Statuses ==
    {"INITIALIZED", "MESSAGE_AVAILABLE", "AWAITING_MESSAGE", "AUTHENTICATED", "INVALID_CREDENTIALS",
     "MECH_UNAVAILABLE", "SYSTEM_FAILURE"}
ChangerStates == {"INITIALIZED", "CHALLENGE_SENT", "INVALID_MESSAGE", "PASSWORD_EXCHANGED", "SYSTEM_FAILURE"}
Slices ==
    [unit : Units, kind : {"textfile", "pam", "sasl"}, state : SliceStates,
     usr : Accounts \cup {NoUser}, login : Names \cup {NoUser}, fake : BOOLEAN, last : BOOLEAN, challenge : Nat]
Changers == [state : ChangerStates, usr : Accounts \cup {NoUser}, challenge : Nat]

\* The states, statuses and users are what the code declares.
TypeOK ==
    /\ units \in Configurations
    /\ accounts \in SUBSET Accounts /\ seen \in SUBSET Accounts
    /\ changes \in 0..MaxChanges /\ dialogue \in 0..MaxDialogues
    /\ m_stateidx \in {"Unauthenticated", "Authentication", "Authenticated", "Authenticated_passwd", "Terminated"}
    /\ delegate \in {"none", "auth", "passwd"}
    /\ m_status \in Statuses
    /\ slice \in Slices \cup {NoSlice}
    /\ m_user \in Users \cup {NoUser} /\ ctxuser \in Users \cup {NoUser}
    /\ changer \in Changers \cup {NoChanger}

\* A user becomes the user of the connection only when the client knows a password
\* that the user's account at that unit has had during the dialogue: not with
\* answers repeated from earlier dialogues, not with the password of the same name
\* at another unit, not with one that was taken away before (messageIn(), user()).
LoginProved ==
    [][ctxuser' # ctxuser =>
         \E p \in Known : [unit |-> ctxuser'.unit, name |-> ctxuser'.name, pwd |-> p] \in seen]_vars

\* What the authenticator tells its handler is what its slice is ready for, so that
\* neither messageIn() nor messageOut() meets a slice in the wrong state (each throws
\* std::logic_error then), and a handler is never left without one.
StatusFollowsSlice ==
    delegate = "auth" /\ m_status \in {"MESSAGE_AVAILABLE", "AWAITING_MESSAGE", "INITIALIZED"} =>
        slice # NoSlice /\ SliceStatus(slice) = m_status

\* A user is in the authenticator only until the end of the dialogue that has
\* authenticated it, so that no later dialogue ends with the user of an earlier one;
\* a dialogue that ends well has a user, with its slices gone (user() asserts it);
\* and PASSWD is a command only of connections with a user, as doPasswordChange()
\* follows the pointer to it without a check (ExecContext::passwordChanger()).
UsersInPlace ==
    /\ m_user # NoUser <=> delegate = "auth" /\ m_status = "AUTHENTICATED"
    /\ m_user # NoUser => slice = NoSlice
    /\ m_stateidx = "Authenticated_passwd" => ctxuser # NoUser

\* A password is changed only for the connection's own account, by a client that
\* knows the present password of it (TextFilePwdChanger).
ChangeProved ==
    changer.state = "PASSWORD_EXCHANGED" =>
        /\ changer.usr.unit = ctxuser.unit /\ changer.usr.name = ctxuser.name
        /\ changer.usr.pwd \in Known /\ changer.usr \in seen

\* With one unit for the mechanism, a client is refused only after it has answered a
\* challenge, whether the name it has given is known or not (lastSlice()). This is
\* about the refusal only: the salt made up for an unknown name is a new one in every
\* dialogue, that of a user is not (TextFileAuth.cpp:277-283).
NamesNotTold ==
    [][delegate = "auth" /\ slice.kind = "textfile" /\ slice.state = "INITIALIZED"
         /\ (\E i \in DOMAIN units : Offering("WOLFRAME-CRAM") = {i})
         => m_status' # "INVALID_CREDENTIALS"]_vars

\* Every dialogue ends and leaves the connection to its commands again.
DialogueEnds == delegate # "none" ~> delegate = "none"
=============================================================================
