------------------------ MODULE Authentication_proofs ------------------------
(***************************************************************************)
(* Proofs about module Authentication, for every configuration of units,   *)
(* every set of accounts and of passwords the client knows, and any number *)
(* of dialogues and of changes by the administrator.                       *)
(*                                                                         *)
(* That a login is proved by a known password is not inductive: it rests   *)
(* on what the slice remembers of the account it has looked up and on the  *)
(* challenge being that of the present dialogue, which no earlier answer   *)
(* fits (SliceOK). The same for the password changer (ChangerOK).          *)
(***************************************************************************)
EXTENDS Authentication, TLAPS

\* The client knows a password that the account has had in this dialogue.
Proved(unit, name) == \E p \in Known : [unit |-> unit, name |-> name, pwd |-> p] \in seen

\* What holds of a slice while its dialogue goes on.
SliceOK(s) ==
    /\ s.kind = "textfile" => s.state \notin {"ASK_FOR_PASSWORD", "WAITING_FOR_PWD"}
    /\ s.kind = "pam" => s.state \notin {"USER_FOUND", "CHALLENGE_SENT"}
    /\ s.kind = "sasl" => s.state = "SYSTEM_FAILURE"
    /\ s.state \in {"USER_FOUND", "CHALLENGE_SENT"} /\ ~s.fake => s.usr \in seen /\ s.usr.unit = s.unit
    /\ s.state \in {"ASK_FOR_PASSWORD", "WAITING_FOR_PWD"} => s.login \in Names
    /\ s.state = "CHALLENGE_SENT" => s.challenge = dialogue

\* A text file unit that is alone for its mechanism was told so.
LastOK(s) ==
    s.kind = "textfile" /\ (\E i \in DOMAIN units : Offering("WOLFRAME-CRAM") = {i}) => s.last

AuthOK ==
    delegate = "auth" /\ slice # NoSlice =>
        slice \in Slices /\ SliceOK(slice) /\ LastOK(slice) /\ m_status = SliceStatus(slice)

\* A user of the authenticator is proved; accounts are seen while a dialogue goes on.
UserOK ==
    /\ m_user # NoUser => Proved(m_user.unit, m_user.name)
    /\ delegate # "none" => accounts \subseteq seen /\ dialogue > 0

ChangerOK ==
    /\ delegate # "passwd" => changer = NoChanger
    /\ delegate = "passwd" =>
          /\ m_stateidx = "Authenticated_passwd"
          /\ changer \in Changers
          /\ changer.state # "SYSTEM_FAILURE" =>
                /\ changer.usr \in seen
                /\ changer.usr.unit = ctxuser.unit /\ changer.usr.name = ctxuser.name
          /\ changer.state = "CHALLENGE_SENT" => changer.challenge = dialogue
          /\ changer.state = "PASSWORD_EXCHANGED" => changer.usr.pwd \in Known

IInv == TypeOK /\ StatusFollowsSlice /\ UsersInPlace /\ AuthOK /\ UserOK /\ ChangerOK

-----------------------------------------------------------------------------
(* Facts about the data *)

LEMMA NoSliceFacts ==
    /\ NoSlice.state = "none" /\ NoSlice.kind = "none" /\ NoSlice.challenge = 0
    /\ NoSlice \notin Slices
    /\ NoChanger.state = "none" /\ NoChanger \notin Changers
BY DEF NoSlice, NoChanger, Slices, Changers, SliceStates, ChangerStates

\* A response to the present challenge, or a password itself, is computed from a
\* known password.
LEMMA ResponseKnown ==
    ASSUME NEW msg \in Responses, dialogue \in Nat, msg.challenge \in {0, dialogue}
    PROVE  msg.pwd \in Known
BY DEF Responses

LEMMA InitInv == Init => IInv
<1> SUFFICES ASSUME Init PROVE IInv
  OBVIOUS
<1> USE NoSliceFacts
<1>1. TypeOK
  BY BoundsAssumption DEF Init, TypeOK, Statuses
<1>2. StatusFollowsSlice /\ UsersInPlace
  BY DEF Init, StatusFollowsSlice, UsersInPlace
<1>3. AuthOK /\ UserOK /\ ChangerOK
  BY DEF Init, AuthOK, UserOK, ChangerOK
<1> QED
  BY <1>1, <1>2, <1>3 DEF IInv

-----------------------------------------------------------------------------
(* The authenticator *)

\* The end of messageIn() and messageOut() keeps the invariant when the slice does.
LEMMA SettleInv ==
    ASSUME IInv, delegate = "auth", m_user = NoUser, NEW s \in Slices,
           SliceOK(s), LastOK(s), Settle(s),
           s.state = "AUTHENTICATED" => SliceUser(s) \in Users /\ Proved(SliceUser(s).unit, SliceUser(s).name),
           UNCHANGED <<accountVars, seen, dialogue, m_stateidx, delegate, ctxuser, changer>>
    PROVE  IInv'
<1> USE NoSliceFacts
<1>u. UNCHANGED <<units, accounts, changes, seen, dialogue, m_stateidx, delegate, ctxuser, changer>>
  BY DEF accountVars
<1>n. \A u \in Users : u # NoUser
  BY NoUserAssumption
<1>s. s.state \in SliceStates
  BY DEF Slices
<1>1. CASE SliceStatus(s) \in {"MESSAGE_AVAILABLE", "AWAITING_MESSAGE", "SYSTEM_FAILURE"}
  <2>1. m_status' = SliceStatus(s) /\ slice' = s /\ m_user' = NoUser
    BY <1>1 DEF Settle
  <2>2. TypeOK'
    BY <2>1, <1>1, <1>u DEF IInv, TypeOK, Statuses
  <2>3. StatusFollowsSlice' /\ UsersInPlace'
    BY <2>1, <1>1, <1>u DEF IInv, StatusFollowsSlice, UsersInPlace, SliceStatus
  <2>4. SliceOK(slice)' /\ LastOK(slice)' /\ (m_status = SliceStatus(slice))'
    BY <2>1, <1>u DEF SliceOK, LastOK, Offering, SliceStatus
  <2>5. UserOK' /\ ChangerOK'
    BY <2>1, <1>u DEF IInv, UserOK, ChangerOK
  <2>6. AuthOK'
    BY <2>1, <2>4 DEF AuthOK
  <2> QED
    BY <2>2, <2>3, <2>5, <2>6 DEF IInv
<1>2. CASE SliceStatus(s) = "AUTHENTICATED"
  <2>0. s.state = "AUTHENTICATED"
    BY <1>2, <1>s DEF SliceStatus, SliceStates
  <2>1. m_status' = "AUTHENTICATED" /\ slice' = NoSlice /\ m_user' = SliceUser(s)
    BY <1>2 DEF Settle
  <2>2. TypeOK'
    BY <2>0, <2>1, <1>u DEF IInv, TypeOK, Statuses
  <2>3. StatusFollowsSlice' /\ UsersInPlace'
    BY <2>0, <2>1, <1>u, <1>n DEF IInv, StatusFollowsSlice, UsersInPlace
  <2>4. AuthOK'
    BY <2>1 DEF AuthOK
  <2>5. UserOK' /\ ChangerOK'
    BY <2>0, <2>1, <1>u DEF IInv, UserOK, ChangerOK, Proved
  <2> QED
    BY <2>2, <2>3, <2>4, <2>5 DEF IInv
<1>3. CASE SliceStatus(s) \notin {"MESSAGE_AVAILABLE", "AWAITING_MESSAGE", "SYSTEM_FAILURE", "AUTHENTICATED"}
  <2>1. m_status' = "INVALID_CREDENTIALS" /\ slice' = NoSlice /\ m_user' = NoUser
    BY <1>3 DEF Settle
  <2>2. TypeOK'
    BY <2>1, <1>u DEF IInv, TypeOK, Statuses
  <2>3. StatusFollowsSlice' /\ UsersInPlace'
    BY <2>1, <1>u DEF IInv, StatusFollowsSlice, UsersInPlace
  <2>4. AuthOK' /\ UserOK' /\ ChangerOK'
    BY <2>1, <1>u DEF IInv, AuthOK, UserOK, ChangerOK
  <2> QED
    BY <2>2, <2>3, <2>4 DEF IInv
<1> QED
  BY <1>1, <1>2, <1>3

LEMMA SetMechInv ==
    ASSUME IInv, NEW mech \in Mechs, DoMech(mech) PROVE IInv'
<1> USE NoSliceFacts
<1>u. /\ UNCHANGED <<units, accounts, changes, m_stateidx, ctxuser, changer>>
      /\ delegate = "none" /\ delegate' = "auth" /\ dialogue' = dialogue + 1 /\ seen' = accounts
      /\ dialogue < MaxDialogues /\ m_stateidx = "Authentication"
  BY SMTT(30) DEF DoMech, Command, accountVars
<1>1. PICK i \in Offering(mech) :
        /\ m_user' = NoUser
        /\ slice' = [NoSlice EXCEPT !.unit = units[i].id, !.kind = units[i].kind,
                                    !.state = IF units[i].kind = "sasl" THEN "SYSTEM_FAILURE" ELSE "INITIALIZED",
                                    !.last = (units[i].kind = "textfile" /\ Offering(mech) = {i})]
        /\ m_status' = SliceStatus(slice')
  BY DEF DoMech, SetMech
<1>m. m_user' = NoUser /\ m_status' = SliceStatus(slice')
  BY <1>1, Zenon
<1>2. i \in DOMAIN units /\ units[i].id \in Units /\ HasSlice(units[i].kind, mech)
  BY ConfigurationsAssumption DEF Offering, IInv, TypeOK
<1>3. units[i].kind \in {"textfile", "pam", "sasl"}
  BY <1>2 DEF HasSlice
<1>4. /\ slice'.unit = units[i].id /\ slice'.kind = units[i].kind
      /\ slice'.state = IF units[i].kind = "sasl" THEN "SYSTEM_FAILURE" ELSE "INITIALIZED"
      /\ slice'.last = (units[i].kind = "textfile" /\ Offering(mech) = {i})
      /\ slice'.fake = FALSE /\ slice'.usr = NoUser /\ slice'.login = NoUser /\ slice'.challenge = 0
  BY <1>1 DEF NoSlice
<1>5. slice' \in Slices
  BY <1>1, <1>2, <1>3 DEF NoSlice, Slices, SliceStates
<1>6. m_status' \in {"AWAITING_MESSAGE", "SYSTEM_FAILURE"}
  BY <1>m, <1>3, <1>4 DEF SliceStatus
<1>7. TypeOK'
  BY <1>u, <1>m, <1>5, <1>6, BoundsAssumption DEF IInv, TypeOK, Statuses
<1>8. StatusFollowsSlice' /\ UsersInPlace'
  BY <1>u, <1>m, <1>5, <1>6 DEF IInv, StatusFollowsSlice, UsersInPlace
<1>9. SliceOK(slice)'
  BY <1>3, <1>4 DEF SliceOK
<1>10. LastOK(slice)'
  <2> SUFFICES ASSUME slice'.kind = "textfile", \E x \in DOMAIN units : Offering("WOLFRAME-CRAM") = {x}
               PROVE  slice'.last
    BY <1>u DEF LastOK, Offering
  <2>1. mech = "WOLFRAME-CRAM"
    BY <1>2, <1>4 DEF HasSlice
  <2>2. PICK x : Offering(mech) = {x}
    BY <2>1
  <2>3. Offering(mech) = {i}
    BY <2>2
  <2> QED
    BY <2>3, <1>4
<1>11. AuthOK'
  BY <1>m, <1>5, <1>9, <1>10 DEF AuthOK
<1>12. UserOK' /\ ChangerOK'
  BY <1>u, <1>m DEF IInv, TypeOK, UserOK, ChangerOK
<1> QED
  BY <1>7, <1>8, <1>11, <1>12 DEF IInv

-----------------------------------------------------------------------------
(* The dialogue of the authentication *)

\* While a dialogue goes on there is a slice, and no user yet.
LEMMA InDialogue ==
    ASSUME IInv, delegate = "auth", m_status \in {"MESSAGE_AVAILABLE", "AWAITING_MESSAGE"}
    PROVE  /\ m_user = NoUser /\ slice \in Slices /\ SliceOK(slice) /\ LastOK(slice)
           /\ SliceStatus(slice) = m_status /\ slice.state \in SliceStates
           /\ accounts \subseteq seen /\ dialogue \in Nat /\ dialogue > 0
<1>1. slice # NoSlice /\ SliceStatus(slice) = m_status /\ m_user = NoUser
  BY DEF IInv, StatusFollowsSlice, UsersInPlace
<1>2. slice \in Slices /\ SliceOK(slice) /\ LastOK(slice)
  BY <1>1 DEF IInv, AuthOK
<1> QED
  BY <1>1, <1>2 DEF IInv, UserOK, TypeOK, Slices

LEMMA AuthWritesInv == ASSUME IInv, AuthWrites PROVE IInv'
<1>1. /\ m_user = NoUser /\ slice \in Slices /\ SliceOK(slice) /\ LastOK(slice)
      /\ SliceStatus(slice) = "MESSAGE_AVAILABLE" /\ slice.state \in SliceStates /\ dialogue \in Nat
  BY InDialogue DEF AuthWrites
<1>2. slice.state \in {"USER_FOUND", "ASK_FOR_PASSWORD"}
  BY <1>1 DEF SliceStatus, SliceStates
<1> DEFINE s == SliceMessageOut(slice)
<1>3. /\ s \in Slices
      /\ s.kind = slice.kind /\ s.unit = slice.unit /\ s.usr = slice.usr /\ s.fake = slice.fake
      /\ s.login = slice.login /\ s.last = slice.last
      /\ s.state = IF slice.kind = "textfile" THEN "CHALLENGE_SENT" ELSE "WAITING_FOR_PWD"
      /\ slice.kind = "textfile" => s.challenge = dialogue
  BY <1>1 DEF SliceMessageOut, Slices, SliceStates
<1>4. slice.kind = "textfile" <=> slice.state = "USER_FOUND"
  BY <1>1, <1>2 DEF SliceOK, Slices
<1>5. SliceOK(s)
  BY <1>1, <1>2, <1>3, <1>4 DEF SliceOK, Slices
<1>6. LastOK(s) /\ s.state # "AUTHENTICATED"
  BY <1>1, <1>3 DEF LastOK
<1>7. Settle(s) /\ UNCHANGED <<accountVars, seen, dialogue, m_stateidx, delegate, ctxuser, changer>>
      /\ delegate = "auth"
  BY DEF AuthWrites
<1> HIDE DEF s
<1> QED
  BY <1>1, <1>3, <1>5, <1>6, <1>7, SettleInv

\* The name: what the slice may become is still as it should be, and not decided.
LEMMA NameOK ==
    ASSUME IInv, delegate = "auth", m_status = "AWAITING_MESSAGE", slice.state = "INITIALIZED", NEW name \in Names,
           NEW s \in IF slice.kind = "textfile" THEN TextFileName(slice, name) ELSE PAMName(slice, name)
    PROVE  /\ s \in Slices /\ SliceOK(s) /\ LastOK(s) /\ s.state # "AUTHENTICATED"
           /\ slice.last => s.state # "INVALID_CREDENTIALS" /\ s.state # "USER_NOT_FOUND"
<1>1. /\ slice \in Slices /\ SliceOK(slice) /\ LastOK(slice) /\ accounts \subseteq seen
      /\ accounts \subseteq Accounts
  BY InDialogue DEF IInv, TypeOK
<1>2. CASE slice.kind = "textfile"
  <2> s \in TextFileName(slice, name)
    BY <1>2
  <2> DEFINE found == {a \in accounts : a.unit = slice.unit /\ a.name = name}
  <2>1. CASE \E a \in found : s = [slice EXCEPT !.state = "USER_FOUND", !.usr = a]
    <3>1. PICK a \in found : s = [slice EXCEPT !.state = "USER_FOUND", !.usr = a]
      BY <2>1
    <3>2. a \in Accounts /\ a \in seen /\ a.unit = slice.unit
      BY <1>1
    <3>3. s \in Slices /\ s.usr = a /\ s.state = "USER_FOUND" /\ s.unit = slice.unit /\ s.kind = slice.kind
          /\ s.last = slice.last
      BY <1>1, <3>1, <3>2 DEF Slices, SliceStates
    <3> QED
      BY <1>1, <1>2, <3>2, <3>3 DEF SliceOK, LastOK
  <2>2. CASE slice.last /\ s = [slice EXCEPT !.state = "USER_FOUND", !.fake = TRUE]
    <3>1. s \in Slices /\ s.fake = TRUE /\ s.state = "USER_FOUND" /\ s.kind = slice.kind /\ s.last = slice.last
      BY <1>1, <2>2 DEF Slices, SliceStates
    <3> QED
      BY <1>1, <1>2, <3>1 DEF SliceOK, LastOK
  <2>3. CASE ~slice.last /\ s = [slice EXCEPT !.state = "USER_NOT_FOUND"]
    <3>1. s \in Slices /\ s.state = "USER_NOT_FOUND" /\ s.kind = slice.kind /\ s.last = slice.last
      BY <1>1, <2>3 DEF Slices, SliceStates
    <3> QED
      BY <1>1, <1>2, <2>3, <3>1 DEF SliceOK, LastOK
  <2>4. CASE s = [slice EXCEPT !.state = "SYSTEM_FAILURE"]
    <3>1. s \in Slices /\ s.state = "SYSTEM_FAILURE" /\ s.kind = slice.kind /\ s.last = slice.last
      BY <1>1, <2>4 DEF Slices, SliceStates
    <3> QED
      BY <1>1, <1>2, <3>1 DEF SliceOK, LastOK
  <2> QED
    BY <2>1, <2>2, <2>3, <2>4 DEF TextFileName
<1>3. CASE slice.kind # "textfile"
  <2>1. s = [slice EXCEPT !.state = "ASK_FOR_PASSWORD", !.login = name] \/ s = [slice EXCEPT !.state = "SYSTEM_FAILURE"]
    BY <1>3 DEF PAMName
  <2>2. /\ s \in Slices /\ s.kind = slice.kind /\ s.last = slice.last
        /\ s.state = "SYSTEM_FAILURE" \/ (s.state = "ASK_FOR_PASSWORD" /\ s.login \in Names)
    BY <1>1, <2>1 DEF Slices, SliceStates
  <2>3. slice.kind = "pam"
    BY <1>1, <1>3 DEF Slices, SliceOK
  <2> QED
    BY <1>1, <2>2, <2>3 DEF SliceOK, LastOK
<1> QED
  BY <1>2, <1>3

\* The response or the password: a user is authenticated only when it is proved.
LEMMA ResponseOK ==
    ASSUME IInv, delegate = "auth", m_status = "AWAITING_MESSAGE", slice.state # "INITIALIZED", NEW msg \in Responses,
           NEW s \in IF slice.kind = "textfile" THEN TextFileResponse(slice, msg) ELSE PAMPassword(slice, msg)
    PROVE  /\ s \in Slices /\ SliceOK(s) /\ LastOK(s)
           /\ s.state = "AUTHENTICATED" => SliceUser(s) \in Users /\ Proved(SliceUser(s).unit, SliceUser(s).name)
<1>1. /\ slice \in Slices /\ SliceOK(slice) /\ LastOK(slice) /\ accounts \subseteq seen
      /\ accounts \subseteq Accounts /\ seen \subseteq Accounts /\ dialogue \in Nat
      /\ SliceStatus(slice) = "AWAITING_MESSAGE" /\ slice.state \in SliceStates
  BY InDialogue DEF IInv, TypeOK
<1>2. slice.state \in {"CHALLENGE_SENT", "WAITING_FOR_PWD"}
  BY <1>1 DEF SliceStatus, SliceStates
<1>3. CASE slice.kind = "textfile"
  <2>0. slice.state = "CHALLENGE_SENT" /\ slice.challenge = dialogue
    BY <1>1, <1>2, <1>3 DEF SliceOK
  <2> DEFINE ok == ~slice.fake /\ msg = [challenge |-> slice.challenge, pwd |-> slice.usr.pwd]
  <2>1. s = [slice EXCEPT !.state = IF ok THEN "AUTHENTICATED" ELSE "INVALID_CREDENTIALS"]
    BY <1>3 DEF TextFileResponse
  <2>2. /\ s \in Slices /\ s.kind = "textfile" /\ s.last = slice.last /\ s.unit = slice.unit /\ s.usr = slice.usr
        /\ s.state = IF ok THEN "AUTHENTICATED" ELSE "INVALID_CREDENTIALS"
    BY <1>1, <1>3, <2>1 DEF Slices, SliceStates
  <2>3. SliceOK(s) /\ LastOK(s)
    BY <1>1, <1>3, <2>2 DEF SliceOK, LastOK
  <2>4. ASSUME ok PROVE SliceUser(s) \in Users /\ Proved(SliceUser(s).unit, SliceUser(s).name)
    <3>1. slice.usr \in seen /\ slice.usr.unit = slice.unit /\ slice.usr \in Accounts
      BY <1>1, <2>0, <2>4 DEF SliceOK
    <3>2. slice.usr.pwd \in Known
      BY <1>1, <2>0, <2>4, ResponseKnown
    <3>3. slice.usr = [unit |-> slice.unit, name |-> slice.usr.name, pwd |-> slice.usr.pwd]
      BY <3>1 DEF Accounts
    <3>4. SliceUser(s) = [unit |-> slice.unit, mech |-> "WOLFRAME-CRAM", name |-> slice.usr.name]
      BY <2>2 DEF SliceUser, UnitMech
    <3>5. SliceUser(s) \in Users
      BY <1>1, <3>1, <3>4 DEF Users, Accounts, Slices
    <3> QED
      BY <3>1, <3>2, <3>3, <3>4, <3>5 DEF Proved
  <2> QED
    BY <2>2, <2>3, <2>4
<1>4. CASE slice.kind # "textfile"
  <2>0. slice.kind = "pam" /\ slice.login \in Names
    BY <1>1, <1>2, <1>4 DEF SliceOK, Slices
  <2> DEFINE account == {a \in accounts : a.unit = slice.unit /\ a.name = slice.login}
  <2> DEFINE ok == \E a \in account : msg = [challenge |-> 0, pwd |-> a.pwd]
  <2>1. \E st \in {"USER_NOT_FOUND", "INVALID_CREDENTIALS", "SYSTEM_FAILURE", "AUTHENTICATED"} :
           s = [slice EXCEPT !.state = st] /\ (st = "AUTHENTICATED" => ok)
    BY <1>4 DEF PAMPassword
  <2>2. /\ s \in Slices /\ s.kind = "pam" /\ s.last = slice.last /\ s.unit = slice.unit /\ s.login = slice.login
        /\ s.state \in {"USER_NOT_FOUND", "INVALID_CREDENTIALS", "SYSTEM_FAILURE", "AUTHENTICATED"}
        /\ s.state = "AUTHENTICATED" => ok
    BY <1>1, <2>0, <2>1 DEF Slices, SliceStates
  <2>3. SliceOK(s) /\ LastOK(s)
    BY <1>1, <2>2 DEF SliceOK, LastOK
  <2>4. ASSUME ok PROVE SliceUser(s) \in Users /\ Proved(SliceUser(s).unit, SliceUser(s).name)
    <3>1. PICK a \in account : msg = [challenge |-> 0, pwd |-> a.pwd]
      BY <2>4
    <3>2. a \in Accounts /\ a \in seen /\ a.unit = slice.unit /\ a.name = slice.login
      BY <1>1
    <3>3. a.pwd \in Known
      BY <1>1, <3>1, ResponseKnown
    <3>4. a = [unit |-> slice.unit, name |-> slice.login, pwd |-> a.pwd]
      BY <3>2 DEF Accounts
    <3>5. SliceUser(s) = [unit |-> slice.unit, mech |-> "WOLFRAME-PAM", name |-> slice.login]
      BY <2>2 DEF SliceUser, UnitMech
    <3>6. SliceUser(s) \in Users
      BY <1>1, <2>0, <3>5 DEF Users, Slices
    <3> QED
      BY <3>2, <3>3, <3>4, <3>5, <3>6 DEF Proved
  <2> QED
    BY <2>2, <2>3, <2>4
<1> QED
  BY <1>3, <1>4

LEMMA AuthReadsInv == ASSUME IInv, AuthReads PROVE IInv'
<1>1. /\ delegate = "auth" /\ m_status = "AWAITING_MESSAGE" /\ m_user = NoUser
      /\ UNCHANGED <<accountVars, seen, dialogue, m_stateidx, delegate, ctxuser, changer>>
  BY InDialogue DEF AuthReads
<1>2. CASE \E name \in Names :
            /\ slice.state = "INITIALIZED"
            /\ \E s \in (IF slice.kind = "textfile" THEN TextFileName(slice, name) ELSE PAMName(slice, name)) :
                  Settle(s)
  <2>0. PICK name \in Names :
            /\ slice.state = "INITIALIZED"
            /\ \E s \in (IF slice.kind = "textfile" THEN TextFileName(slice, name) ELSE PAMName(slice, name)) :
                  Settle(s)
    BY <1>2
  <2>1. PICK s \in (IF slice.kind = "textfile" THEN TextFileName(slice, name) ELSE PAMName(slice, name)) :
           slice.state = "INITIALIZED" /\ Settle(s)
    BY <2>0
  <2>2. s \in Slices /\ SliceOK(s) /\ LastOK(s) /\ s.state # "AUTHENTICATED"
    BY <1>1, <2>1, NameOK
  <2> QED
    BY <1>1, <2>1, <2>2, SettleInv
<1>3. CASE \E msg \in Responses :
            /\ slice.state # "INITIALIZED"
            /\ \E s \in (IF slice.kind = "textfile" THEN TextFileResponse(slice, msg) ELSE PAMPassword(slice, msg)) :
                  Settle(s)
  <2>0. PICK msg \in Responses :
            /\ slice.state # "INITIALIZED"
            /\ \E s \in (IF slice.kind = "textfile" THEN TextFileResponse(slice, msg) ELSE PAMPassword(slice, msg)) :
                  Settle(s)
    BY <1>3
  <2>1. PICK s \in (IF slice.kind = "textfile" THEN TextFileResponse(slice, msg) ELSE PAMPassword(slice, msg)) :
           slice.state # "INITIALIZED" /\ Settle(s)
    BY <2>0
  <2>2. /\ s \in Slices /\ SliceOK(s) /\ LastOK(s)
        /\ s.state = "AUTHENTICATED" => SliceUser(s) \in Users /\ Proved(SliceUser(s).unit, SliceUser(s).name)
    BY <1>1, <2>1, ResponseOK
  <2> QED
    BY <1>1, <2>1, <2>2, SettleInv
<1> QED
  BY <1>2, <1>3 DEF AuthReads

-----------------------------------------------------------------------------
(* The other actions *)

\* The authenticator is not in use, or its state is left alone.
LEMMA CommandInv ==
    ASSUME IInv, DoAuth \/ DoMechNone \/ DoQuit \/ DoPasswdThrows
    PROVE  IInv'
<1>1. /\ UNCHANGED <<units, accounts, changes, seen, dialogue, delegate, m_status, slice, m_user, ctxuser, changer>>
      /\ delegate = "none" /\ m_stateidx' \in {"Authentication", "Authenticated", "Terminated"}
  BY DEF DoAuth, DoMechNone, DoQuit, DoPasswdThrows, Command, accountVars, authVars
<1>2. TypeOK'
  BY <1>1 DEF IInv, TypeOK
<1>3. StatusFollowsSlice' /\ UsersInPlace'
  BY <1>1 DEF IInv, StatusFollowsSlice, UsersInPlace
<1>4. AuthOK' /\ UserOK' /\ ChangerOK'
  BY <1>1 DEF IInv, AuthOK, UserOK, ChangerOK, Proved
<1> QED
  BY <1>2, <1>3, <1>4 DEF IInv

LEMMA DoMechDeniedInv == ASSUME IInv, NEW mech \in Mechs, DoMechDenied(mech) PROVE IInv'
<1>1. /\ UNCHANGED <<units, accounts, changes, seen, dialogue, m_stateidx, delegate, ctxuser, changer>>
      /\ delegate = "none" /\ m_status' = "MECH_UNAVAILABLE" /\ slice' = NoSlice /\ m_user' = NoUser
  BY DEF DoMechDenied, Command, accountVars
<1>2. TypeOK'
  BY <1>1 DEF IInv, TypeOK, Statuses
<1>3. StatusFollowsSlice' /\ UsersInPlace'
  BY <1>1 DEF IInv, StatusFollowsSlice, UsersInPlace
<1>4. AuthOK' /\ UserOK' /\ ChangerOK'
  BY <1>1 DEF IInv, AuthOK, UserOK, ChangerOK
<1> QED
  BY <1>2, <1>3, <1>4 DEF IInv

LEMMA DoPasswdInv == ASSUME IInv, DoPasswd PROVE IInv'
<1> USE NoSliceFacts
<1>1. /\ UNCHANGED <<units, accounts, changes, m_stateidx, m_status, slice, m_user, ctxuser>>
      /\ delegate = "none" /\ delegate' = "passwd" /\ dialogue' = dialogue + 1 /\ seen' = accounts
      /\ dialogue < MaxDialogues /\ m_stateidx = "Authenticated_passwd"
  BY DEF DoPasswd, Command, accountVars, authVars
<1>2. /\ m_user = NoUser /\ ctxuser # NoUser /\ accounts \subseteq Accounts /\ dialogue \in Nat
  BY <1>1 DEF IInv, UsersInPlace, TypeOK
<1>3. \/ \E id \in ChangerUnits : \E a \in {b \in accounts : b.unit = id /\ b.name = ctxuser.name} :
            changer' = [NoChanger EXCEPT !.state = "INITIALIZED", !.usr = a]
      \/ changer' = [NoChanger EXCEPT !.state = "SYSTEM_FAILURE"]
  BY DEF DoPasswd
<1>4. \A id \in ChangerUnits : id = ctxuser.unit
  BY DEF ChangerUnits
<1>5. /\ changer' \in Changers
      /\ changer'.state \in {"INITIALIZED", "SYSTEM_FAILURE"}
      /\ changer'.state # "SYSTEM_FAILURE" =>
            changer'.usr \in accounts /\ changer'.usr.unit = ctxuser.unit /\ changer'.usr.name = ctxuser.name
  <2>1. CASE \E id \in ChangerUnits : \E a \in {b \in accounts : b.unit = id /\ b.name = ctxuser.name} :
            changer' = [NoChanger EXCEPT !.state = "INITIALIZED", !.usr = a]
    <3>1. PICK a \in accounts : /\ a.unit = ctxuser.unit /\ a.name = ctxuser.name
                                /\ changer' = [NoChanger EXCEPT !.state = "INITIALIZED", !.usr = a]
      BY <2>1, <1>4
    <3> QED
      BY <3>1, <1>2 DEF NoChanger, Changers, ChangerStates
  <2>2. CASE changer' = [NoChanger EXCEPT !.state = "SYSTEM_FAILURE"]
    BY <2>2 DEF NoChanger, Changers, ChangerStates
  <2> QED
    BY <1>3, <2>1, <2>2
<1>6. TypeOK'
  BY <1>1, <1>2, <1>5, BoundsAssumption DEF IInv, TypeOK
<1>7. StatusFollowsSlice' /\ UsersInPlace'
  BY <1>1 DEF IInv, StatusFollowsSlice, UsersInPlace
<1>8. AuthOK' /\ UserOK'
  BY <1>1, <1>2 DEF AuthOK, UserOK
<1>9. ChangerOK'
  BY <1>1, <1>5 DEF ChangerOK
<1> QED
  BY <1>6, <1>7, <1>8, <1>9 DEF IInv

LEMMA MechFailedInv == ASSUME IInv, MechFailed PROVE IInv'
<1>1. /\ UNCHANGED <<units, accounts, changes, seen, dialogue, m_status, slice, m_user, ctxuser, changer>>
      /\ delegate = "auth" /\ delegate' = "none" /\ m_status # "AUTHENTICATED"
      /\ m_stateidx' = "Unauthenticated"
  BY DEF MechFailed, accountVars, authVars
<1>2. TypeOK'
  BY <1>1 DEF IInv, TypeOK
<1>3. StatusFollowsSlice' /\ UsersInPlace'
  BY <1>1 DEF IInv, StatusFollowsSlice, UsersInPlace
<1>4. AuthOK' /\ UserOK' /\ ChangerOK'
  BY <1>1 DEF IInv, AuthOK, UserOK, ChangerOK, Proved
<1> QED
  BY <1>2, <1>3, <1>4 DEF IInv

LEMMA EndMechInv == ASSUME IInv, EndMech PROVE IInv'
<1>1. /\ UNCHANGED <<units, accounts, changes, seen, dialogue, m_status, slice, changer>>
      /\ delegate = "auth" /\ delegate' = "none" /\ m_user' = NoUser
      /\ m_status = "AUTHENTICATED" /\ m_user # NoUser
      /\ m_stateidx' \in {"Authenticated", "Authenticated_passwd"} /\ ctxuser' = m_user
  BY DEF EndMech, accountVars, IInv, UsersInPlace
<1>2. TypeOK'
  BY <1>1 DEF IInv, TypeOK
<1>3. StatusFollowsSlice' /\ UsersInPlace'
  BY <1>1 DEF IInv, StatusFollowsSlice, UsersInPlace
<1>4. AuthOK' /\ UserOK' /\ ChangerOK'
  BY <1>1 DEF IInv, AuthOK, UserOK, ChangerOK
<1> QED
  BY <1>2, <1>3, <1>4 DEF IInv

\* The steps of the password change.
LEMMA PasswdInv == ASSUME IInv, PasswdWrites \/ PasswdReads \/ EndPasswd PROVE IInv'
<1> USE NoSliceFacts
<1>1. /\ UNCHANGED <<units, accounts, changes, seen, dialogue, m_stateidx, m_status, slice, m_user, ctxuser>>
      /\ delegate = "passwd" /\ delegate' \in {"passwd", "none"}
  BY DEF PasswdWrites, PasswdReads, EndPasswd, accountVars, authVars
<1>2. changer \in Changers /\ dialogue \in Nat /\ m_user = NoUser
  BY <1>1 DEF IInv, ChangerOK, TypeOK, UsersInPlace
<1>3. StatusFollowsSlice' /\ UsersInPlace'
  BY <1>1 DEF IInv, StatusFollowsSlice, UsersInPlace
<1>4. AuthOK' /\ UserOK'
  BY <1>1, <1>2 DEF IInv, AuthOK, UserOK
<1>5. ChangerOK' /\ changer' \in Changers \cup {NoChanger}
  <2>1. CASE PasswdWrites
    <3>1. /\ changer' = [changer EXCEPT !.state = "CHALLENGE_SENT", !.challenge = dialogue]
          /\ changer.state = "INITIALIZED" /\ delegate' = "passwd"
      BY <2>1, <1>1 DEF PasswdWrites
    <3>2. /\ changer' \in Changers /\ changer'.state = "CHALLENGE_SENT" /\ changer'.challenge = dialogue
          /\ changer'.usr = changer.usr
      BY <3>1, <1>2 DEF Changers, ChangerStates
    <3> QED
      BY <1>1, <3>1, <3>2 DEF IInv, ChangerOK
  <2>2. CASE PasswdReads
    <3>1. PICK msg \in Responses :
            changer' = [changer EXCEPT !.state =
                           IF msg = [challenge |-> changer.challenge, pwd |-> changer.usr.pwd]
                           THEN "PASSWORD_EXCHANGED" ELSE "INVALID_MESSAGE"]
      BY <2>2 DEF PasswdReads
    <3>2. changer.state = "CHALLENGE_SENT" /\ delegate' = "passwd" /\ changer.challenge = dialogue
      BY <2>2, <1>1 DEF PasswdReads, IInv, ChangerOK
    <3>3. /\ changer' \in Changers /\ changer'.usr = changer.usr
          /\ changer'.state \in {"PASSWORD_EXCHANGED", "INVALID_MESSAGE"}
          /\ changer'.state = "PASSWORD_EXCHANGED" => msg = [challenge |-> changer.challenge, pwd |-> changer.usr.pwd]
      BY <3>1, <1>2 DEF Changers, ChangerStates
    <3>4. changer'.state = "PASSWORD_EXCHANGED" => changer.usr.pwd \in Known
      BY <3>2, <3>3, <1>2, ResponseKnown
    <3> QED
      BY <1>1, <3>2, <3>3, <3>4 DEF IInv, ChangerOK
  <2>3. CASE EndPasswd
    BY <2>3 DEF EndPasswd, ChangerOK
  <2> QED
    BY <2>1, <2>2, <2>3
<1>6. TypeOK'
  BY <1>1, <1>5 DEF IInv, TypeOK
<1> QED
  BY <1>3, <1>4, <1>5, <1>6 DEF IInv

\* The administrator may change the accounts at any point of a dialogue.
LEMMA ChangeAccountsInv == ASSUME IInv, ChangeAccounts PROVE IInv'
<1>1. /\ UNCHANGED <<units, dialogue, m_stateidx, delegate, m_status, slice, m_user, ctxuser, changer>>
      /\ seen' = seen \cup accounts' /\ changes < MaxChanges /\ changes' = changes + 1
  BY DEF ChangeAccounts, authVars
<1>2. accounts' \subseteq Accounts
  <2>1. PICK u \in Units, name \in Names :
          LET others == {a \in accounts : ~(a.unit = u /\ a.name = name)}
          IN \/ accounts' = others
             \/ \E p \in Passwords : accounts' = others \cup {[unit |-> u, name |-> name, pwd |-> p]}
    BY DEF ChangeAccounts
  <2>2. \A p \in Passwords : [unit |-> u, name |-> name, pwd |-> p] \in Accounts
    BY DEF Accounts
  <2> QED
    BY <2>1, <2>2 DEF IInv, TypeOK
<1>3. TypeOK'
  BY <1>1, <1>2, BoundsAssumption DEF IInv, TypeOK
<1>4. StatusFollowsSlice' /\ UsersInPlace'
  BY <1>1 DEF IInv, StatusFollowsSlice, UsersInPlace
<1>5. AuthOK'
  <2> SUFFICES ASSUME delegate = "auth", slice # NoSlice
               PROVE  slice \in Slices /\ SliceOK(slice)' /\ LastOK(slice)' /\ (m_status = SliceStatus(slice))'
    BY <1>1 DEF AuthOK
  <2>1. slice \in Slices /\ SliceOK(slice) /\ LastOK(slice) /\ m_status = SliceStatus(slice)
    BY DEF IInv, AuthOK
  <2>2. SliceOK(slice)'
    BY <1>1, <2>1 DEF SliceOK
  <2>3. LastOK(slice)'
    BY <1>1, <2>1 DEF LastOK, Offering
  <2>4. (m_status = SliceStatus(slice))'
    BY <1>1, <2>1 DEF SliceStatus
  <2> QED
    BY <2>1, <2>2, <2>3, <2>4
<1>6. UserOK'
  BY <1>1 DEF IInv, UserOK, Proved
<1>7. ChangerOK'
  BY <1>1 DEF IInv, ChangerOK
<1> QED
  BY <1>3, <1>4, <1>5, <1>6, <1>7 DEF IInv

LEMMA StutterInv == ASSUME IInv, UNCHANGED vars PROVE IInv'
<1>1. UNCHANGED <<units, accounts, changes, seen, dialogue, m_stateidx, delegate, m_status, slice, m_user,
                  ctxuser, changer>>
  BY DEF vars, accountVars, authVars
<1>2. TypeOK' /\ StatusFollowsSlice' /\ UsersInPlace'
  BY <1>1 DEF IInv, TypeOK, StatusFollowsSlice, UsersInPlace, SliceStatus
<1>3. AuthOK'
  BY <1>1 DEF IInv, AuthOK, SliceOK, LastOK, Offering, SliceStatus
<1>4. UserOK' /\ ChangerOK'
  BY <1>1 DEF IInv, UserOK, ChangerOK, Proved
<1> QED
  BY <1>2, <1>3, <1>4 DEF IInv

LEMMA Step == IInv /\ [Next]_vars => IInv'
<1> SUFFICES ASSUME IInv, [Next]_vars PROVE IInv'
  OBVIOUS
<1>1. CASE DoAuth \/ DoMechNone \/ DoQuit \/ DoPasswdThrows
  BY <1>1, CommandInv
<1>2. CASE \E mech \in Mechs : DoMechDenied(mech) \/ DoMech(mech)
  BY <1>2, DoMechDeniedInv, SetMechInv
<1>3. CASE DoPasswd
  BY <1>3, DoPasswdInv
<1>4. CASE AuthWrites \/ AuthReads
  BY <1>4, AuthWritesInv, AuthReadsInv
<1>5. CASE MechFailed \/ EndMech
  BY <1>5, MechFailedInv, EndMechInv
<1>6. CASE PasswdWrites \/ PasswdReads \/ EndPasswd
  BY <1>6, PasswdInv
<1>7. CASE ChangeAccounts
  BY <1>7, ChangeAccountsInv
<1>8. CASE DoPasswdDenied \/ Finished \/ UNCHANGED vars
  BY <1>8, StutterInv DEF DoPasswdDenied, Finished
<1> QED
  BY <1>1, <1>2, <1>3, <1>4, <1>5, <1>6, <1>7, <1>8 DEF Next, Dialogue

LEMMA Inductive == Spec => []IInv
BY InitInv, Step, PTL DEF Spec

-----------------------------------------------------------------------------
(* The theorems *)

\* Every state, status, slice and user is one that StandardAuthenticator and its
\* slices declare.
THEOREM TypeCorrect == Spec => []TypeOK
<1>1. IInv => TypeOK
  BY DEF IInv
<1> QED
  BY <1>1, Inductive, PTL

\* The status StandardAuthenticator shows is that of its slice: messageIn() and
\* messageOut() never throw for a slice in the wrong state.
THEOREM StatusSafe == Spec => []StatusFollowsSlice
<1>1. IInv => StatusFollowsSlice
  BY DEF IInv
<1> QED
  BY <1>1, Inductive, PTL

\* Users are in the authenticator only between success and endMech(), and PASSWD
\* always has a user in the execution context.
THEOREM UsersSafe == Spec => []UsersInPlace
<1>1. IInv => UsersInPlace
  BY DEF IInv
<1> QED
  BY <1>1, Inductive, PTL

\* TextFilePwdChanger accepts a new password only for the account of the
\* connection's user, from a client that knows a password the account has had in
\* this dialogue.
THEOREM ChangeSafe == Spec => []ChangeProved
<1>1. IInv => ChangeProved
  BY NoSliceFacts DEF IInv, ChangerOK, ChangeProved
<1> QED
  BY <1>1, Inductive, PTL

\* The user of the connection changes only in endMech(), to a user whose password
\* the client knows, whatever the units, accounts and earlier dialogues are.
THEOREM LoginSafe == Spec => LoginProved
<1>1. ASSUME IInv, [Next]_vars, ctxuser' # ctxuser
      PROVE  \E p \in Known : [unit |-> ctxuser'.unit, name |-> ctxuser'.name, pwd |-> p] \in seen
  <2>1. EndMech
    BY <1>1 DEF Next, Dialogue, vars, accountVars, authVars, DoAuth, DoMechNone, DoMechDenied, DoMech, DoPasswd,
                DoPasswdDenied, DoPasswdThrows, DoQuit, AuthWrites, AuthReads, MechFailed, PasswdWrites, PasswdReads,
                EndPasswd, ChangeAccounts, Finished
  <2>2. m_user # NoUser /\ ctxuser' = m_user
    BY <1>1, <2>1 DEF EndMech
  <2> QED
    BY <1>1, <2>2 DEF IInv, UserOK, Proved
<1>2. IInv /\ [Next]_vars =>
        [ctxuser' # ctxuser =>
           \E p \in Known : [unit |-> ctxuser'.unit, name |-> ctxuser'.name, pwd |-> p] \in seen]_vars
  BY <1>1
<1> QED
  BY <1>2, Inductive, PTL DEF Spec, LoginProved

\* A unit that is alone for its mechanism sends a challenge for every name: setMech()
\* has told it that it is the last.
THEOREM NamesSafe == Spec => NamesNotTold
<1>1. ASSUME IInv, [Next]_vars, delegate = "auth", slice.kind = "textfile", slice.state = "INITIALIZED",
             \E i \in DOMAIN units : Offering("WOLFRAME-CRAM") = {i}
      PROVE  m_status' # "INVALID_CREDENTIALS"
  <2>1. slice # NoSlice /\ m_status = "AWAITING_MESSAGE" /\ slice.last
    BY <1>1, NoSliceFacts DEF IInv, AuthOK, SliceStatus, LastOK
  <2>2. CASE AuthReads
    <3>1. PICK name \in Names :
            \E s \in (IF slice.kind = "textfile" THEN TextFileName(slice, name) ELSE PAMName(slice, name)) : Settle(s)
      BY <1>1, <2>2 DEF AuthReads
    <3>2. PICK s \in (IF slice.kind = "textfile" THEN TextFileName(slice, name) ELSE PAMName(slice, name)) : Settle(s)
      BY <3>1
    <3>3. s.state # "INVALID_CREDENTIALS" /\ s.state # "USER_NOT_FOUND" /\ s.state \in SliceStates
      BY <1>1, <2>1, NameOK DEF Slices
    <3>4. SliceStatus(s) \in {"MESSAGE_AVAILABLE", "AWAITING_MESSAGE", "SYSTEM_FAILURE", "AUTHENTICATED"}
      BY <3>3 DEF SliceStatus, SliceStates
    <3> QED
      BY <3>2, <3>4 DEF Settle
  <2>3. CASE m_status' = m_status
    BY <2>1, <2>3
  <2>4. AuthReads \/ m_status' = m_status
    BY <1>1, <2>1 DEF Next, Dialogue, vars, accountVars, authVars, Command, DoAuth, DoMechNone, DoMechDenied, DoMech,
                DoPasswd, DoPasswdDenied, DoPasswdThrows, DoQuit, AuthWrites, MechFailed, EndMech, PasswdWrites,
                PasswdReads, EndPasswd, ChangeAccounts, Finished
  <2> QED
    BY <2>2, <2>3, <2>4
<1>2. IInv /\ [Next]_vars =>
        [delegate = "auth" /\ slice.kind = "textfile" /\ slice.state = "INITIALIZED"
           /\ (\E i \in DOMAIN units : Offering("WOLFRAME-CRAM") = {i})
           => m_status' # "INVALID_CREDENTIALS"]_vars
  BY <1>1
<1> QED
  BY <1>2, Inductive, PTL DEF Spec, NamesNotTold

=============================================================================
