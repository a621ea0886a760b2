---------------------------- MODULE Registration ----------------------------
(***************************************************************************)
(* Signing up in the chat.  Each visitor has one chat session, for which   *)
(* Redis keeps the registration: the step it is at and the data entered so *)
(* far.  Forms appear as messages of the chat and stay open until their    *)
(* own submission is answered with something else than errors, so several  *)
(* may be open at once; a submission carries a form's values and does not  *)
(* say which step the form was for.                                        *)
(*                                                                         *)
(* The handlers of one step run on the event loop without an await, so     *)
(* they are atomic; a chat message is not, it waits for a language model   *)
(* between reading the registration and acting on it.                      *)
(*                                                                         *)
(* The email stands for both unique columns of the users table.            *)
(***************************************************************************)
EXTENDS Integers, Sequences, FiniteSets, Functions, BagsExt, Bags

CONSTANTS
    Visitors,       \* chat sessions
    Emails,         \* addresses that pass the format check
    Malformed,      \* an address that does not
    Other,          \* creates accounts elsewhere (sign-up page, a shop's new employee)
    MaxOpen,        \* forms open at once in one chat (bound)
    MaxChats,       \* chat messages (bound)
    MaxFaults       \* Redis, database and network failures (bound)

ASSUME RegistrationConstants ==
    /\ MaxOpen \in Nat \ {0} /\ MaxChats \in Nat /\ MaxFaults \in Nat
    /\ Malformed \notin Emails /\ {Other, "nobody"} \cap Visitors = {}

VARIABLES
    session,    \* reg:{session_id} in Redis
    account,    \* users (and the owner's shop), by email
    open,       \* the forms open in a visitor's chat: a bag of steps
    chat,       \* the message a visitor waits an answer for, and what it has read
    chats,      \* number of messages so far
    faults      \* number of failures so far

vars == <<session, account, open, chat, chats, faults>>

SHOP_OWNER_STEPS == <<"account_type", "email", "username", "password",
                      "shop_name", "shop_type", "shop_address", "confirm">>
CUSTOMER_STEPS == <<"account_type", "email", "username", "password", "confirm">>
AllSteps == Range(SHOP_OWNER_STEPS)
AccountTypes == {"shop_owner", "customer"}

StepsOf(type) == IF type = "shop_owner" THEN SHOP_OWNER_STEPS ELSE CUSTOMER_STEPS
IndexOf(step, type) == CHOOSE i \in 1 .. Len(StepsOf(type)) : StepsOf(type)[i] = step
Before(step, type) == {StepsOf(type)[i] : i \in 1 .. IndexOf(step, type) - 1}

NoSession == [step |-> "none", type |-> "unknown", email |-> Malformed, entered |-> {}, checked |-> {}]
NoAccount == [by |-> "nobody", type |-> "unknown", shop |-> FALSE, checked |-> {}, ended |-> "none"]
Idle == [waits |-> FALSE, saw |-> "none"]

Init ==
    /\ session = [v \in Visitors |-> NoSession]
    /\ account = [e \in Emails \cup {Malformed} |-> NoAccount]
    /\ open = [v \in Visitors |-> EmptyBag]
    /\ chat = [v \in Visitors |-> Idle]
    /\ chats = 0 /\ faults = 0

Active(v) == session[v].step # "none"
Taken(e) == account[e] # NoAccount

-----------------------------------------------------------------------------
(* The page.                                                               *)

\* The forms of a page one by one: the copies of a step's form are numbered.
Shown(forms) == UNION {{step} \X (1 .. forms[step]) : step \in BagToSet(forms)}

Room(v) == Cardinality(Shown(open[v])) < MaxOpen

\* handleFormResult: an answered form is marked as completed.
Closed(v, form) == BagRemove(open[v], form)

Failing(fails) ==
    /\ fails => faults < MaxFaults
    /\ faults' = faults + (IF fails THEN 1 ELSE 0)

\* A write to Redis that fails is only logged.
Saves(v, s, saved) == session' = IF saved THEN [session EXCEPT ![v] = s] ELSE session

-----------------------------------------------------------------------------
(* RegistrationAgent.process_step.                                         *)

\* start: an account type that is known already skips the first step.
Started(type) ==
    IF type \in AccountTypes
    THEN [step |-> "email", type |-> type, email |-> Malformed,
          entered |-> {"account_type"}, checked |-> {"account_type"}]
    ELSE [step |-> "account_type", type |-> "unknown", email |-> Malformed,
          entered |-> {}, checked |-> {}]

\* What a form can carry: an account type, an address, and for the other steps
\* whether it would pass the step's checks.
ValuesOf(form) ==
    IF form = "account_type" THEN AccountTypes
    ELSE IF form = "email" THEN Emails \cup {Malformed}
    ELSE {"good", "bad"}

\* _validate_step: a form of another step lacks the field that is asked for,
\* "confirm" asks for none, and an address the database cannot be asked about
\* is not taken.
Valid(s, form, value, unasked) ==
    \/ s.step = "confirm"
    \/ /\ form = s.step
       /\ \/ form = "account_type"
          \/ form = "email" /\ value \in Emails /\ (unasked \/ ~Taken(value))
          \/ form \notin {"account_type", "email"} /\ value = "good"

\* state["data"].update(field_data), whatever fields the form has.
Merged(s, form, value) ==
    [s EXCEPT !.email = IF form = "email" THEN value ELSE @,
              !.type = IF s.step = "account_type" THEN value ELSE @,
              !.entered = @ \cup {form},
              !.checked = IF s.step = "confirm" THEN @ \ {form} ELSE @ \cup {form}]

Advanced(s) ==
    [s EXCEPT !.step = StepsOf(s.type)[IndexOf(s.step, s.type) + 1]]

\* Mutant: the account is created once the last data has been entered.
FinalBeforeConfirm(s) == Advanced(s).step = "confirm"

IsFinal(s) == s.step = "confirm"

\* The user and, for an owner who named it, the shop, in one transaction.
AccountOf(v, s, form) ==
    [by |-> v, type |-> s.type, shop |-> s.type = "shop_owner" /\ "shop_name" \in s.entered,
     checked |-> s.checked, ended |-> form]

\* Mutant: what was submitted is saved before the account is created.
SavedOnFailure(v, s) == session' = [session EXCEPT ![v] = s]

\* A registration that failed leaves the session at "confirm" as it was.
KeptOnFailure(v, s) == UNCHANGED session

-----------------------------------------------------------------------------
(* POST /step.                                                             *)

\* No session is found: the page takes the form_error for an answer and closes
\* the form.  The session may have ended, or Redis may not answer.
SubmitUnseen(v, form) ==
    /\ BagIn(form, open[v])
    /\ open' = [open EXCEPT ![v] = Closed(v, form)]
    /\ Failing(Active(v))
    /\ UNCHANGED <<session, account, chat, chats>>

\* The form stays open and shows the errors.
SubmitRefused(v, form, value) ==
    /\ BagIn(form, open[v]) /\ Active(v)
    /\ ~Valid(session[v], form, value, FALSE)
    /\ UNCHANGED vars

\* The next step's form is shown in place of this one.
SubmitStep(v, form, value, saved, answered, unasked) ==
    /\ BagIn(form, open[v]) /\ Active(v) /\ ~IsFinal(session[v])
    /\ Valid(session[v], form, value, unasked)
    /\ LET next == Advanced(Merged(session[v], form, value)) IN
        /\ Saves(v, next, saved)
        /\ open' = IF answered THEN [open EXCEPT ![v] = BagAdd(Closed(v, form), next.step)]
                   ELSE open
    /\ Failing(~(saved /\ answered /\ ~unasked))
    /\ UNCHANGED <<account, chat, chats>>

\* _finalize_registration.  Whether it is form_done or the handler died after
\* the commit, the account is there; the session may outlive it.
SubmitFinal(v, form, value, cleared, answered) ==
    /\ BagIn(form, open[v]) /\ Active(v) /\ IsFinal(session[v])
    /\ LET s == Merged(session[v], form, value) IN
        /\ ~Taken(s.email)
        /\ account' = [account EXCEPT ![s.email] = AccountOf(v, s, form)]
    /\ Saves(v, NoSession, cleared)
    /\ open' = IF answered THEN [open EXCEPT ![v] = Closed(v, form)] ELSE open
    /\ Failing(~(cleared /\ answered))
    /\ UNCHANGED <<chat, chats>>

\* The address is taken, or the database fails: rolled back, "Please try again"
\* is shown and the form is closed.
SubmitFails(v, form, value) ==
    /\ BagIn(form, open[v]) /\ Active(v) /\ IsFinal(session[v])
    /\ LET s == Merged(session[v], form, value) IN
        /\ KeptOnFailure(v, s)
        /\ open' = [open EXCEPT ![v] = Closed(v, form)]
        /\ Failing(~Taken(s.email))
    /\ UNCHANGED <<account, chat, chats>>

Submit(v) == \E form \in BagToSet(open[v]) :
    \/ SubmitUnseen(v, form)
    \/ \E value \in ValuesOf(form) :
        \/ SubmitRefused(v, form, value)
        \/ \E saved, answered, unasked \in BOOLEAN :
               SubmitStep(v, form, value, saved, answered, unasked)
        \/ \E cleared, answered \in BOOLEAN : SubmitFinal(v, form, value, cleared, answered)
        \/ SubmitFails(v, form, value)

-----------------------------------------------------------------------------
(* Starting, cancelling and losing a registration.                         *)

\* POST /start: the form is the answer, the chat does not show it.
Start(v, type, saved) ==
    /\ chats < MaxChats /\ chats' = chats + 1
    /\ Saves(v, Started(type), saved)
    /\ UNCHANGED open
    /\ Failing(~saved)
    /\ UNCHANGED <<account, chat>>

\* POST /cancel, or a message that says so while the session is active: the
\* forms stay open.  The session also ends 30 minutes after its last write.
Cancel(v) ==
    /\ Active(v)
    /\ session' = [session EXCEPT ![v] = NoSession]
    /\ UNCHANGED <<account, open, chat, chats, faults>>

\* A message reads the session, then waits for its intent to be classified.
ChatReads(v, seen) ==
    /\ ~chat[v].waits /\ chats < MaxChats /\ chats' = chats + 1
    /\ chat' = [chat EXCEPT ![v] = [waits |-> TRUE, saw |-> IF seen THEN session[v].step ELSE "none"]]
    /\ UNCHANGED open
    /\ Failing(~seen /\ Active(v))
    /\ UNCHANGED <<session, account>>

Answered(v) ==
    /\ chat[v].waits
    /\ chat' = [chat EXCEPT ![v] = Idle]
    /\ UNCHANGED <<account, chats>>

\* An interrupting intent ends the registration that is there by now.
ChatInterrupts(v) ==
    /\ Answered(v) /\ chat[v].saw # "none"
    /\ session' = [session EXCEPT ![v] = NoSession]
    /\ UNCHANGED <<open, faults>>

\* Any other shows the form of the step that was read.
ChatReminds(v) ==
    /\ Answered(v) /\ chat[v].saw # "none" /\ Room(v)
    /\ open' = [open EXCEPT ![v] = BagAdd(@, chat[v].saw)]
    /\ UNCHANGED <<session, faults>>

\* The intent to register starts anew, over what may have been started since.
ChatRegisters(v, type, saved) ==
    /\ Answered(v) /\ chat[v].saw = "none" /\ Room(v)
    /\ Saves(v, Started(type), saved)
    /\ open' = [open EXCEPT ![v] = BagAdd(@, Started(type).step)]
    /\ Failing(~saved)

\* Any other intent, once no registration was seen.
ChatsElsewhere(v) ==
    /\ Answered(v) /\ chat[v].saw = "none"
    /\ UNCHANGED <<session, open, faults>>

\* Mutant: a session without data is not taken for one.
RestoredWithData(v) ==
    IF session[v].entered # {} THEN SetToBag({session[v].step}) ELSE EmptyBag

Restored(v) == IF Active(v) THEN SetToBag({session[v].step}) ELSE EmptyBag

\* The page is loaded again: GET /state restores the one form; the answer to
\* the message is dropped with the connection.
Reload(v) ==
    /\ open' = [open EXCEPT ![v] = Restored(v)]
    /\ chat' = [chat EXCEPT ![v] = Idle]
    /\ UNCHANGED <<session, account, chats, faults>>

\* POST /users and a shop's POST of a new employee.
OtherTakes(e) ==
    /\ ~Taken(e)
    /\ account' = [account EXCEPT ![e] = [NoAccount EXCEPT !.by = Other]]
    /\ UNCHANGED <<session, open, chat, chats, faults>>

Next ==
    \/ \E v \in Visitors :
        \/ Submit(v)
        \/ \E type \in AccountTypes \cup {"unknown"}, saved \in BOOLEAN :
               Start(v, type, saved) \/ ChatRegisters(v, type, saved)
        \/ Cancel(v)
        \/ \E seen \in BOOLEAN : ChatReads(v, seen)
        \/ ChatInterrupts(v) \/ ChatReminds(v) \/ ChatsElsewhere(v)
        \/ Reload(v)
    \/ \E e \in Emails : OtherTakes(e)

\* The visitor goes on: a good answer to the form asked for, and a reload when
\* that form is not on the page.
Answers(v) ==
    /\ Active(v)
    /\ LET step == session[v].step IN
        \/ \E value \in ValuesOf(step) \ {Malformed} :
               \/ SubmitStep(v, step, value, TRUE, TRUE, FALSE)
               \/ SubmitFinal(v, step, value, TRUE, TRUE)
        \/ ~BagIn(step, open[v]) /\ Reload(v)

Fairness == \A v \in Visitors : WF_vars(Answers(v))

Spec == Init /\ [][Next]_vars /\ Fairness

-----------------------------------------------------------------------------
(* Properties.                                                             *)

Sessions ==
    [step : AllSteps \cup {"none"}, type : AccountTypes \cup {"unknown"},
     email : Emails \cup {Malformed}, entered : SUBSET AllSteps, checked : SUBSET AllSteps]

Accounts ==
    [by : Visitors \cup {Other, "nobody"}, type : AccountTypes \cup {"unknown"}, shop : BOOLEAN,
     checked : SUBSET AllSteps, ended : AllSteps \cup {"none"}]

TypeOK ==
    /\ session \in [Visitors -> Sessions]
    /\ account \in [Emails \cup {Malformed} -> Accounts]
    /\ DOMAIN open = Visitors
    /\ \A v \in Visitors : /\ IsABag(open[v]) /\ BagToSet(open[v]) \subseteq AllSteps
                           /\ Cardinality(Shown(open[v])) <= MaxOpen
    /\ chat \in [Visitors -> [waits : BOOLEAN, saw : AllSteps \cup {"none"}]]
    /\ chats \in 0 .. MaxChats /\ faults \in 0 .. MaxFaults

\* A session has passed exactly the checks of the steps before its own, in
\* the order of its account type, whichever forms were submitted, cancelled,
\* repeated or lost on the way, and its address is well-formed from then on.
SessionsAreSound == \A v \in Visitors : Active(v) =>
    LET s == session[v] IN
    /\ s.step \in Range(StepsOf(s.type))
    /\ s.checked = Before(s.step, s.type) /\ s.entered = s.checked
    /\ "email" \in s.checked <=> s.email \in Emails
    /\ "account_type" \in s.checked <=> s.type \in AccountTypes

\* What the invariant of sessions and the types amount to.
IInv == TypeOK /\ SessionsAreSound

\* An account that came out of the chat has a shop exactly when its owner
\* keeps one, and all of its data was checked but what the form held that ended
\* the registration, be it "confirm" or an earlier form still open.
AccountsAreComplete == \A e \in DOMAIN account : account[e].by \in Visitors =>
    LET a == account[e] IN
    /\ a.type \in AccountTypes /\ (a.shop <=> a.type = "shop_owner")
    /\ a.checked = Before("confirm", a.type) \ {a.ended}

\* A visitor who goes on answering gets to the end: the registration ends, in
\* an account or by being given up, unless an address it could have is gone.
NobodyIsStranded == \A v \in Visitors :
    Active(v) ~> \/ ~Active(v)
                 \/ "email" \in session[v].checked /\ Taken(session[v].email)
                 \/ \A e \in Emails : Taken(e)
=============================================================================
