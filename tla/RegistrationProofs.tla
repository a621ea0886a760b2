------------------------- MODULE RegistrationProofs -------------------------
(***************************************************************************)
(* Sessions have passed the checks of the steps before their own, accounts *)
(* hold checked data, and a page shows no more forms than it has room for, *)
(* for any number of visitors, addresses, forms, messages and failures.    *)
(***************************************************************************)
EXTENDS Registration, FiniteSetTheorems, TLAPS

-----------------------------------------------------------------------------
(* The steps of an account type.                                           *)

\* The lists as functions of the index.
LEMMA StepLists ==
    /\ Len(SHOP_OWNER_STEPS) = 8 /\ Len(CUSTOMER_STEPS) = 5
    /\ SHOP_OWNER_STEPS[1] = "account_type" /\ SHOP_OWNER_STEPS[2] = "email"
    /\ SHOP_OWNER_STEPS[3] = "username" /\ SHOP_OWNER_STEPS[4] = "password"
    /\ SHOP_OWNER_STEPS[5] = "shop_name" /\ SHOP_OWNER_STEPS[6] = "shop_type"
    /\ SHOP_OWNER_STEPS[7] = "shop_address" /\ SHOP_OWNER_STEPS[8] = "confirm"
    /\ CUSTOMER_STEPS[1] = "account_type" /\ CUSTOMER_STEPS[2] = "email"
    /\ CUSTOMER_STEPS[3] = "username" /\ CUSTOMER_STEPS[4] = "password"
    /\ CUSTOMER_STEPS[5] = "confirm"
    /\ DOMAIN SHOP_OWNER_STEPS = 1 .. 8 /\ DOMAIN CUSTOMER_STEPS = 1 .. 5
BY DEF SHOP_OWNER_STEPS, CUSTOMER_STEPS

\* A list has its domain and repeats no step.
LEMMA StepsDiffer ==
    ASSUME NEW t
    PROVE  /\ Len(StepsOf(t)) \in {5, 8} /\ DOMAIN StepsOf(t) = 1 .. Len(StepsOf(t))
           /\ \A i, j \in 1 .. Len(StepsOf(t)) : StepsOf(t)[i] = StepsOf(t)[j] => i = j
           /\ \A i \in 1 .. Len(StepsOf(t)) : StepsOf(t)[i] = "confirm" <=> i = Len(StepsOf(t))
           /\ StepsOf(t)[1] = "account_type" /\ StepsOf(t)[2] = "email"
<1>1. CASE t = "shop_owner"
  <2> DEFINE c == SHOP_OWNER_STEPS
  <2>1. StepsOf(t) = c
    BY <1>1 DEF StepsOf
  <2>2. Len(c) = 8 /\ DOMAIN c = 1 .. 8 /\ c[1] = "account_type" /\ c[2] = "email"
    BY StepLists
  <2>3. \A i, j \in 1 .. 8 : c[i] = c[j] => i = j
    BY StepLists
  <2>4. \A i \in 1 .. 8 : c[i] = "confirm" <=> i = 8
    BY StepLists
  <2> HIDE DEF c
  <2> QED BY <2>1, <2>2, <2>3, <2>4
<1>2. CASE t # "shop_owner"
  <2> DEFINE c == CUSTOMER_STEPS
  <2>1. StepsOf(t) = c
    BY <1>2 DEF StepsOf
  <2>2. Len(c) = 5 /\ DOMAIN c = 1 .. 5 /\ c[1] = "account_type" /\ c[2] = "email"
    BY StepLists
  <2>3. \A i, j \in 1 .. 5 : c[i] = c[j] => i = j
    BY StepLists
  <2>4. \A i \in 1 .. 5 : c[i] = "confirm" <=> i = 5
    BY StepLists
  <2> HIDE DEF c
  <2> QED BY <2>1, <2>2, <2>3, <2>4
<1> QED BY <1>1, <1>2

\* IndexOf is the inverse of a list.
LEMMA IndexOfStep ==
    ASSUME NEW t, NEW i \in 1 .. Len(StepsOf(t))
    PROVE  IndexOf(StepsOf(t)[i], t) = i
BY StepsDiffer DEF IndexOf

\* Every account type has the first two steps.
LEMMA FirstStepsInRange ==
    ASSUME NEW t PROVE "account_type" \in Range(StepsOf(t)) /\ "email" \in Range(StepsOf(t))
<1>1. {1, 2} \subseteq DOMAIN StepsOf(t)
  BY StepsDiffer
<1>2. StepsOf(t)[1] \in Range(StepsOf(t)) /\ StepsOf(t)[2] \in Range(StepsOf(t))
  BY <1>1 DEF Range
<1> QED BY <1>2, StepsDiffer

\* What comes before the first steps, and before the step that follows one.
LEMMA FirstSteps ==
    ASSUME NEW t
    PROVE  Before("account_type", t) = {} /\ Before("email", t) = {"account_type"}
<1>1. IndexOf("account_type", t) = 1 /\ IndexOf("email", t) = 2
  BY IndexOfStep, StepsDiffer
<1> QED BY <1>1, StepsDiffer DEF Before

LEMMA NextStep ==
    ASSUME NEW t, NEW step \in Range(StepsOf(t)), step # "confirm"
    PROVE  LET next == StepsOf(t)[IndexOf(step, t) + 1]
           IN  next \in Range(StepsOf(t)) /\ Before(next, t) = Before(step, t) \cup {step}
<1>1. PICK i \in 1 .. Len(StepsOf(t)) : step = StepsOf(t)[i]
  BY StepsDiffer DEF Range
<1>2. i \in Nat /\ i # Len(StepsOf(t)) /\ i + 1 \in 1 .. Len(StepsOf(t))
  BY <1>1, StepsDiffer
<1> DEFINE next == StepsOf(t)[i + 1]
<1>3. IndexOf(step, t) = i /\ IndexOf(next, t) = i + 1
  BY <1>1, <1>2, IndexOfStep
<1>4. Before(step, t) = {StepsOf(t)[j] : j \in 1 .. i - 1}
  BY <1>3 DEF Before
<1>5. Before(next, t) = {StepsOf(t)[j] : j \in 1 .. i}
  BY <1>3, <1>2 DEF Before
<1>6. 1 .. i = (1 .. i - 1) \cup {i}
  BY <1>2
<1>7. Before(next, t) = Before(step, t) \cup {step}
  BY <1>4, <1>5, <1>6, <1>1
<1>8. next \in Range(StepsOf(t))
  BY <1>2, StepsDiffer DEF Range
<1> QED BY <1>3, <1>7, <1>8

\* The last step of an owner comes after the shop's name; every step is known.
LEMMA OwnersNameTheirShop == "shop_name" \in Before("confirm", "shop_owner")
<1>1. Len(StepsOf("shop_owner")) = 8 /\ StepsOf("shop_owner")[8] = "confirm" /\ StepsOf("shop_owner")[5] = "shop_name"
  BY StepLists DEF StepsOf
<1>2. IndexOf("confirm", "shop_owner") = 8
  BY <1>1, IndexOfStep
<1> QED BY <1>1, <1>2 DEF Before

LEMMA StepsAreKnown ==
    ASSUME NEW t
    PROVE  Range(StepsOf(t)) \subseteq AllSteps /\ "none" \notin AllSteps
<1>1. AllSteps = {SHOP_OWNER_STEPS[i] : i \in 1 .. 8}
  BY StepLists DEF AllSteps, Range
<1>2. Range(StepsOf(t)) \subseteq AllSteps
  <2>1. CASE t = "shop_owner"
    BY <2>1 DEF StepsOf, AllSteps
  <2>2. CASE t # "shop_owner"
    <3>1. Range(StepsOf(t)) = {CUSTOMER_STEPS[i] : i \in 1 .. 5}
      BY <2>2, StepLists DEF StepsOf, Range
    <3> QED BY <1>1, <3>1, StepLists
  <2> QED BY <2>1, <2>2
<1>3. "none" \notin AllSteps
  BY <1>1, StepLists
<1> QED BY <1>2, <1>3

-----------------------------------------------------------------------------
(* One session.                                                            *)

\* What SessionsAreSound says of a session that is there.
Sound(s) ==
    /\ s \in Sessions
    /\ s.step # "none" =>
        /\ s.step \in Range(StepsOf(s.type))
        /\ s.checked = Before(s.step, s.type) /\ s.entered = s.checked
        /\ "email" \in s.checked <=> s.email \in Emails
        /\ "account_type" \in s.checked <=> s.type \in AccountTypes

LEMMA AllSound ==
    ASSUME session \in [Visitors -> Sessions]
    PROVE  SessionsAreSound <=> \A v \in Visitors : Sound(session[v])
BY DEF SessionsAreSound, Sound, Active

\* A session with four of its fields set.
LEMMA Updated ==
    ASSUME NEW Steps, NEW Types, NEW Addresses, NEW Sets,
           NEW s \in [step : Steps, type : Types, email : Addresses, entered : Sets, checked : Sets],
           NEW a, NEW t, NEW c, NEW d
    PROVE  [s EXCEPT !.email = a, !.type = t, !.entered = c, !.checked = d]
               \in [step : {s.step}, type : {t}, email : {a}, entered : {c}, checked : {d}]
OBVIOUS

LEMMA MovedOn ==
    ASSUME NEW Steps, NEW Types, NEW Addresses, NEW Sets,
           NEW s \in [step : Steps, type : Types, email : Addresses, entered : Sets, checked : Sets],
           NEW p
    PROVE  [s EXCEPT !.step = p]
               \in [step : {p}, type : {s.type}, email : {s.email},
                    entered : {s.entered}, checked : {s.checked}]
OBVIOUS

LEMMA NoneSound == Sound(NoSession)
BY DEF Sound, NoSession, Sessions

LEMMA StartedSound == ASSUME NEW type PROVE Sound(Started(type))
<1>1. {"account_type", "email"} \subseteq Range(StepsOf(type))
  BY FirstStepsInRange
<1>2. {"account_type", "email"} \subseteq AllSteps
  BY <1>1, StepsAreKnown
<1>3. Malformed \notin Emails
  BY RegistrationConstants
<1>4. CASE type \in AccountTypes
  <2>1. Started(type) = [step |-> "email", type |-> type, email |-> Malformed,
                         entered |-> {"account_type"}, checked |-> {"account_type"}]
    BY <1>4 DEF Started
  <2> QED BY <2>1, <1>1, <1>2, <1>3, <1>4, FirstSteps DEF Sound, Sessions
<1>5. CASE type \notin AccountTypes
  <2>1. Started(type) = [step |-> "account_type", type |-> "unknown", email |-> Malformed,
                         entered |-> {}, checked |-> {}]
    BY <1>5 DEF Started
  <2>2. "account_type" \in Range(StepsOf("unknown"))
    BY FirstStepsInRange
  <2>3. "unknown" \notin AccountTypes
    BY DEF AccountTypes
  <2> QED BY <2>1, <2>2, <2>3, <1>2, <1>3, FirstSteps DEF Sound, Sessions
<1> QED BY <1>4, <1>5

\* A valid answer before "confirm" takes a sound session to a sound one.
LEMMA AdvancedSound ==
    ASSUME NEW s, Sound(s), s.step \notin {"none", "confirm"},
           NEW form, NEW value \in ValuesOf(form), NEW unasked,
           Valid(s, form, value, unasked)
    PROVE  /\ Sound(Advanced(Merged(s, form, value)))
           /\ Advanced(Merged(s, form, value)).step \in AllSteps
<1> DEFINE type == IF s.step = "account_type" THEN value ELSE s.type
           next == StepsOf(type)[IndexOf(s.step, type) + 1]
           n == Advanced(Merged(s, form, value))
<1>1. s \in Sessions /\ s.step \in Range(StepsOf(s.type)) /\ form = s.step
  BY DEF Sound, Valid
<1>2. /\ s.checked = Before(s.step, s.type) /\ s.entered = s.checked
      /\ "email" \in s.checked <=> s.email \in Emails
      /\ "account_type" \in s.checked <=> s.type \in AccountTypes
  BY DEF Sound
<1>3. /\ n \in [step : {next}, type : {type}, email : {IF form = "email" THEN value ELSE s.email},
                entered : {s.entered \cup {form}}, checked : {s.checked \cup {form}}]
  <2> DEFINE a == IF form = "email" THEN value ELSE s.email
             c == s.entered \cup {form}
             d == s.checked \cup {form}
             m == [s EXCEPT !.email = a, !.type = type, !.entered = c, !.checked = d]
  <2>1. Merged(s, form, value) = m
    BY DEF Merged
  <2>2. m \in [step : {s.step}, type : {type}, email : {a}, entered : {c}, checked : {d}]
    <3> HIDE DEF a, type, c, d
    <3> QED BY <1>1, Updated DEF Sessions
  <2>3. n = [m EXCEPT !.step = next]
    <3>1. m.step = s.step /\ m.type = type
      <4> HIDE DEF m, type
      <4> QED BY <2>2
    <3> HIDE DEF m, type
    <3> QED BY <2>1, <3>1 DEF Advanced
  <2>4. n \in [step : {next}, type : {m.type}, email : {m.email}, entered : {m.entered}, checked : {m.checked}]
    <3> HIDE DEF m, n, next, a, type, c, d
    <3> QED BY <2>2, <2>3, MovedOn
  <2>5. m.type = type /\ m.email = a /\ m.entered = c /\ m.checked = d
    <3> HIDE DEF m, a, type, c, d
    <3> QED BY <2>2
  <2> HIDE DEF m, n, next, type
  <2> QED BY <2>4, <2>5
<1>4. form = "account_type" => value \in AccountTypes
  BY DEF ValuesOf
<1>5. form = "email" => value \in Emails
  BY <1>1 DEF Valid
<1>6. /\ s.step \in Range(StepsOf(type)) /\ Before(s.step, type) = s.checked
      /\ type \in AccountTypes \cup {"unknown"}
      /\ "account_type" \in s.checked \cup {form} <=> type \in AccountTypes
  <2>1. CASE s.step = "account_type"
    <3>1. s.step \in Range(StepsOf(type))
      BY <2>1, FirstStepsInRange
    <3>2. Before(s.step, type) = {} /\ Before(s.step, s.type) = {}
      BY <2>1, FirstSteps
    <3> QED BY <2>1, <3>1, <3>2, <1>1, <1>2, <1>4
  <2>2. CASE s.step # "account_type"
    BY <2>2, <1>1, <1>2 DEF Sessions
  <2> QED BY <2>1, <2>2
<1>7. next \in Range(StepsOf(type)) /\ Before(next, type) = s.checked \cup {form}
  BY <1>1, <1>6, NextStep
<1>8. form \in AllSteps /\ next \in AllSteps
  BY <1>1, <1>7, StepsAreKnown
<1> HIDE DEF n, next, type
<1>9. n \in Sessions
  BY <1>1, <1>3, <1>5, <1>6, <1>8 DEF Sessions
<1>10. "email" \in s.checked \cup {form} <=> n.email \in Emails
  BY <1>2, <1>3, <1>5
<1>11. n.step \in Range(StepsOf(n.type)) /\ n.checked = Before(n.step, n.type) /\ n.entered = n.checked
  BY <1>2, <1>3, <1>7
<1>12. Sound(n)
  BY <1>3, <1>6, <1>9, <1>10, <1>11 DEF Sound
<1>13. n.step \in AllSteps
  BY <1>3, <1>8
<1> QED BY <1>12, <1>13 DEF n

\* What is merged at "confirm" makes a complete account.
LEMMA AccountComplete ==
    ASSUME NEW s, Sound(s), s.step = "confirm", NEW form, NEW value, NEW v
    PROVE  LET a == AccountOf(v, Merged(s, form, value), form)
           IN  /\ a.type \in AccountTypes /\ (a.shop <=> a.type = "shop_owner")
               /\ a.checked = Before("confirm", a.type) \ {a.ended}
<1>1. s \in Sessions /\ s.entered = Before("confirm", s.type) /\ s.checked = s.entered
  BY DEF Sound
<1>2. "account_type" \in Before("confirm", s.type)
  <2>1. Len(StepsOf(s.type)) \in {5, 8} /\ StepsOf(s.type)[Len(StepsOf(s.type))] = "confirm"
    BY StepsDiffer
  <2> DEFINE last == Len(StepsOf(s.type))
  <2>2. last \in 1 .. last
    <3>1. last = 5 \/ last = 8
      BY <2>1
    <3> HIDE DEF last
    <3> QED BY <3>1
  <2>3. IndexOf(StepsOf(s.type)[last], s.type) = last
    BY <2>2, IndexOfStep
  <2>4. 1 \in 1 .. IndexOf("confirm", s.type) - 1 /\ StepsOf(s.type)[1] = "account_type"
    BY <2>1, <2>3, StepsDiffer
  <2> QED BY <2>4 DEF Before
<1>3. s.type \in AccountTypes
  BY <1>1, <1>2 DEF Sound
<1> DEFINE m == Merged(s, form, value)
<1>4. m.type = s.type /\ m.checked = s.checked \ {form} /\ m.entered = s.entered \cup {form}
  BY <1>1 DEF Merged, Sessions
<1> HIDE DEF m
<1>5. s.type = "shop_owner" => "shop_name" \in m.entered
  BY <1>1, <1>4, OwnersNameTheirShop
<1>6. AccountOf(v, m, form).type \in AccountTypes
  BY <1>3, <1>4 DEF AccountOf
<1>7. AccountOf(v, m, form).shop <=> AccountOf(v, m, form).type = "shop_owner"
  BY <1>4, <1>5 DEF AccountOf
<1>8. AccountOf(v, m, form).checked =
          Before("confirm", AccountOf(v, m, form).type) \ {AccountOf(v, m, form).ended}
  BY <1>1, <1>4 DEF AccountOf
<1> QED BY <1>6, <1>7, <1>8 DEF m

-----------------------------------------------------------------------------
(* The invariant, one lemma per kind of step.                              *)

Complete(a) == a.by \in Visitors =>
    /\ a.type \in AccountTypes /\ (a.shop <=> a.type = "shop_owner")
    /\ a.checked = Before("confirm", a.type) \ {a.ended}

SInv ==
    /\ session \in [Visitors -> Sessions]
    /\ \A v \in Visitors : Sound(session[v])
    /\ \A e \in DOMAIN account : Complete(account[e])

LEMMA InitSound == ASSUME Init PROVE SInv
<1>1. NoSession \in Sessions
  BY NoneSound DEF Sound
<1>2. Complete(NoAccount)
  BY RegistrationConstants DEF Complete, NoAccount
<1> QED BY <1>1, <1>2, NoneSound DEF Init, SInv

\* Steps that leave sessions and accounts, or set one session to a sound one.
LEMMA UnchangedSound == ASSUME SInv, UNCHANGED <<session, account>> PROVE SInv'
BY DEF SInv

LEMMA SessionSound ==
    ASSUME SInv, NEW v \in Visitors, NEW s, Sound(s),
           session' = session \/ session' = [session EXCEPT ![v] = s],
           account' = account
    PROVE  SInv'
<1>1. CASE session' = session
  BY <1>1, UnchangedSound
<1>2. CASE session' = [session EXCEPT ![v] = s]
  <2>1. s \in Sessions
    BY DEF Sound
  <2>2. session' \in [Visitors -> Sessions]
    BY <1>2, <2>1 DEF SInv
  <2>3. ASSUME NEW w \in Visitors PROVE Sound(session'[w])
    <3>1. session'[w] = IF w = v THEN s ELSE session[w]
      BY <1>2 DEF SInv
    <3> QED BY <3>1 DEF SInv
  <2> QED BY <2>2, <2>3 DEF SInv
<1> QED BY <1>1, <1>2

LEMMA SubmitSound == ASSUME SInv, NEW v \in Visitors, Submit(v) PROVE SInv'
<1>1. PICK form \in BagToSet(open[v]) :
        \/ SubmitUnseen(v, form)
        \/ \E value \in ValuesOf(form) :
            \/ SubmitRefused(v, form, value)
            \/ \E saved, answered, unasked \in BOOLEAN :
                   SubmitStep(v, form, value, saved, answered, unasked)
            \/ \E cleared, answered \in BOOLEAN : SubmitFinal(v, form, value, cleared, answered)
            \/ SubmitFails(v, form, value)
  BY DEF Submit
<1>2. Sound(session[v])
  BY DEF SInv
<1>3. CASE SubmitUnseen(v, form)
  BY <1>3, UnchangedSound DEF SubmitUnseen
<1>4. ASSUME NEW value \in ValuesOf(form), SubmitRefused(v, form, value) PROVE SInv'
  BY <1>4, UnchangedSound DEF SubmitRefused, vars
<1>5. ASSUME NEW value \in ValuesOf(form), NEW saved \in BOOLEAN, NEW answered \in BOOLEAN,
             NEW unasked \in BOOLEAN, SubmitStep(v, form, value, saved, answered, unasked)
      PROVE  SInv'
  <2> DEFINE next == Advanced(Merged(session[v], form, value))
  <2>1. session[v].step \notin {"none", "confirm"} /\ Valid(session[v], form, value, unasked)
    BY <1>5 DEF SubmitStep, Active, IsFinal
  <2>2. Sound(next)
    BY <1>2, <2>1, AdvancedSound
  <2>3. account' = account /\ Saves(v, next, saved)
    BY <1>5 DEF SubmitStep
  <2>4. session' = session \/ session' = [session EXCEPT ![v] = next]
    BY <2>3 DEF Saves
  <2> HIDE DEF next
  <2> QED BY <2>2, <2>3, <2>4, SessionSound
<1>6. ASSUME NEW value \in ValuesOf(form), NEW cleared \in BOOLEAN, NEW answered \in BOOLEAN,
             SubmitFinal(v, form, value, cleared, answered)
      PROVE  SInv'
  <2> DEFINE m == Merged(session[v], form, value)
             a == AccountOf(v, m, form)
  <2>1. session[v].step = "confirm" /\ Saves(v, NoSession, cleared)
    BY <1>6 DEF SubmitFinal, IsFinal
  <2>2. account' = [account EXCEPT ![m.email] = a]
    BY <1>6 DEF SubmitFinal
  <2>3. Complete(a)
    BY <1>2, <2>1, AccountComplete DEF Complete
  <2>4. ASSUME NEW e \in DOMAIN account' PROVE Complete(account'[e])
    <3> HIDE DEF m, a
    <3>1. e \in DOMAIN account /\ account'[e] = IF e = m.email THEN a ELSE account[e]
      BY <2>2
    <3> QED BY <2>3, <3>1 DEF SInv
  <2>5. session' = session \/ session' = [session EXCEPT ![v] = NoSession]
    BY <2>1 DEF Saves
  <2>6. session' \in [Visitors -> Sessions] /\ \A w \in Visitors : Sound(session'[w])
    <3>1. NoSession \in Sessions
      BY NoneSound DEF Sound
    <3>2. ASSUME NEW w \in Visitors PROVE session'[w] = session[w] \/ session'[w] = NoSession
      BY <2>5 DEF SInv
    <3> QED BY <2>5, <3>1, <3>2, NoneSound DEF SInv
  <2> QED BY <2>4, <2>6 DEF SInv
<1>7. ASSUME NEW value \in ValuesOf(form), SubmitFails(v, form, value) PROVE SInv'
  BY <1>7, UnchangedSound DEF SubmitFails, KeptOnFailure
<1> QED BY <1>1, <1>3, <1>4, <1>5, <1>6, <1>7

LEMMA StartSound ==
    ASSUME SInv, NEW v \in Visitors, NEW type, NEW saved \in BOOLEAN,
           Start(v, type, saved) \/ ChatRegisters(v, type, saved)
    PROVE  SInv'
<1>1. Saves(v, Started(type), saved) /\ account' = account
  BY DEF Start, ChatRegisters, Answered
<1>2. session' = session \/ session' = [session EXCEPT ![v] = Started(type)]
  BY <1>1 DEF Saves
<1> QED BY <1>1, <1>2, StartedSound, SessionSound

\* A registration given up, or ended by a message.
LEMMA EndSound ==
    ASSUME SInv, NEW v \in Visitors, Cancel(v) \/ ChatInterrupts(v)
    PROVE  SInv'
<1>1. session' = [session EXCEPT ![v] = NoSession] /\ account' = account
  BY DEF Cancel, ChatInterrupts, Answered
<1> QED BY <1>1, NoneSound, SessionSound

LEMMA ChatSound ==
    ASSUME SInv, NEW v \in Visitors,
           \/ \E seen \in BOOLEAN : ChatReads(v, seen)
           \/ ChatReminds(v) \/ ChatsElsewhere(v) \/ Reload(v)
    PROVE  SInv'
<1>1. UNCHANGED <<session, account>>
  BY DEF ChatReads, ChatReminds, ChatsElsewhere, Reload, Answered
<1> QED BY <1>1, UnchangedSound

LEMMA OtherSound == ASSUME SInv, NEW e \in Emails, OtherTakes(e) PROVE SInv'
<1> DEFINE a == [NoAccount EXCEPT !.by = Other]
<1>1. session' = session /\ account' = [account EXCEPT ![e] = a]
  BY DEF OtherTakes
<1>2. Complete(a)
  BY RegistrationConstants DEF Complete, NoAccount
<1>3. ASSUME NEW f \in DOMAIN account' PROVE Complete(account'[f])
  <2> HIDE DEF a
  <2> QED BY <1>1, <1>2 DEF SInv
<1> QED BY <1>1, <1>3 DEF SInv

LEMMA StepSound == ASSUME SInv, [Next]_vars PROVE SInv'
<1>1. CASE UNCHANGED vars
  BY <1>1, UnchangedSound DEF vars
<1>2. CASE Next
  <2>1. ASSUME NEW v \in Visitors, Submit(v) PROVE SInv'
    BY <2>1, SubmitSound
  <2>2. ASSUME NEW v \in Visitors, NEW type, NEW saved \in BOOLEAN,
               Start(v, type, saved) \/ ChatRegisters(v, type, saved)
        PROVE  SInv'
    BY <2>2, StartSound
  <2>3. ASSUME NEW v \in Visitors, Cancel(v) \/ ChatInterrupts(v) PROVE SInv'
    BY <2>3, EndSound
  <2>4. ASSUME NEW v \in Visitors,
               \/ \E seen \in BOOLEAN : ChatReads(v, seen)
               \/ ChatReminds(v) \/ ChatsElsewhere(v) \/ Reload(v)
        PROVE  SInv'
    BY <2>4, ChatSound
  <2>5. ASSUME NEW e \in Emails, OtherTakes(e) PROVE SInv'
    BY <2>5, OtherSound
  <2> QED BY <1>2, <2>1, <2>2, <2>3, <2>4, <2>5 DEF Next
<1> QED BY <1>1, <1>2

-----------------------------------------------------------------------------
(* The forms of a page.                                                    *)

\* What a page can hold.
Page(forms) ==
    /\ IsABag(forms) /\ BagToSet(forms) \subseteq AllSteps
    /\ IsFiniteSet(Shown(forms)) /\ Cardinality(Shown(forms)) \in 0 .. MaxOpen

LEMMA ShownForms ==
    ASSUME NEW forms
    PROVE  \A x : x \in Shown(forms) <=>
                \E step \in DOMAIN forms : \E n \in 1 .. forms[step] : x = <<step, n>>
<1> TAKE x
<1>1. x \in Shown(forms) <=> \E step \in DOMAIN forms : x \in {step} \X (1 .. forms[step])
  BY DEF Shown, BagToSet
<1>2. \A step \in DOMAIN forms :
        x \in {step} \X (1 .. forms[step]) <=> \E n \in 1 .. forms[step] : x = <<step, n>>
  OBVIOUS
<1> QED BY <1>1, <1>2

\* One more form is one more pair.
LEMMA FormAdded ==
    ASSUME NEW forms, NEW step \in AllSteps, Page(forms)
    PROVE  LET more == BagAdd(forms, step) IN
           /\ IsABag(more) /\ BagToSet(more) \subseteq AllSteps
           /\ IsFiniteSet(Shown(more)) /\ Cardinality(Shown(more)) = Cardinality(Shown(forms)) + 1
<1> DEFINE more == BagAdd(forms, step)
           n == IF step \in DOMAIN forms THEN forms[step] + 1 ELSE 1
<1>1. forms \in [DOMAIN forms -> {k \in Nat : k > 0}] /\ DOMAIN forms \subseteq AllSteps
  BY DEF Page, IsABag, BagToSet
<1>2. /\ DOMAIN more = DOMAIN forms \cup {step}
      /\ \A f \in DOMAIN more : more[f] = IF f = step THEN n ELSE forms[f]
  <2>1. CASE step \in DOMAIN forms
    <3>1. more = [e \in DOMAIN forms |-> IF e = step THEN forms[e] + 1 ELSE forms[e]]
      BY <2>1 DEF BagAdd
    <3> QED BY <2>1, <3>1
  <2>2. CASE step \notin DOMAIN forms
    <3>1. more = [e \in DOMAIN forms \cup {step} |-> IF e = step THEN 1 ELSE forms[e]]
      BY <2>2 DEF BagAdd
    <3> QED BY <2>2, <3>1
  <2> QED BY <2>1, <2>2
<1>3. n \in Nat /\ n > 0
  BY <1>1
<1>4. more \in [DOMAIN more -> {k \in Nat : k > 0}]
  <2>1. more = [f \in DOMAIN more |-> more[f]]
    BY DEF BagAdd
  <2>2. \A f \in DOMAIN more : more[f] \in {k \in Nat : k > 0}
    BY <1>1, <1>2, <1>3
  <2> HIDE DEF more
  <2> QED BY <2>1, <2>2
<1>5. \A x : x \in Shown(more) <=> x \in Shown(forms) \/ x = <<step, n>>
  <2> TAKE x
  <2>1. ASSUME NEW f \in DOMAIN more, NEW k \in 1 .. more[f], x = <<f, k>>
        PROVE  x \in Shown(forms) \/ x = <<step, n>>
    <3>1. CASE f = step
      <4>1. k = n \/ (step \in DOMAIN forms /\ k \in 1 .. forms[step])
        BY <1>1, <1>2, <2>1, <3>1
      <4> QED BY <2>1, <3>1, <4>1, ShownForms
    <3>2. CASE f # step
      BY <1>2, <2>1, <3>2, ShownForms
    <3> QED BY <3>1, <3>2
  <2>2. ASSUME NEW f \in DOMAIN forms, NEW k \in 1 .. forms[f], x = <<f, k>>
        PROVE  x \in Shown(more)
    <3>1. f \in DOMAIN more /\ k \in 1 .. more[f]
      BY <1>1, <1>2, <2>2
    <3> HIDE DEF more
    <3> QED BY <2>2, <3>1, ShownForms
  <2>3. step \in DOMAIN more /\ n \in 1 .. more[step]
    BY <1>2, <1>3
  <2>4. <<step, n>> \in Shown(more)
    <3> HIDE DEF more, n
    <3> QED BY <2>3, ShownForms
  <2> HIDE DEF more
  <2>5. x \in Shown(more) => x \in Shown(forms) \/ x = <<step, n>>
    BY <2>1, ShownForms
  <2>6. x \in Shown(forms) => x \in Shown(more)
    BY <2>2, ShownForms
  <2> QED BY <2>4, <2>5, <2>6
<1>6. <<step, n>> \notin Shown(forms)
  <2> SUFFICES ASSUME NEW f \in DOMAIN forms, NEW k \in 1 .. forms[f], <<step, n>> = <<f, k>>
               PROVE  FALSE
    BY ShownForms
  <2>1. f = step /\ k = n
    OBVIOUS
  <2> QED BY <1>1, <2>1
<1> HIDE DEF more, n
<1>7. Shown(more) = Shown(forms) \cup {<<step, n>>}
  BY <1>5
<1>8. IsFiniteSet(Shown(more)) /\ Cardinality(Shown(more)) = Cardinality(Shown(forms)) + 1
  BY <1>6, <1>7, FS_AddElement DEF Page
<1> QED BY <1>1, <1>2, <1>4, <1>8 DEF IsABag, BagToSet, more

\* One form less is one pair less.
LEMMA FormRemoved ==
    ASSUME NEW forms, NEW step \in BagToSet(forms), Page(forms)
    PROVE  LET less == BagRemove(forms, step) IN
           /\ Page(less)
           /\ Cardinality(Shown(less)) = Cardinality(Shown(forms)) - 1
<1> DEFINE less == BagRemove(forms, step)
           n == forms[step]
<1>1. /\ forms \in [DOMAIN forms -> {k \in Nat : k > 0}] /\ DOMAIN forms \subseteq AllSteps
      /\ step \in DOMAIN forms
  BY DEF Page, IsABag, BagToSet
<1>2. n \in Nat /\ n > 0
  BY <1>1
<1>3. /\ DOMAIN less = IF n = 1 THEN DOMAIN forms \ {step} ELSE DOMAIN forms
      /\ \A f \in DOMAIN less : less[f] = IF f = step THEN n - 1 ELSE forms[f]
  <2>1. CASE n = 1
    <3>1. less = [e \in DOMAIN forms \ {step} |-> forms[e]]
      BY <1>1, <2>1 DEF BagRemove
    <3> QED BY <2>1, <3>1
  <2>2. CASE n # 1
    <3>1. less = [e \in DOMAIN forms |-> IF e = step THEN forms[e] - 1 ELSE forms[e]]
      BY <1>1, <2>2 DEF BagRemove
    <3> QED BY <2>2, <3>1
  <2> QED BY <2>1, <2>2
<1>4. less \in [DOMAIN less -> {k \in Nat : k > 0}]
  <2>1. less = [f \in DOMAIN less |-> less[f]]
    BY <1>1 DEF BagRemove
  <2>2. \A f \in DOMAIN less : less[f] \in {k \in Nat : k > 0}
    BY <1>1, <1>2, <1>3
  <2> HIDE DEF less
  <2> QED BY <2>1, <2>2
<1>5. \A x : x \in Shown(less) <=> x \in Shown(forms) /\ x # <<step, n>>
  <2> TAKE x
  <2>1. ASSUME NEW f \in DOMAIN less, NEW k \in 1 .. less[f], x = <<f, k>>
        PROVE  x \in Shown(forms) /\ x # <<step, n>>
    <3>1. f \in DOMAIN forms /\ k \in 1 .. forms[f] /\ (f = step => k # n)
      BY <1>1, <1>2, <1>3, <2>1
    <3> HIDE DEF n
    <3>2. x # <<step, n>>
      BY <2>1, <3>1
    <3> QED BY <2>1, <3>1, <3>2, ShownForms
  <2>2. ASSUME NEW f \in DOMAIN forms, NEW k \in 1 .. forms[f], x = <<f, k>>, x # <<step, n>>
        PROVE  x \in Shown(less)
    <3>1. f = step => k # n
      BY <2>2
    <3>2. f \in DOMAIN less /\ k \in 1 .. less[f]
      BY <1>1, <1>2, <1>3, <2>2, <3>1
    <3> HIDE DEF less
    <3> QED BY <2>2, <3>2, ShownForms
  <2> HIDE DEF less, n
  <2>3. x \in Shown(less) => x \in Shown(forms) /\ x # <<step, n>>
    BY <2>1, ShownForms
  <2>4. x \in Shown(forms) /\ x # <<step, n>> => x \in Shown(less)
    BY <2>2, ShownForms
  <2> QED BY <2>3, <2>4
<1>6. <<step, n>> \in Shown(forms)
  <2>1. step \in DOMAIN forms /\ n \in 1 .. forms[step]
    BY <1>1, <1>2
  <2> QED BY <2>1, ShownForms
<1>7. IsFiniteSet(Shown(forms)) /\ Cardinality(Shown(forms)) \in 0 .. MaxOpen
  BY DEF Page
<1> HIDE DEF less, n
<1>8. Shown(less) = Shown(forms) \ {<<step, n>>}
  BY <1>5
<1>9. IsFiniteSet(Shown(less)) /\ Cardinality(Shown(less)) = Cardinality(Shown(forms)) - 1
  BY <1>6, <1>7, <1>8, FS_RemoveElement
<1>10. Cardinality(Shown(less)) \in 0 .. MaxOpen
  <2>1. Cardinality(Shown(less)) \in Nat
    BY <1>9, FS_CardinalityType
  <2> QED BY <1>7, <1>9, <2>1, RegistrationConstants
<1>11. DOMAIN less \subseteq AllSteps
  BY <1>1, <1>3
<1> QED BY <1>4, <1>9, <1>10, <1>11 DEF Page, IsABag, BagToSet, less

\* The page as it is loaded.
LEMMA FreshPage ==
    /\ Page(EmptyBag)
    /\ \A step \in AllSteps : Page(SetToBag({step}))
<1>1. EmptyBag = [e \in {} |-> 1]
  BY DEF EmptyBag, SetToBag
<1>2. Shown(EmptyBag) = {}
  BY <1>1, ShownForms
<1>3. Page(EmptyBag)
  <2>1. IsABag(EmptyBag) /\ BagToSet(EmptyBag) \subseteq AllSteps
    BY <1>1 DEF IsABag, BagToSet
  <2> QED BY <1>2, <2>1, FS_EmptySet, RegistrationConstants DEF Page
<1>4. ASSUME NEW step \in AllSteps PROVE Page(SetToBag({step}))
  <2> DEFINE one == SetToBag({step})
  <2>1. one = [e \in {step} |-> 1]
    BY DEF SetToBag
  <2>2. \A x : x \in Shown(one) <=> x = <<step, 1>>
    <3>1. DOMAIN one = {step} /\ one[step] = 1
      BY <2>1
    <3> HIDE DEF one
    <3> QED BY <3>1, ShownForms
  <2>3. Shown(one) = {<<step, 1>>}
    BY <2>2
  <2>4. IsABag(one) /\ BagToSet(one) \subseteq AllSteps
    BY <2>1 DEF IsABag, BagToSet
  <2> HIDE DEF one
  <2>5. IsFiniteSet(Shown(one)) /\ Cardinality(Shown(one)) = 1
    BY <2>3, FS_Singleton
  <2> QED BY <2>4, <2>5, RegistrationConstants DEF Page, one
<1> QED BY <1>3, <1>4

-----------------------------------------------------------------------------
(* Types: accounts, pages, chat messages and the counters.                 *)

PInv ==
    /\ account \in [Emails \cup {Malformed} -> Accounts]
    /\ DOMAIN open = Visitors
    /\ \A v \in Visitors : Page(open[v])
    /\ chat \in [Visitors -> [waits : BOOLEAN, saw : AllSteps \cup {"none"}]]
    /\ chats \in 0 .. MaxChats /\ faults \in 0 .. MaxFaults

LEMMA InitTyped == ASSUME Init PROVE PInv
<1>1. NoAccount \in Accounts
  BY DEF NoAccount, Accounts
<1>2. Idle \in [waits : BOOLEAN, saw : AllSteps \cup {"none"}]
  BY DEF Idle
<1>3. 0 \in 0 .. MaxChats /\ 0 \in 0 .. MaxFaults
  BY RegistrationConstants
<1> QED BY <1>1, <1>2, <1>3, FreshPage DEF Init, PInv

\* One page is changed, or none.
LEMMA PageChanged ==
    ASSUME PInv, NEW v \in Visitors, NEW forms, Page(forms),
           open' = open \/ open' = [open EXCEPT ![v] = forms]
    PROVE  DOMAIN open' = Visitors /\ \A w \in Visitors : Page(open'[w])
<1>1. DOMAIN open' = Visitors
  BY DEF PInv
<1>2. ASSUME NEW w \in Visitors PROVE Page(open'[w])
  <2>1. open'[w] = open[w] \/ open'[w] = forms
    BY DEF PInv
  <2> QED BY <2>1 DEF PInv
<1> QED BY <1>1, <1>2

\* A message that is answered, or none.
LEMMA MessageAnswered ==
    ASSUME PInv, NEW v \in Visitors, chat' = chat \/ chat' = [chat EXCEPT ![v] = Idle]
    PROVE  chat' \in [Visitors -> [waits : BOOLEAN, saw : AllSteps \cup {"none"}]]
<1>1. CASE chat' = chat
  BY <1>1 DEF PInv
<1>2. CASE chat' = [chat EXCEPT ![v] = Idle]
  <2>1. Idle \in [waits : BOOLEAN, saw : AllSteps \cup {"none"}]
    BY DEF Idle
  <2> QED BY <1>2, <2>1 DEF PInv
<1> QED BY <1>1, <1>2

\* Faults are counted as long as there may be one more.
LEMMA FaultCounted ==
    ASSUME PInv, NEW fails \in BOOLEAN, Failing(fails) PROVE faults' \in 0 .. MaxFaults
<1>1. faults \in Nat /\ faults <= MaxFaults /\ MaxFaults \in Nat
  BY RegistrationConstants DEF PInv
<1>2. CASE fails
  BY <1>1, <1>2 DEF Failing
<1>3. CASE ~fails
  BY <1>1, <1>3 DEF Failing
<1> QED BY <1>2, <1>3

\* The account _finalize_registration commits.
LEMMA AccountTyped ==
    ASSUME NEW s, Sound(s), s.step = "confirm", NEW v \in Visitors,
           NEW form \in AllSteps, NEW value \in ValuesOf(form)
    PROVE  LET m == Merged(s, form, value) IN
           m.email \in Emails \cup {Malformed} /\ AccountOf(v, m, form) \in Accounts
<1> DEFINE m == Merged(s, form, value)
<1>1. s \in Sessions
  BY DEF Sound
<1>2. /\ m.email = (IF form = "email" THEN value ELSE s.email)
      /\ m.type = s.type /\ m.checked = s.checked \ {form}
  BY <1>1 DEF Merged, Sessions
<1>3. form = "email" => value \in Emails \cup {Malformed}
  BY DEF ValuesOf
<1>4. s.email \in Emails \cup {Malformed} /\ s.checked \subseteq AllSteps
      /\ s.type \in AccountTypes \cup {"unknown"}
  BY <1>1 DEF Sessions
<1> HIDE DEF m
<1>5. AccountOf(v, m, form) \in Accounts
  <2>1. m.checked \subseteq AllSteps /\ m.type \in AccountTypes \cup {"unknown"}
    BY <1>2, <1>4
  <2>2. (m.type = "shop_owner" /\ "shop_name" \in m.entered) \in BOOLEAN
    OBVIOUS
  <2> QED BY <2>1, <2>2 DEF AccountOf, Accounts
<1> QED BY <1>2, <1>3, <1>4, <1>5 DEF m

LEMMA SubmitTyped == ASSUME SInv, PInv, NEW v \in Visitors, Submit(v) PROVE PInv'
<1>1. PICK form \in BagToSet(open[v]) :
        \/ SubmitUnseen(v, form)
        \/ \E value \in ValuesOf(form) :
            \/ SubmitRefused(v, form, value)
            \/ \E saved, answered, unasked \in BOOLEAN :
                   SubmitStep(v, form, value, saved, answered, unasked)
            \/ \E cleared, answered \in BOOLEAN : SubmitFinal(v, form, value, cleared, answered)
            \/ SubmitFails(v, form, value)
  BY DEF Submit
<1>2. Sound(session[v]) /\ Page(open[v])
  BY DEF SInv, PInv
<1>3. Page(Closed(v, form)) /\ Cardinality(Shown(Closed(v, form))) < MaxOpen
  <2>1. Cardinality(Shown(open[v])) \in 0 .. MaxOpen
    BY <1>2 DEF Page
  <2>2. Page(Closed(v, form)) /\ Cardinality(Shown(Closed(v, form))) = Cardinality(Shown(open[v])) - 1
    BY <1>2, FormRemoved DEF Closed
  <2> QED BY <2>1, <2>2, RegistrationConstants
<1>4. form \in AllSteps
  BY <1>2 DEF Page
<1>5. CASE SubmitUnseen(v, form)
  <2>1. faults' \in 0 .. MaxFaults
    BY <1>5, FaultCounted DEF SubmitUnseen, Active
  <2>2. DOMAIN open' = Visitors /\ \A w \in Visitors : Page(open'[w])
    BY <1>3, <1>5, PageChanged DEF SubmitUnseen
  <2> QED BY <1>5, <2>1, <2>2 DEF SubmitUnseen, PInv
<1>6. ASSUME NEW value \in ValuesOf(form), SubmitRefused(v, form, value) PROVE PInv'
  BY <1>6 DEF SubmitRefused, vars, PInv
<1>7. ASSUME NEW value \in ValuesOf(form), NEW saved \in BOOLEAN, NEW answered \in BOOLEAN,
             NEW unasked \in BOOLEAN, SubmitStep(v, form, value, saved, answered, unasked)
      PROVE  PInv'
  <2> DEFINE next == Advanced(Merged(session[v], form, value))
             shown == BagAdd(Closed(v, form), next.step)
  <2>1. session[v].step \notin {"none", "confirm"} /\ Valid(session[v], form, value, unasked)
    BY <1>7 DEF SubmitStep, Active, IsFinal
  <2>2. next.step \in AllSteps
    BY <1>2, <2>1, AdvancedSound
  <2>3. /\ open' = open \/ open' = [open EXCEPT ![v] = shown]
        /\ UNCHANGED <<account, chat, chats>>
        /\ Failing(~(saved /\ answered /\ ~unasked))
    BY <1>7 DEF SubmitStep
  <2>4. faults' \in 0 .. MaxFaults
    BY <2>3, FaultCounted
  <2> HIDE DEF next
  <2>5. Page(shown)
    <3>1. Cardinality(Shown(Closed(v, form))) \in 0 .. MaxOpen
      BY <1>3 DEF Page
    <3> QED BY <1>3, <2>2, <3>1, FormAdded, RegistrationConstants DEF Page
  <2> HIDE DEF shown
  <2>6. DOMAIN open' = Visitors /\ \A w \in Visitors : Page(open'[w])
    BY <2>3, <2>5, PageChanged
  <2> QED BY <2>3, <2>4, <2>6 DEF PInv
<1>8. ASSUME NEW value \in ValuesOf(form), NEW cleared \in BOOLEAN, NEW answered \in BOOLEAN,
             SubmitFinal(v, form, value, cleared, answered)
      PROVE  PInv'
  <2> DEFINE m == Merged(session[v], form, value)
             a == AccountOf(v, m, form)
  <2>1. /\ session[v].step = "confirm"
        /\ account' = [account EXCEPT ![m.email] = a]
        /\ open' = open \/ open' = [open EXCEPT ![v] = Closed(v, form)]
        /\ UNCHANGED <<chat, chats>>
        /\ Failing(~(cleared /\ answered))
    BY <1>8 DEF SubmitFinal, IsFinal
  <2>2. m.email \in Emails \cup {Malformed} /\ a \in Accounts
    BY <1>2, <1>4, <2>1, AccountTyped
  <2> HIDE DEF m, a
  <2>3. account' \in [Emails \cup {Malformed} -> Accounts]
    BY <2>1, <2>2 DEF PInv
  <2>4. faults' \in 0 .. MaxFaults
    BY <2>1, FaultCounted
  <2>5. DOMAIN open' = Visitors /\ \A w \in Visitors : Page(open'[w])
    BY <1>3, <2>1, PageChanged
  <2> QED BY <2>1, <2>3, <2>4, <2>5 DEF PInv
<1>9. ASSUME NEW value \in ValuesOf(form), SubmitFails(v, form, value) PROVE PInv'
  <2>1. /\ open' = [open EXCEPT ![v] = Closed(v, form)]
        /\ UNCHANGED <<account, chat, chats>>
        /\ \E fails \in BOOLEAN : Failing(fails)
    BY <1>9 DEF SubmitFails, Taken
  <2>2. faults' \in 0 .. MaxFaults
    BY <2>1, FaultCounted
  <2>3. DOMAIN open' = Visitors /\ \A w \in Visitors : Page(open'[w])
    BY <1>3, <2>1, PageChanged
  <2> QED BY <2>1, <2>2, <2>3 DEF PInv
<1> QED BY <1>1, <1>5, <1>6, <1>7, <1>8, <1>9

\* A chat with room for one more form.
LEMMA RoomForOne ==
    ASSUME PInv, NEW v \in Visitors, Room(v), NEW step \in AllSteps
    PROVE  Page(BagAdd(open[v], step))
<1>1. Page(open[v]) /\ Cardinality(Shown(open[v])) \in 0 .. MaxOpen
  BY DEF PInv, Page
<1> QED BY <1>1, FormAdded, RegistrationConstants DEF Page, Room

LEMMA StartTyped ==
    ASSUME PInv, NEW v \in Visitors, NEW type, NEW saved \in BOOLEAN,
           Start(v, type, saved) \/ ChatRegisters(v, type, saved)
    PROVE  PInv'
<1>1. CASE Start(v, type, saved)
  <2>1. faults' \in 0 .. MaxFaults
    BY <1>1, FaultCounted DEF Start
  <2>2. chats' \in 0 .. MaxChats
    BY <1>1, RegistrationConstants DEF Start, PInv
  <2> QED BY <1>1, <2>1, <2>2 DEF Start, PInv
<1>2. CASE ChatRegisters(v, type, saved)
  <2>1. /\ open' = [open EXCEPT ![v] = BagAdd(open[v], Started(type).step)]
        /\ chat' = [chat EXCEPT ![v] = Idle]
        /\ UNCHANGED <<account, chats>>
        /\ Failing(~saved) /\ Room(v)
    BY <1>2 DEF ChatRegisters, Answered
  <2>2. Started(type).step \in AllSteps
    <3>1. {"account_type", "email"} \subseteq AllSteps
      BY FirstStepsInRange, StepsAreKnown
    <3> QED BY <3>1 DEF Started
  <2>3. DOMAIN open' = Visitors /\ \A w \in Visitors : Page(open'[w])
    BY <2>1, <2>2, RoomForOne, PageChanged
  <2>4. chat' \in [Visitors -> [waits : BOOLEAN, saw : AllSteps \cup {"none"}]]
    BY <2>1, MessageAnswered
  <2>5. faults' \in 0 .. MaxFaults
    BY <2>1, FaultCounted
  <2> QED BY <2>1, <2>3, <2>4, <2>5 DEF PInv
<1> QED BY <1>1, <1>2

LEMMA EndTyped ==
    ASSUME PInv, NEW v \in Visitors, Cancel(v) \/ ChatInterrupts(v) \/ ChatsElsewhere(v)
    PROVE  PInv'
<1>1. chat' = chat \/ chat' = [chat EXCEPT ![v] = Idle]
  BY DEF Cancel, ChatInterrupts, ChatsElsewhere, Answered
<1>2. chat' \in [Visitors -> [waits : BOOLEAN, saw : AllSteps \cup {"none"}]]
  BY <1>1, MessageAnswered
<1>3. UNCHANGED <<account, open, chats, faults>>
  BY DEF Cancel, ChatInterrupts, ChatsElsewhere, Answered
<1> QED BY <1>2, <1>3 DEF PInv

LEMMA ChatTyped ==
    ASSUME SInv, PInv, NEW v \in Visitors,
           (\E seen \in BOOLEAN : ChatReads(v, seen)) \/ ChatReminds(v) \/ Reload(v)
    PROVE  PInv'
<1>1. session[v] \in Sessions /\ session[v].step \in AllSteps \cup {"none"}
  BY DEF SInv, Sessions
<1>2. ASSUME NEW seen \in BOOLEAN, ChatReads(v, seen) PROVE PInv'
  <2> DEFINE saw == IF seen THEN session[v].step ELSE "none"
  <2>1. chat' = [chat EXCEPT ![v] = [waits |-> TRUE, saw |-> saw]]
    BY <1>2 DEF ChatReads
  <2>2. saw \in AllSteps \cup {"none"}
    BY <1>1
  <2> HIDE DEF saw
  <2>3. chat' \in [Visitors -> [waits : BOOLEAN, saw : AllSteps \cup {"none"}]]
    BY <2>1, <2>2 DEF PInv
  <2>4. faults' \in 0 .. MaxFaults
    BY <1>2, FaultCounted DEF ChatReads, Active
  <2>5. chats' \in 0 .. MaxChats
    BY <1>2, RegistrationConstants DEF ChatReads, PInv
  <2> QED BY <1>2, <2>3, <2>4, <2>5 DEF ChatReads, PInv
<1>3. CASE ChatReminds(v)
  <2>1. /\ open' = [open EXCEPT ![v] = BagAdd(open[v], chat[v].saw)]
        /\ chat' = [chat EXCEPT ![v] = Idle]
        /\ UNCHANGED <<account, chats, faults>>
        /\ chat[v].saw # "none" /\ Room(v)
    BY <1>3 DEF ChatReminds, Answered
  <2>2. chat[v].saw \in AllSteps
    BY <2>1 DEF PInv
  <2>3. DOMAIN open' = Visitors /\ \A w \in Visitors : Page(open'[w])
    BY <2>1, <2>2, RoomForOne, PageChanged
  <2>4. chat' \in [Visitors -> [waits : BOOLEAN, saw : AllSteps \cup {"none"}]]
    BY <2>1, MessageAnswered
  <2> QED BY <2>1, <2>3, <2>4 DEF PInv
<1>4. CASE Reload(v)
  <2>1. /\ open' = [open EXCEPT ![v] = Restored(v)]
        /\ chat' = [chat EXCEPT ![v] = Idle]
        /\ UNCHANGED <<account, chats, faults>>
    BY <1>4 DEF Reload
  <2>2. Page(Restored(v))
    BY <1>1, FreshPage DEF Restored, Active
  <2>3. DOMAIN open' = Visitors /\ \A w \in Visitors : Page(open'[w])
    BY <2>1, <2>2, PageChanged
  <2>4. chat' \in [Visitors -> [waits : BOOLEAN, saw : AllSteps \cup {"none"}]]
    BY <2>1, MessageAnswered
  <2> QED BY <2>1, <2>3, <2>4 DEF PInv
<1> QED BY <1>2, <1>3, <1>4

LEMMA OtherTyped == ASSUME PInv, NEW e \in Emails, OtherTakes(e) PROVE PInv'
<1> DEFINE a == [NoAccount EXCEPT !.by = Other]
<1>1. a \in Accounts
  BY DEF NoAccount, Accounts
<1> HIDE DEF a
<1>2. account' = [account EXCEPT ![e] = a] /\ UNCHANGED <<open, chat, chats, faults>>
  BY DEF OtherTakes, a
<1> QED BY <1>1, <1>2 DEF PInv

LEMMA StepTyped == ASSUME SInv, PInv, [Next]_vars PROVE PInv'
<1>1. CASE UNCHANGED vars
  BY <1>1 DEF vars, PInv
<1>2. CASE Next
  <2>1. ASSUME NEW v \in Visitors, Submit(v) PROVE PInv'
    BY <2>1, SubmitTyped
  <2>2. ASSUME NEW v \in Visitors, NEW type, NEW saved \in BOOLEAN,
               Start(v, type, saved) \/ ChatRegisters(v, type, saved)
        PROVE  PInv'
    BY <2>2, StartTyped
  <2>3. ASSUME NEW v \in Visitors, Cancel(v) \/ ChatInterrupts(v) \/ ChatsElsewhere(v) PROVE PInv'
    BY <2>3, EndTyped
  <2>4. ASSUME NEW v \in Visitors,
               (\E seen \in BOOLEAN : ChatReads(v, seen)) \/ ChatReminds(v) \/ Reload(v)
        PROVE  PInv'
    BY <2>4, ChatTyped
  <2>5. ASSUME NEW e \in Emails, OtherTakes(e) PROVE PInv'
    BY <2>5, OtherTyped
  <2> QED BY <1>2, <2>1, <2>2, <2>3, <2>4, <2>5 DEF Next
<1> QED BY <1>1, <1>2

-----------------------------------------------------------------------------
(* The theorems.                                                           *)

\* Whatever forms are submitted, repeated or lost, and whatever a chat message
\* does with a session it read earlier (RegistrationAgent.process_step and the
\* gate of master.py), a session has passed exactly the checks of the steps
\* before its own.
THEOREM SessionsSound == Spec => []SessionsAreSound
<1>1. Init => SInv
  BY InitSound
<1>2. SInv /\ [Next]_vars => SInv'
  BY StepSound
<1>3. SInv => SessionsAreSound
  BY AllSound DEF SInv
<1> QED BY <1>1, <1>2, <1>3, PTL DEF Spec

\* Every account _finalize_registration commits has an account type, an owner's
\* has its shop, and its data was checked but what the submission that ended
\* the registration carried.
THEOREM AccountsComplete == Spec => []AccountsAreComplete
<1>1. Init => SInv
  BY InitSound
<1>2. SInv /\ [Next]_vars => SInv'
  BY StepSound
<1>3. SInv => AccountsAreComplete
  BY DEF SInv, Complete, AccountsAreComplete
<1> QED BY <1>1, <1>2, <1>3, PTL DEF Spec

\* Everything the registration keeps has the type it should have, Redis, the
\* database, the pages and the pending messages alike: a page never shows a
\* form of a step nobody knows, nor more forms than its bound, however often
\* forms are closed, shown again by the chat or restored by a reload
\* (handleFormResult, restoreRegistration); and every session is sound.
THEOREM Invariance == Spec => []IInv
<1>1. Init => SInv /\ PInv
  BY InitSound, InitTyped
<1>2. SInv /\ PInv /\ [Next]_vars => (SInv /\ PInv)'
  BY StepSound, StepTyped
<1>3. SInv /\ PInv => IInv
  <2> SUFFICES ASSUME SInv, PInv PROVE IInv
    OBVIOUS
  <2>1. ASSUME NEW v \in Visitors
        PROVE  /\ IsABag(open[v]) /\ BagToSet(open[v]) \subseteq AllSteps
               /\ Cardinality(Shown(open[v])) <= MaxOpen
    <3>1. Page(open[v])
      BY DEF PInv
    <3> QED BY <3>1, RegistrationConstants DEF Page
  <2>2. TypeOK
    BY <2>1 DEF SInv, PInv, TypeOK
  <2> QED BY <2>2, AllSound DEF SInv, IInv
<1> QED BY <1>1, <1>2, <1>3, PTL DEF Spec
=============================================================================
