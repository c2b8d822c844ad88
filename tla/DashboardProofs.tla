--------------------------- MODULE DashboardProofs ---------------------------
(***************************************************************************)
(* Dashboard for any sessions, devices and bounds: its steps are the       *)
(* limiter's or leave the limiter alone, and what the form says and does   *)
(* is right however calls fail, are given up, or come late.                *)
(***************************************************************************)
EXTENDS Dashboard, RateLimiterProofs

(* The devices the loop has passed have a configuration, and so has the    *)
(* one just told to have.                                                  *)
Configured ==
  \A s \in Session :
    /\ call[s] \in {"history", "configs"} /\ answer[s] \in {"some", "created"}
         => configs[device[s]] # <<>>
    /\ call[s] # "none" => \A d \in picked[s] \ todo[s] : configs[d] # <<>>

Batch(s) == [click |-> Click(s), devices |-> picked[s]]

(* The last click of s has come to its trigger.                            *)
Triggered(s) ==
  \/ call[s] = "deploy"
  \/ call[s] = "none" /\ shown[s] \in {"queued", "rejected"}

(* A click that has a batch, or a late call to make one, is an old one or  *)
(* has come to its trigger.                                                *)
Of(click) ==
  /\ click.number <= clicks[click.session]
  /\ \A s \in Session : click = Click(s) => Triggered(s)

Told ==
  /\ \A s \in Session :
       /\ call[s] = "deploy" /\ answer[s] = "queued" => Batch(s) \in batches
       /\ call[s] = "none" /\ shown[s] = "queued" => Batch(s) \in batches
  /\ \A b \in batches : Of(b.click)
  /\ \A l \in late : l.call = "deploy" => Of(l.click)

FInv == FormTypeOK /\ Configured /\ Told

-----------------------------------------------------------------------------
(* The limiter.                                                            *)

LEMMA ServeIsLimiter ==
  ASSUME NEW c \in Call, NEW click, NEW d, NEW D, NEW reply,
         Serve(c, click, d, D, reply)
  PROVE  [LimiterNext]_limiter
<1>1. Passes(c) => [LimiterNext]_limiter
  BY PathAssumption DEF Passes, LimiterNext, Methods
<1>2. Refused(c) => [LimiterNext]_limiter
  BY PathAssumption DEF Refused, LimiterNext, Methods
<1>3. PassesUncounted(c) => [LimiterNext]_limiter
  BY PathAssumption DEF PassesUncounted, LimiterNext, Methods
<1> QED BY <1>1, <1>2, <1>3 DEF Serve

LEMMA StepIsLimiter ==
  ASSUME FormTypeOK, [Next]_vars
  PROVE  [LimiterNext]_limiter
<1>1. ASSUME NEW s \in Session, Deploy(s) \/ Hear(s) \/ GiveUp(s)
      PROVE  UNCHANGED limiter
  BY <1>1 DEF Deploy, Hear, GiveUp, Continue
<1>2. ASSUME NEW s \in Session, Answer(s)
      PROVE  [LimiterNext]_limiter
  <2>1. call[s] \in Call
    BY <1>2 DEF FormTypeOK, Answer
  <2> QED BY <1>2, <2>1, ServeIsLimiter DEF Answer
<1>3. ASSUME NEW l \in late, ServeLate(l)
      PROVE  [LimiterNext]_limiter
  <2>1. l.call \in Call
    BY <1>3 DEF FormTypeOK
  <2> QED BY <1>3, <2>1, ServeIsLimiter DEF ServeLate
<1>4. ASSUME NEW d \in Device, Save(d)
      PROVE  UNCHANGED limiter
  BY <1>4 DEF Save
<1>5. ASSUME NEW k \in Key, NEW method \in Methods, Other(k, method)
      PROVE  [LimiterNext]_limiter
  BY <1>5 DEF Other, LimiterNext
<1>6. CASE Elapse
  BY <1>6 DEF Elapse, LimiterNext
<1>7. CASE UNCHANGED vars
  BY <1>7 DEF vars
<1> QED BY <1>1, <1>2, <1>3, <1>4, <1>5, <1>6, <1>7 DEF Next

-----------------------------------------------------------------------------
(* The form.                                                               *)

LEMMA HandleFacts ==
  ASSUME FormTypeOK, NEW c \in Call, NEW click \in Clicks, NEW d \in Device \cup {NoDevice},
         NEW D \in SUBSET Device, NEW reply,
         c \in {"history", "configs"} => d \in Device,
         Handle(c, click, d, D, reply)
  PROVE  /\ configs' \in [Device -> Seq(Kind)]
         /\ \A e \in Device : configs[e] # <<>> => configs'[e] # <<>>
         /\ c \in {"history", "configs"} /\ reply \in {"some", "created"}
              => configs'[d] # <<>>
         /\ \/ batches' = batches /\ reply # "queued"
            \/ c = "deploy" /\ batches' = batches \cup {[click |-> click, devices |-> D]}
<1>1. configs \in [Device -> Seq(Kind)]
  BY DEF FormTypeOK
<1>2. CASE /\ c = "history"
           /\ reply = IF configs[d] = <<>> THEN "[]" ELSE "some"
           /\ UNCHANGED <<configs, batches>>
  BY <1>1, <1>2
<1>3. CASE /\ c = "configs" /\ reply = "created"
           /\ configs' = [configs EXCEPT ![d] = Append(@, "default")]
           /\ UNCHANGED batches
  <2>1. d \in Device /\ configs[d] \in Seq(Kind) /\ "default" \in Kind
    BY <1>1, <1>3 DEF Kind
  <2>2. /\ Append(configs[d], "default") \in Seq(Kind)
        /\ Append(configs[d], "default") # <<>>
    BY <2>1
  <2>3. configs'[d] = Append(configs[d], "default")
    BY <1>1, <1>3, <2>1
  <2>4. \A e \in Device : e # d => configs'[e] = configs[e]
    BY <1>1, <1>3
  <2>5. configs' \in [Device -> Seq(Kind)]
    BY <1>1, <1>3, <2>2
  <2> QED BY <1>3, <2>2, <2>3, <2>4, <2>5
<1>4. CASE /\ c = "deploy" /\ reply \in {"missing", "queued"}
           /\ UNCHANGED configs
           /\ \/ batches' = batches /\ reply = "missing"
              \/ batches' = batches \cup {[click |-> click, devices |-> D]}
  BY <1>1, <1>4
<1>5. CASE c = "devices" /\ reply = "some" /\ UNCHANGED <<configs, batches>>
  BY <1>1, <1>5
<1> QED BY <1>2, <1>3, <1>4, <1>5 DEF Handle

LEMMA ServeFacts ==
  ASSUME FormTypeOK, NEW c \in Call, NEW click \in Clicks, NEW d \in Device \cup {NoDevice},
         NEW D \in SUBSET Device, NEW reply \in Replies,
         c \in {"history", "configs"} => d \in Device,
         Serve(c, click, d, D, reply)
  PROVE  /\ faults' \in 0 .. MaxFaults
         /\ configs' \in [Device -> Seq(Kind)]
         /\ \A e \in Device : configs[e] # <<>> => configs'[e] # <<>>
         /\ c \in {"history", "configs"} /\ reply \in {"some", "created"}
              => configs'[d] # <<>>
         /\ \/ batches' = batches /\ reply # "queued"
            \/ c = "deploy" /\ batches' = batches \cup {[click |-> click, devices |-> D]}
<1>1. faults \in 0 .. MaxFaults /\ MaxFaults \in Nat
  BY BoundAssumption DEF FormTypeOK
<1>2. CASE /\ \/ Passes(c) /\ UNCHANGED faults
              \/ PassesUncounted(c) /\ Fault
           /\ Handle(c, click, d, D, reply)
  <2>1. faults' \in 0 .. MaxFaults
    BY <1>1, <1>2 DEF Fault
  <2> QED BY <1>2, <2>1, HandleFacts
<1>3. CASE reply = "error" /\ UNCHANGED <<configs, batches, faults>>
  BY <1>1, <1>3 DEF FormTypeOK
<1>4. CASE /\ reply = "error" /\ Fault
           /\ \E lost \in Replies \ {"error"} : Handle(c, click, d, D, lost)
  <2>1. faults' \in 0 .. MaxFaults
    BY <1>1, <1>4 DEF Fault
  <2>2. PICK lost \in Replies \ {"error"} : Handle(c, click, d, D, lost)
    BY <1>4
  <2>3. /\ configs' \in [Device -> Seq(Kind)]
        /\ \A e \in Device : configs[e] # <<>> => configs'[e] # <<>>
        /\ \/ batches' = batches
           \/ c = "deploy" /\ batches' = batches \cup {[click |-> click, devices |-> D]}
    BY <2>2, HandleFacts
  <2> QED BY <1>4, <2>1, <2>3
<1> QED BY <1>2, <1>3, <1>4 DEF Serve

LEMMA AnswerKeeps ==
  ASSUME FInv, NEW s \in Session, Answer(s)
  PROVE  FInv'
<1> USE DEF FInv
<1>1. PICK reply \in Replies :
        /\ Serve(call[s], Click(s), device[s], picked[s], reply)
        /\ answer' = [answer EXCEPT ![s] = reply]
  BY DEF Answer
<1>2. /\ call[s] \in Call /\ answer[s] = "none"
      /\ UNCHANGED <<call, picked, todo, device, late, clicks, shown>>
      /\ doubt' \subseteq Device
  BY DEF Answer, FormTypeOK, Outdated
<1>3. /\ Click(s) \in Clicks /\ device[s] \in Device \cup {NoDevice}
      /\ picked[s] \in SUBSET Device
      /\ call[s] \in {"history", "configs"} => device[s] \in Device
  BY DEF FormTypeOK, Click, Clicks
<1>4. /\ faults' \in 0 .. MaxFaults
      /\ configs' \in [Device -> Seq(Kind)]
      /\ \A e \in Device : configs[e] # <<>> => configs'[e] # <<>>
      /\ call[s] \in {"history", "configs"} /\ reply \in {"some", "created"}
           => configs'[device[s]] # <<>>
      /\ \/ batches' = batches /\ reply # "queued"
         \/ call[s] = "deploy" /\ batches' = batches \cup {Batch(s)}
  BY <1>1, <1>2, <1>3, ServeFacts DEF Batch
<1>5. /\ answer' \in [Session -> Replies \cup {"none"}]
      /\ \A q \in Session : answer'[q] = IF q = s THEN reply ELSE answer[q]
  BY <1>1 DEF FormTypeOK
<1>6. FormTypeOK'
  <2>1. Batch(s) \in [click : Clicks, devices : SUBSET Device]
    BY <1>3 DEF Batch
  <2>2. batches' \subseteq [click : Clicks, devices : SUBSET Device]
    BY <1>4, <2>1 DEF FormTypeOK
  <2>3. \A q \in Session : call'[q] = "none" => answer'[q] = "none"
    BY <1>2, <1>5 DEF FormTypeOK, Call
  <2> QED BY <1>2, <1>4, <1>5, <2>2, <2>3 DEF FormTypeOK
<1>7. Configured'
  <2> SUFFICES ASSUME NEW q \in Session
               PROVE  /\ call[q] \in {"history", "configs"} /\ answer'[q] \in {"some", "created"}
                           => configs'[device[q]] # <<>>
                      /\ call[q] # "none" => \A d \in picked[q] \ todo[q] : configs'[d] # <<>>
    BY <1>2 DEF Configured
  <2>1. call[q] # "none" => \A d \in picked[q] \ todo[q] : configs'[d] # <<>>
    BY <1>4 DEF Configured, FormTypeOK
  <2>2. call[q] \in {"history", "configs"} => device[q] \in Device
    BY DEF FormTypeOK
  <2>3. CASE q = s
    BY <1>4, <1>5, <2>1, <2>3
  <2>4. CASE q # s
    BY <1>4, <1>5, <2>1, <2>2, <2>4 DEF Configured
  <2> QED BY <2>3, <2>4
<1>8. Told'
  <2>1. \A q \in Session : Batch(q)' = Batch(q) /\ Triggered(q)' = Triggered(q) /\ Click(q)' = Click(q)
    BY <1>2 DEF Batch, Triggered, Click
  <2>2. \A c : Of(c)' = Of(c)
    BY <1>2 DEF Of, Triggered, Click
  <2>3. \A q \in Session :
          /\ call[q] = "deploy" /\ answer'[q] = "queued" => Batch(q) \in batches'
          /\ call[q] = "none" /\ shown[q] = "queued" => Batch(q) \in batches'
    BY <1>4, <1>5 DEF Told
  <2>4. call[s] = "deploy" => Of(Click(s))
    <3> SUFFICES ASSUME call[s] = "deploy" PROVE Of(Click(s))
      OBVIOUS
    <3>1. clicks[s] \in 0 .. MaxClicks /\ MaxClicks \in Nat
      BY BoundAssumption DEF FormTypeOK
    <3>2. Click(s).number = clicks[s] /\ Click(s).session = s
      BY DEF Click
    <3>3. \A q \in Session : Click(s) = Click(q) => q = s
      BY DEF Click
    <3>4. Triggered(s)
      BY DEF Triggered
    <3>5. Click(s).number <= clicks[Click(s).session]
      BY <3>1, <3>2
    <3> QED BY <3>3, <3>4, <3>5 DEF Of
  <2>5. \A b \in batches' : Of(b.click)
    BY <1>4, <2>4 DEF Told, Batch
  <2>6. \A l \in late : l.call = "deploy" => Of(l.click)
    BY DEF Told
  <2> QED BY <1>2, <2>1, <2>2, <2>3, <2>5, <2>6 DEF Told
<1> QED BY <1>6, <1>7, <1>8

LEMMA ServeLateKeeps ==
  ASSUME FInv, NEW l \in late, ServeLate(l)
  PROVE  FInv'
<1> USE DEF FInv
<1>1. PICK reply \in Replies : Serve(l.call, l.click, l.device, l.devices, reply)
  BY DEF ServeLate
<1>2. late' \subseteq late /\ UNCHANGED script /\ doubt' \subseteq Device
  BY DEF ServeLate, FormTypeOK, Outdated
<1>3. /\ l.call \in Call /\ l.click \in Clicks /\ l.device \in Device \cup {NoDevice}
      /\ l.devices \in SUBSET Device
      /\ l.call \in {"history", "configs"} => l.device \in Device
  BY DEF FormTypeOK
<1>4. /\ faults' \in 0 .. MaxFaults
      /\ configs' \in [Device -> Seq(Kind)]
      /\ \A e \in Device : configs[e] # <<>> => configs'[e] # <<>>
      /\ \/ batches' = batches
         \/ /\ l.call = "deploy"
            /\ batches' = batches \cup {[click |-> l.click, devices |-> l.devices]}
  BY <1>1, <1>3, ServeFacts
<1>5. FormTypeOK'
  <2>1. [click |-> l.click, devices |-> l.devices] \in [click : Clicks, devices : SUBSET Device]
    BY <1>3
  <2>2. batches' \subseteq [click : Clicks, devices : SUBSET Device]
    BY <1>4, <2>1 DEF FormTypeOK
  <2> QED BY <1>2, <1>4, <2>2 DEF FormTypeOK, script
<1>6. Configured'
  <2>1. \A s \in Session : /\ call[s] \in {"history", "configs"} => device[s] \in Device
                           /\ picked[s] \subseteq Device
    BY DEF FormTypeOK
  <2> QED BY <1>2, <1>4, <2>1 DEF Configured, script
<1>7. Told'
  <2>1. \A c : Of(c)' = Of(c)
    BY <1>2 DEF Of, Triggered, Click, script
  <2>2. \A q \in Session : Batch(q)' = Batch(q)
    BY <1>2 DEF Batch, Click, script
  <2>3. \A b \in batches' : Of(b.click)
    BY <1>4 DEF Told
  <2>4. batches \subseteq batches'
    BY <1>4
  <2> QED BY <1>2, <2>1, <2>2, <2>3, <2>4 DEF Told, script
<1> QED BY <1>5, <1>6, <1>7

LEMMA DeployKeeps ==
  ASSUME FInv, NEW s \in Session, Deploy(s)
  PROVE  FInv'
<1> USE DEF FInv
<1>1. PICK D \in (SUBSET Device) \ {{}} :
        /\ picked' = [picked EXCEPT ![s] = D]
        /\ todo' = [todo EXCEPT ![s] = D]
  BY DEF Deploy
<1>2. /\ call[s] = "none" /\ clicks[s] < MaxClicks
      /\ call' = [call EXCEPT ![s] = "devices"]
      /\ clicks' = [clicks EXCEPT ![s] = @ + 1]
      /\ shown' = [shown EXCEPT ![s] = "nothing"]
      /\ UNCHANGED <<device, answer, late, configs, batches, faults, doubt, limiter>>
  BY DEF Deploy
<1>3. MaxClicks \in Nat /\ clicks[s] \in 0 .. MaxClicks /\ clicks[s] + 1 \in 0 .. MaxClicks
  BY <1>2, BoundAssumption DEF FormTypeOK
<1>4. FormTypeOK'
  <2>1. /\ call' \in [Session -> Call \cup {"none"}]
        /\ picked' \in [Session -> SUBSET Device] /\ todo' \in [Session -> SUBSET Device]
        /\ device' \in [Session -> Device \cup {NoDevice}]
        /\ clicks' \in [Session -> 0 .. MaxClicks]
        /\ shown' \in [Session -> Shown]
    BY <1>1, <1>2, <1>3 DEF FormTypeOK, Call, Shown
  <2>2. \A q \in Session :
          /\ todo'[q] \subseteq picked'[q]
          /\ call'[q] \in {"history", "configs"} => device'[q] \in todo'[q]
          /\ call'[q] = "deploy" => todo'[q] = {}
          /\ call'[q] = "none" => answer'[q] = "none"
    <3> TAKE q \in Session
    <3>1. CASE q = s
      BY <1>1, <1>2, <3>1 DEF FormTypeOK
    <3>2. CASE q # s
      BY <1>1, <1>2, <3>2 DEF FormTypeOK
    <3> QED BY <3>1, <3>2
  <2> QED BY <1>2, <2>1, <2>2 DEF FormTypeOK
<1>5. /\ call'[s] = "devices" /\ answer[s] = "none"
      /\ picked'[s] = D /\ todo'[s] = D /\ clicks'[s] = clicks[s] + 1
      /\ \A q \in Session : q # s =>
           /\ call'[q] = call[q] /\ device'[q] = device[q] /\ picked'[q] = picked[q]
           /\ todo'[q] = todo[q] /\ clicks'[q] = clicks[q] /\ shown'[q] = shown[q]
  BY <1>1, <1>2 DEF FormTypeOK
<1>6. Configured'
  BY <1>2, <1>5 DEF Configured
<1>7. Told'
  <2>1. ASSUME NEW c \in Clicks, Of(c)
        PROVE  Of(c)'
    <3>1. /\ c.session \in Session /\ c.number \in 0 .. MaxClicks
          /\ c.number <= clicks[c.session] /\ clicks[c.session] \in 0 .. MaxClicks
      BY <2>1 DEF Of, Clicks, FormTypeOK
    <3>2. c.number <= clicks'[c.session]
      BY <3>1, <1>3, <1>5
    <3>3. ASSUME NEW q \in Session, c = Click(q)'
          PROVE  Triggered(q)'
      <4>1. q # s
        <5>1. CASE q = s
          <6>1. c.session = s /\ c.number = clicks[s] + 1
            BY <3>3, <5>1, <1>5 DEF Click
          <6> QED BY <6>1, <3>1, <1>3
        <5> QED BY <5>1
      <4>2. c = Click(q) /\ (Triggered(q)' <=> Triggered(q))
        BY <3>3, <4>1, <1>5 DEF Click, Triggered
      <4> QED BY <4>2, <2>1 DEF Of
    <3> QED BY <3>2, <3>3 DEF Of
  <2>2. \A q \in Session : q # s => Batch(q)' = Batch(q)
    BY <1>5 DEF Batch, Click
  <2>3. \A q \in Session :
          /\ call'[q] = "deploy" /\ answer'[q] = "queued" => Batch(q)' \in batches'
          /\ call'[q] = "none" /\ shown'[q] = "queued" => Batch(q)' \in batches'
    <3> TAKE q \in Session
    <3>1. CASE q = s
      BY <1>5, <3>1
    <3>2. CASE q # s
      BY <1>2, <1>5, <2>2, <3>2 DEF Told
    <3> QED BY <3>1, <3>2
  <2>4. \A b \in batches : Of(b.click)'
    BY <2>1 DEF Told, FormTypeOK
  <2>5. \A l \in late : l.call = "deploy" => Of(l.click)'
    BY <2>1 DEF Told, FormTypeOK
  <2> QED BY <1>2, <2>3, <2>4, <2>5 DEF Told
<1> QED BY <1>4, <1>6, <1>7

(* What a script does with a reply that tells the truth, or with "error".  *)
LEMMA ContinueKeeps ==
  ASSUME FInv, NEW s \in Session, NEW reply \in Replies, Continue(s, reply),
         faults' \in 0 .. MaxFaults,
         call[s] \in {"history", "configs"} /\ reply \in {"some", "created"}
           => configs[device[s]] # <<>>,
         call[s] = "deploy" /\ reply = "queued" => Batch(s) \in batches,
         \/ late' = late
         \/ /\ reply = "error"
            /\ late' = late \cup {[call |-> call[s], click |-> Click(s),
                                   device |-> device[s], devices |-> picked[s]]}
  PROVE  FInv'
<1> USE DEF FInv
<1>1. /\ call[s] \in Call
      /\ answer' = [answer EXCEPT ![s] = "none"]
      /\ UNCHANGED <<picked, clicks, configs, batches, limiter>>
  BY DEF Continue, Call
<1>2. /\ doubt' \subseteq Device
      /\ call' \in [Session -> Call \cup {"none"}] /\ todo' \in [Session -> SUBSET Device]
      /\ device' \in [Session -> Device \cup {NoDevice}]
      /\ shown' \in [Session -> Shown]
      /\ \A q \in Session : q # s =>
           /\ call'[q] = call[q] /\ device'[q] = device[q]
           /\ todo'[q] = todo[q] /\ shown'[q] = shown[q]
      /\ todo'[s] \subseteq todo[s]
      /\ call'[s] \in {"history", "configs"} => device'[s] \in todo'[s]
      /\ call'[s] = "deploy" => todo'[s] = {} /\ call[s] # "deploy"
      /\ call'[s] = "none" /\ shown'[s] = "queued" => call[s] = "deploy" /\ reply = "queued"
      /\ call[s] = "deploy" => call'[s] = "none" /\ shown'[s] \in {"queued", "rejected"}
      /\ call'[s] # "none" =>
           \/ todo'[s] = todo[s]
           \/ /\ todo'[s] = todo[s] \ {device[s]}
              /\ call[s] \in {"history", "configs"} /\ reply \in {"some", "created"}
  <2>1. /\ call \in [Session -> Call \cup {"none"}] /\ todo \in [Session -> SUBSET Device]
        /\ device \in [Session -> Device \cup {NoDevice}]
        /\ shown \in [Session -> Shown]
        /\ call[s] \in {"history", "configs"} => device[s] \in todo[s]
        /\ doubt \subseteq Device
    BY DEF FormTypeOK
  <2>2. CASE call[s] \in {"history", "configs"} /\ reply \in {"some", "created"}
             /\ GoOn(s, todo[s] \ {device[s]}) /\ UNCHANGED <<doubt, shown>>
    <3>1. CASE /\ call' = [call EXCEPT ![s] = "deploy"] /\ todo[s] \ {device[s]} = {}
               /\ device' = [device EXCEPT ![s] = NoDevice]
      BY <2>1, <2>2, <3>1 DEF GoOn, Call
    <3>2. CASE /\ call' = [call EXCEPT ![s] = "history"]
               /\ \E d \in todo[s] \ {device[s]} : device' = [device EXCEPT ![s] = d]
      BY <2>1, <2>2, <3>2 DEF GoOn, Call
    <3> QED BY <2>2, <3>1, <3>2 DEF GoOn
  <2>3. CASE /\ call[s] = "history" /\ call' = [call EXCEPT ![s] = "configs"]
             /\ doubt' \in {doubt, doubt \cup {device[s]}}
             /\ UNCHANGED <<todo, device, shown>>
    BY <2>1, <2>3 DEF Call
  <2>4. CASE call[s] = "configs" /\ Finish(s, "unsaved") /\ UNCHANGED doubt
    BY <2>1, <2>4 DEF Finish, Call, Shown
  <2>5. CASE call[s] = "deploy" /\ AfterTrigger(s, reply)
    BY <2>1, <2>5 DEF Finish, AfterTrigger, Call, Shown
  <2>6. CASE call[s] = "history" /\ AfterHistory(s, reply)
    BY <2>2, <2>3, <2>6 DEF AfterHistory
  <2>7. CASE call[s] = "configs" /\ AfterCreate(s, reply)
    BY <2>2, <2>4, <2>7 DEF AfterCreate
  <2>8. CASE call[s] = "devices" /\ GoOn(s, todo[s]) /\ UNCHANGED <<doubt, shown>>
    <3>1. CASE /\ call' = [call EXCEPT ![s] = "deploy"] /\ todo[s] = {}
               /\ device' = [device EXCEPT ![s] = NoDevice]
      BY <2>1, <2>8, <3>1 DEF GoOn, Call
    <3>2. CASE /\ call' = [call EXCEPT ![s] = "history"]
               /\ \E d \in todo[s] : device' = [device EXCEPT ![s] = d]
      BY <2>1, <2>8, <3>2 DEF GoOn, Call
    <3> QED BY <2>8, <3>1, <3>2 DEF GoOn
  <2>9. CASE call[s] = "devices" /\ Finish(s, "no devices") /\ UNCHANGED doubt
    BY <2>1, <2>9 DEF Finish, Call, Shown
  <2>10. CASE call[s] = "devices" /\ AfterDevices(s, reply)
    BY <2>8, <2>9, <2>10 DEF AfterDevices
  <2> QED BY <2>5, <2>6, <2>7, <2>10 DEF Continue
<1>3. /\ answer' \in [Session -> Replies \cup {"none"}] /\ answer'[s] = "none"
      /\ \A q \in Session : q # s => answer'[q] = answer[q]
  BY <1>1 DEF FormTypeOK
<1>4. FormTypeOK'
  <2>1. [call |-> call[s], click |-> Click(s), device |-> device[s], devices |-> picked[s]]
          \in [call : Call, click : Clicks, device : Device \cup {NoDevice},
               devices : SUBSET Device]
    BY <1>1 DEF FormTypeOK, Click, Clicks
  <2>2. late' \subseteq [call : Call, click : Clicks, device : Device \cup {NoDevice},
                         devices : SUBSET Device]
    BY <2>1 DEF FormTypeOK
  <2>3. \A l \in late' : l.call \in {"history", "configs"} => l.device \in Device
    BY DEF FormTypeOK
  <2>4. \A q \in Session :
          /\ todo'[q] \subseteq picked'[q]
          /\ call'[q] \in {"history", "configs"} => device'[q] \in todo'[q]
          /\ call'[q] = "deploy" => todo'[q] = {}
          /\ call'[q] = "none" => answer'[q] = "none"
    <3> TAKE q \in Session
    <3>1. CASE q = s
      BY <1>1, <1>2, <1>3, <3>1 DEF FormTypeOK
    <3>2. CASE q # s
      BY <1>1, <1>2, <1>3, <3>2 DEF FormTypeOK
    <3> QED BY <3>1, <3>2
  <2> QED BY <1>1, <1>2, <1>3, <2>2, <2>3, <2>4 DEF FormTypeOK
<1>5. Configured'
  <2> SUFFICES ASSUME NEW q \in Session
               PROVE  /\ call'[q] \in {"history", "configs"} /\ answer'[q] \in {"some", "created"}
                           => configs[device'[q]] # <<>>
                      /\ call'[q] # "none" =>
                           \A d \in picked[q] \ todo'[q] : configs[d] # <<>>
    BY <1>1 DEF Configured
  <2>1. CASE q = s
    BY <1>1, <1>2, <1>3, <2>1 DEF Configured, Call
  <2>2. CASE q # s
    BY <1>2, <1>3, <2>2 DEF Configured
  <2> QED BY <2>1, <2>2
<1>6. Told'
  <2>1. \A q \in Session : Batch(q)' = Batch(q) /\ Click(q)' = Click(q)
    BY <1>1 DEF Batch, Click
  <2>2. \A q \in Session : Triggered(q) => Triggered(q)'
    <3> TAKE q \in Session
    <3>1. CASE q = s
      BY <1>1, <1>2, <3>1 DEF Triggered, Call
    <3>2. CASE q # s
      BY <1>2, <3>2 DEF Triggered
    <3> QED BY <3>1, <3>2
  <2>3. \A c : Of(c) => Of(c)'
    BY <1>1, <2>1, <2>2 DEF Of
  <2>4. \A q \in Session :
          /\ call'[q] = "deploy" /\ answer'[q] = "queued" => Batch(q) \in batches
          /\ call'[q] = "none" /\ shown'[q] = "queued" => Batch(q) \in batches
    <3> TAKE q \in Session
    <3>1. CASE q = s
      BY <1>2, <1>3, <3>1
    <3>2. CASE q # s
      BY <1>2, <1>3, <3>2 DEF Told
    <3> QED BY <3>1, <3>2
  <2>5. call[s] = "deploy" => Of(Click(s))
    <3> SUFFICES ASSUME call[s] = "deploy" PROVE Of(Click(s))
      OBVIOUS
    <3>1. clicks[s] \in 0 .. MaxClicks /\ MaxClicks \in Nat
      BY BoundAssumption DEF FormTypeOK
    <3>2. Click(s).number = clicks[s] /\ Click(s).session = s
      BY DEF Click
    <3>3. \A q \in Session : Click(s) = Click(q) => q = s
      BY DEF Click
    <3>4. Triggered(s)
      BY DEF Triggered
    <3>5. Click(s).number <= clicks[Click(s).session]
      BY <3>1, <3>2
    <3> QED BY <3>3, <3>4, <3>5 DEF Of
  <2>6. \A l \in late' : l.call = "deploy" => Of(l.click)
    BY <2>5 DEF Told
  <2>7. \A b \in batches : Of(b.click)
    BY DEF Told
  <2> QED BY <1>1, <2>1, <2>3, <2>4, <2>6, <2>7 DEF Told
<1> QED BY <1>4, <1>5, <1>6

LEMMA HearKeeps ==
  ASSUME FInv, NEW s \in Session, Hear(s)
  PROVE  FInv'
<1>1. /\ answer[s] \in Replies /\ Continue(s, answer[s])
      /\ late' = late /\ faults' = faults /\ faults \in 0 .. MaxFaults
  BY DEF Hear, FInv, FormTypeOK
<1>2. /\ call[s] \in {"history", "configs"} /\ answer[s] \in {"some", "created"}
           => configs[device[s]] # <<>>
      /\ call[s] = "deploy" /\ answer[s] = "queued" => Batch(s) \in batches
  BY DEF FInv, Configured, Told
<1> QED BY <1>1, <1>2, ContinueKeeps

LEMMA GiveUpKeeps ==
  ASSUME FInv, NEW s \in Session, GiveUp(s)
  PROVE  FInv'
<1>1. "error" \in Replies /\ Continue(s, "error")
  BY DEF GiveUp, Replies
<1>2. faults' \in 0 .. MaxFaults
  BY BoundAssumption DEF GiveUp, Fault, FInv, FormTypeOK
<1>3. late' = late \/ late' = late \cup {Late(s)}
  BY DEF GiveUp
<1> QED BY <1>1, <1>2, <1>3, ContinueKeeps DEF Late

LEMMA SaveKeeps ==
  ASSUME FInv, NEW d \in Device, Save(d)
  PROVE  FInv'
<1> USE DEF FInv
<1>1. PICK k \in {"saved", "empty"} : configs' = [configs EXCEPT ![d] = Append(@, k)]
  BY DEF Save
<1>2. /\ UNCHANGED <<script, late, batches, faults, limiter>>
      /\ doubt' \subseteq Device
  BY DEF Save, Outdated, FormTypeOK
<1>3. configs \in [Device -> Seq(Kind)] /\ k \in Kind /\ configs[d] \in Seq(Kind)
  BY DEF FormTypeOK, Kind
<1>4. Append(configs[d], k) \in Seq(Kind) /\ Append(configs[d], k) # <<>>
  BY <1>3
<1>5. /\ configs' \in [Device -> Seq(Kind)]
      /\ \A e \in Device : configs[e] # <<>> => configs'[e] # <<>>
  <2>1. configs' \in [Device -> Seq(Kind)]
    BY <1>1, <1>3, <1>4
  <2>2. configs'[d] # <<>>
    BY <1>1, <1>3, <1>4
  <2>3. \A e \in Device : e # d => configs'[e] = configs[e]
    BY <1>1, <1>3
  <2> QED BY <2>1, <2>2, <2>3
<1>6. FormTypeOK'
  BY <1>2, <1>5 DEF FormTypeOK, script
<1>7. Configured'
  <2>1. \A s \in Session : /\ call[s] \in {"history", "configs"} => device[s] \in Device
                           /\ picked[s] \subseteq Device
    BY DEF FormTypeOK
  <2> QED BY <1>2, <1>5, <2>1 DEF Configured, script
<1>8. Told'
  BY <1>2 DEF Told, Of, Batch, Triggered, Click, script
<1> QED BY <1>6, <1>7, <1>8

LEMMA FormInvariant == Spec => []FInv
<1>1. Init => FInv
  <2> SUFFICES ASSUME Init PROVE FInv
    OBVIOUS
  <2>1. configs \in [Device -> Seq(Kind)]
    <3>1. <<>> \in Seq(Kind) /\ <<"saved">> \in Seq(Kind)
      BY DEF Kind
    <3> QED BY <3>1 DEF Init
  <2>2. FormTypeOK
    BY <2>1, BoundAssumption DEF Init, FormTypeOK, Shown
  <2> QED BY <2>2 DEF Init, FInv, Configured, Told
<1>2. FInv /\ [Next]_vars => FInv'
  <2> SUFFICES ASSUME FInv, [Next]_vars PROVE FInv'
    OBVIOUS
  <2>1. CASE UNCHANGED <<script, late, configs, batches, faults, doubt>>
    BY <2>1 DEF FInv, FormTypeOK, Configured, Told, Of, Batch, Triggered, Click, script
  <2>2. ASSUME NEW k \in Key, NEW method \in Methods, Other(k, method)
        PROVE  FInv'
    BY <2>1, <2>2 DEF Other
  <2>3. CASE Elapse
    BY <2>1, <2>3 DEF Elapse
  <2>4. CASE UNCHANGED vars
    BY <2>1, <2>4 DEF vars
  <2> QED BY <2>2, <2>3, <2>4, DeployKeeps, AnswerKeeps, HearKeeps, GiveUpKeeps,
             ServeLateKeeps, SaveKeeps DEF Next
<1> QED BY <1>1, <1>2, PTL DEF Spec

-----------------------------------------------------------------------------
(* The dashboard and everything else it does is a behaviour of the rate    *)
(* limiter.                                                                *)
THEOREM IsLimited == Spec => LimiterSpec
<1>1. Init => LimiterInit
  BY DEF Init
<1>2. FInv /\ [Next]_vars => [LimiterNext]_limiter
  BY StepIsLimiter DEF FInv
<1> QED BY <1>1, <1>2, FormInvariant, PTL DEF Spec, LimiterSpec

(* So the bound on what the check lets through holds of its calls.         *)
THEOREM CallsBounded == Spec => []WindowBound
BY IsLimited, Bounded, PTL

(* TypeOK of the composition.                                              *)
THEOREM TypeCorrect == Spec => []TypeOK
<1>1. IInv => LimiterTypeOK
  BY DEF IInv
<1>2. LimiterTypeOK /\ FInv => TypeOK
  BY DEF FInv, TypeOK
<1> QED BY <1>1, <1>2, IsLimited, Invariance, FormInvariant, PTL

(* When the form triggers, every device picked has a configuration.        *)
THEOREM AllConfigured == Spec => []FormConfiguresAll
<1>1. FInv => FormConfiguresAll
  <2> SUFFICES ASSUME FInv, NEW s \in Session, call[s] = "deploy", NEW d \in picked[s]
               PROVE  configs[d] # <<>>
    BY DEF FormConfiguresAll
  <2> QED BY DEF FInv, FormTypeOK, Configured
<1> QED BY <1>1, FormInvariant, PTL

(* What the page shows of a click is true of the batches.                  *)
THEOREM TruthShown == Spec => []ShownIsTrue
<1>1. FInv => ShownIsTrue
  <2> SUFFICES ASSUME FInv, NEW s \in Session, call[s] = "none"
               PROVE  /\ shown[s] = "queued" => Batch(s) \in batches
                      /\ shown[s] \in {"no devices", "unsaved"} =>
                           /\ \A b \in batches : b.click # Click(s)
                           /\ \A l \in late : l.call = "deploy" => l.click # Click(s)
    BY DEF ShownIsTrue, Batch
  <2>1. shown[s] \in {"no devices", "unsaved"} => ~ Triggered(s)
    BY DEF Triggered
  <2> QED BY <2>1 DEF FInv, Told, Of
<1> QED BY <1>1, FormInvariant, PTL

-----------------------------------------------------------------------------
(* The form's defaults.  Excused: a default may be stored for the device.  *)

Excused(d) == configs[d] = <<>> \/ d \in doubt

(* Where a script is told, or goes on as if it were told, that there is no *)
(* configuration, there is none or the doubt is recorded.                  *)
DInv ==
  /\ DefaultsComeFirst
  /\ \A s \in Session :
       /\ call[s] = "history" /\ answer[s] = "[]" => Excused(device[s])
       /\ call[s] = "configs" /\ answer[s] = "none" => Excused(device[s])
  /\ \A l \in late : l.call = "configs" => Excused(l.device)

(* A step appends at most one configuration, and a default only where that *)
(* is excused.                                                             *)
Appends(d) ==
  \/ configs'[d] = configs[d]
  \/ \E k \in Kind : configs'[d] = Append(configs[d], k) /\ (k = "default" => Excused(d))

LEMMA DefaultsStay ==
  ASSUME FormTypeOK, DefaultsComeFirst, doubt \subseteq doubt',
         \A d \in Device : Appends(d)
  PROVE  DefaultsComeFirst'
<1> SUFFICES ASSUME NEW d \in Device, NEW i \in 2 .. Len(configs'[d]),
                    configs'[d][i] = "default"
             PROVE  d \in doubt'
  BY DEF DefaultsComeFirst
<1>1. configs[d] \in Seq(Kind)
  BY DEF FormTypeOK
<1>2. CASE configs'[d] = configs[d]
  BY <1>2 DEF DefaultsComeFirst
<1>3. ASSUME NEW k \in Kind, configs'[d] = Append(configs[d], k),
             k = "default" => Excused(d)
      PROVE  d \in doubt'
  <2>1. Len(configs'[d]) = Len(configs[d]) + 1 /\ Len(configs[d]) \in Nat
    BY <1>1, <1>3
  <2>2. CASE i \in 2 .. Len(configs[d])
    <3>1. configs'[d][i] = configs[d][i]
      BY <1>1, <1>3, <2>2
    <3> QED BY <2>2, <3>1 DEF DefaultsComeFirst
  <2>3. CASE i = Len(configs[d]) + 1
    <3>1. k = "default"
      BY <1>1, <1>3, <2>3
    <3>2. configs[d] # <<>>
      BY <2>1, <2>3
    <3> QED BY <1>3, <3>1, <3>2 DEF Excused
  <2> QED BY <2>1, <2>2, <2>3
<1> QED BY <1>2, <1>3 DEF Appends

LEMMA HandleAppends ==
  ASSUME FormTypeOK, NEW c \in Call, NEW click, NEW d, NEW D, NEW reply,
         c \in {"history", "configs"} => d \in Device,
         c = "configs" => Excused(d),
         Handle(c, click, d, D, reply)
  PROVE  /\ \A e \in Device : Appends(e)
         /\ c = "history" /\ reply = "[]" => configs[d] = <<>> /\ configs' = configs
<1>1. CASE UNCHANGED configs /\ (c = "history" => reply = IF configs[d] = <<>> THEN "[]" ELSE "some")
  BY <1>1 DEF Appends
<1>2. CASE c = "configs" /\ configs' = [configs EXCEPT ![d] = Append(@, "default")]
  <2>1. configs \in [Device -> Seq(Kind)] /\ d \in Device /\ "default" \in Kind
    BY <1>2 DEF FormTypeOK, Kind
  <2> QED BY <1>2, <2>1 DEF Appends
<1> QED BY <1>1, <1>2 DEF Handle

LEMMA ServeAppends ==
  ASSUME FormTypeOK, NEW c \in Call, NEW click, NEW d, NEW D, NEW reply,
         c \in {"history", "configs"} => d \in Device,
         c = "configs" => Excused(d),
         Serve(c, click, d, D, reply)
  PROVE  /\ \A e \in Device : Appends(e)
         /\ c = "history" /\ reply = "[]" => configs[d] = <<>> /\ configs' = configs
<1>1. CASE Handle(c, click, d, D, reply)
  BY <1>1, HandleAppends
<1>2. CASE reply = "error" /\ UNCHANGED configs
  BY <1>2 DEF Appends
<1>3. CASE reply = "error" /\ \E lost \in Replies \ {"error"} : Handle(c, click, d, D, lost)
  BY <1>3, HandleAppends
<1> QED BY <1>1, <1>2, <1>3 DEF Serve

LEMMA AnswerExcuses ==
  ASSUME FInv, DInv, NEW s \in Session, Answer(s)
  PROVE  DInv'
<1>1. FormTypeOK /\ DefaultsComeFirst
  BY DEF FInv, DInv
<1>2. PICK reply \in Replies :
        /\ Serve(call[s], Click(s), device[s], picked[s], reply)
        /\ answer' = [answer EXCEPT ![s] = reply]
  BY DEF Answer
<1>3. /\ call[s] \in Call /\ answer[s] = "none"
      /\ call[s] \in {"history", "configs"} => device[s] \in Device
      /\ call[s] = "configs" => Excused(device[s])
  BY <1>1 DEF Answer, FormTypeOK, DInv
<1>4. /\ \A e \in Device : Appends(e)
      /\ call[s] = "history" /\ reply = "[]" => configs[device[s]] = <<>> /\ configs' = configs
  BY <1>1, <1>2, <1>3, ServeAppends
<1>5. /\ doubt' = doubt \cup Outdated(Session \ {s}, late)
      /\ UNCHANGED <<call, picked, device, late>>
  BY DEF Answer
<1>6. DefaultsComeFirst'
  BY <1>1, <1>4, <1>5, DefaultsStay
<1>7. ASSUME NEW q \in Session
      PROVE  /\ call[q] = "history" /\ answer'[q] = "[]" => Excused(device[q])'
             /\ call[q] = "configs" /\ answer'[q] = "none" => Excused(device[q])'
  <2>1. CASE q = s
    <3>1. answer'[s] = reply /\ reply # "none"
      BY <1>1, <1>2 DEF FormTypeOK, Replies
    <3> QED BY <1>4, <1>5, <2>1, <3>1 DEF Excused
  <2>2. CASE q # s
    <3>1. answer'[q] = answer[q]
      BY <1>1, <1>2, <2>2 DEF FormTypeOK
    <3>2. call[q] \in {"history", "configs"} =>
            call[q] # "none" /\ device[q] \in picked[q] /\ device[q] \in Device
      BY <1>1 DEF FormTypeOK
    <3>3. call[q] \in {"history", "configs"} /\ configs'[device[q]] # configs[device[q]]
            => device[q] \in doubt'
      BY <1>5, <2>2, <3>2 DEF Outdated
    <3> QED BY <1>5, <3>1, <3>3 DEF DInv, Excused
  <2> QED BY <2>1, <2>2
<1>8. ASSUME NEW l \in late, l.call = "configs"
      PROVE  Excused(l.device)'
  <2>1. l.device \in Device /\ Excused(l.device)
    BY <1>1, <1>8 DEF FormTypeOK, DInv
  <2>2. configs'[l.device] # configs[l.device] => l.device \in doubt'
    BY <1>5, <1>8, <2>1 DEF Outdated
  <2> QED BY <1>5, <2>1, <2>2 DEF Excused
<1> QED BY <1>5, <1>6, <1>7, <1>8 DEF DInv

(* A step that takes no session on: it serves a late call, or somebody     *)
(* saves a configuration.                                                  *)
LEMMA OutsideExcuses ==
  ASSUME FInv, DInv, UNCHANGED script, late' \subseteq late,
         doubt' = doubt \cup Outdated(Session, late'),
         \A e \in Device : Appends(e)
  PROVE  DInv'
<1>1. FormTypeOK /\ DefaultsComeFirst
  BY DEF FInv, DInv
<1>2. DefaultsComeFirst'
  BY <1>1, DefaultsStay
<1>3. ASSUME NEW q \in Session, call[q] \in {"history", "configs"}, Excused(device[q])
      PROVE  Excused(device[q])'
  <2>1. call[q] # "none" /\ device[q] \in picked[q] /\ device[q] \in Device
    BY <1>1, <1>3 DEF FormTypeOK
  <2>2. configs'[device[q]] # configs[device[q]] => device[q] \in doubt'
    BY <2>1 DEF Outdated
  <2> QED BY <1>3, <2>2 DEF Excused, script
<1>4. ASSUME NEW l \in late', l.call = "configs"
      PROVE  Excused(l.device)'
  <2>1. l.device \in Device /\ Excused(l.device)
    BY <1>1, <1>4 DEF FormTypeOK, DInv
  <2>2. configs'[l.device] # configs[l.device] => l.device \in doubt'
    BY <1>4, <2>1 DEF Outdated
  <2> QED BY <2>1, <2>2 DEF Excused
<1> QED BY <1>2, <1>3, <1>4 DEF DInv, script

LEMMA ServeLateExcuses ==
  ASSUME FInv, DInv, NEW l \in late, ServeLate(l)
  PROVE  DInv'
<1>1. FormTypeOK
  BY DEF FInv
<1>2. PICK reply \in Replies : Serve(l.call, l.click, l.device, l.devices, reply)
  BY DEF ServeLate
<1>3. /\ l.call \in Call
      /\ l.call \in {"history", "configs"} => l.device \in Device
      /\ l.call = "configs" => Excused(l.device)
  BY <1>1 DEF FormTypeOK, DInv
<1>4. \A e \in Device : Appends(e)
  BY <1>1, <1>2, <1>3, ServeAppends
<1> QED BY <1>4, OutsideExcuses DEF ServeLate

LEMMA SaveExcuses ==
  ASSUME FInv, DInv, NEW d \in Device, Save(d)
  PROVE  DInv'
<1>1. PICK k \in {"saved", "empty"} : configs' = [configs EXCEPT ![d] = Append(@, k)]
  BY DEF Save
<1>2. configs \in [Device -> Seq(Kind)] /\ k \in Kind /\ k # "default"
  BY DEF FInv, FormTypeOK, Kind
<1>3. \A e \in Device : Appends(e)
  BY <1>1, <1>2 DEF Appends
<1>4. late' = late /\ UNCHANGED script /\ doubt' = doubt \cup Outdated(Session, late')
  BY DEF Save, Outdated
<1> QED BY <1>3, <1>4, OutsideExcuses

LEMMA DeployExcuses ==
  ASSUME FInv, DInv, NEW s \in Session, Deploy(s)
  PROVE  DInv'
<1>1. /\ call \in [Session -> Call \cup {"none"}]
      /\ call' = [call EXCEPT ![s] = "devices"]
      /\ UNCHANGED <<device, answer, late, configs, doubt>>
  BY DEF Deploy, FInv, FormTypeOK
<1>2. ASSUME NEW q \in Session
      PROVE  /\ call'[q] = "history" /\ answer[q] = "[]" => Excused(device[q])
             /\ call'[q] = "configs" /\ answer[q] = "none" => Excused(device[q])
  BY <1>1 DEF DInv
<1> QED BY <1>1, <1>2 DEF DInv, Excused, DefaultsComeFirst

LEMMA ContinueExcuses ==
  ASSUME FInv, DInv, NEW s \in Session, NEW reply \in Replies, Continue(s, reply),
         call[s] = "history" /\ reply = "[]" => Excused(device[s]),
         \A l \in late' : l.call = "configs" => Excused(l.device)
  PROVE  DInv'
<1>1. /\ answer' = [answer EXCEPT ![s] = "none"] /\ configs' = configs
      /\ answer \in [Session -> Replies \cup {"none"}]
      /\ call \in [Session -> Call \cup {"none"}]
      /\ device \in [Session -> Device \cup {NoDevice}]
  BY DEF Continue, FInv, FormTypeOK
<1>2. /\ doubt \subseteq doubt'
      /\ \A q \in Session : q # s => call'[q] = call[q] /\ device'[q] = device[q]
      /\ call'[s] = "configs" => Excused(device[s])' /\ device'[s] = device[s]
  <2>1. ASSUME NEW left, GoOn(s, left), UNCHANGED doubt
        PROVE  /\ call'[s] # "configs" /\ doubt \subseteq doubt'
               /\ \A q \in Session : q # s => call'[q] = call[q] /\ device'[q] = device[q]
    BY <1>1, <2>1 DEF GoOn
  <2>2. ASSUME NEW what, Finish(s, what), UNCHANGED doubt
        PROVE  /\ call'[s] # "configs" /\ doubt \subseteq doubt'
               /\ \A q \in Session : q # s => call'[q] = call[q] /\ device'[q] = device[q]
    BY <1>1, <2>2 DEF Finish
  <2>3. CASE /\ call[s] = "history" /\ call' = [call EXCEPT ![s] = "configs"]
             /\ doubt' = IF reply = "[]" THEN doubt ELSE doubt \cup {device[s]}
             /\ UNCHANGED device
    BY <1>1, <2>3 DEF Excused
  <2>4. CASE call[s] = "history" /\ AfterHistory(s, reply)
    BY <2>1, <2>3, <2>4 DEF AfterHistory
  <2>5. CASE call[s] = "configs" /\ AfterCreate(s, reply)
    BY <2>1, <2>2, <2>5 DEF AfterCreate
  <2>6. CASE call[s] = "deploy" /\ AfterTrigger(s, reply)
    BY <2>2, <2>6 DEF AfterTrigger
  <2>7. CASE call[s] = "devices" /\ AfterDevices(s, reply)
    BY <2>1, <2>2, <2>7 DEF AfterDevices
  <2> QED BY <2>4, <2>5, <2>6, <2>7 DEF Continue
<1>3. \A d : Excused(d) => configs'[d] = <<>> \/ d \in doubt'
  BY <1>1, <1>2 DEF Excused
<1>4. ASSUME NEW q \in Session
      PROVE  /\ call'[q] = "history" /\ answer'[q] = "[]" => Excused(device[q])'
             /\ call'[q] = "configs" /\ answer'[q] = "none" => Excused(device[q])'
  <2>1. CASE q = s
    BY <1>1, <1>2, <2>1
  <2>2. CASE q # s
    BY <1>1, <1>2, <1>3, <2>2 DEF DInv, Excused
  <2> QED BY <2>1, <2>2
<1>5. DefaultsComeFirst'
  BY <1>1, <1>2 DEF DInv, DefaultsComeFirst
<1>6. \A l \in late' : l.call = "configs" => Excused(l.device)'
  BY <1>3 DEF Excused
<1> QED BY <1>4, <1>5, <1>6 DEF DInv

LEMMA HearExcuses ==
  ASSUME FInv, DInv, NEW s \in Session, Hear(s)
  PROVE  DInv'
<1>1. answer[s] \in Replies /\ Continue(s, answer[s]) /\ late' = late
  BY DEF Hear, FInv, FormTypeOK
<1> QED BY <1>1, ContinueExcuses DEF DInv

LEMMA GiveUpExcuses ==
  ASSUME FInv, DInv, NEW s \in Session, GiveUp(s)
  PROVE  DInv'
<1>1. "error" \in Replies /\ Continue(s, "error")
  BY DEF GiveUp, Replies
<1>2. late' = late \/ (answer[s] = "none" /\ late' = late \cup {Late(s)})
  BY DEF GiveUp
<1>3. Late(s).call = call[s] /\ Late(s).device = device[s]
  BY DEF Late
<1>4. \A l \in late' : l.call = "configs" => Excused(l.device)
  BY <1>2, <1>3 DEF DInv
<1> QED BY <1>1, <1>4, ContinueExcuses

(* The form stores its default behind another configuration only where its *)
(* question was not answered or was overtaken, whoever else stores one and *)
(* whatever is served late.                                                *)
THEOREM DefaultsFirst == Spec => []DefaultsComeFirst
<1>1. Init => DInv
  <2> SUFFICES ASSUME Init PROVE DInv
    OBVIOUS
  <2>1. ASSUME NEW d \in Device
        PROVE  Len(configs[d]) = 0 \/ Len(configs[d]) = 1
    <3>1. CASE configs[d] = <<>>
      BY <3>1
    <3>2. CASE configs[d] = <<"saved">>
      BY <3>2
    <3> QED BY <3>1, <3>2 DEF Init
  <2>2. DefaultsComeFirst
    <3> SUFFICES ASSUME NEW d \in Device, NEW i \in 2 .. Len(configs[d])
                 PROVE  FALSE
      BY DEF DefaultsComeFirst
    <3>1. CASE Len(configs[d]) = 0
      BY <3>1
    <3>2. CASE Len(configs[d]) = 1
      BY <3>2
    <3> QED BY <2>1, <3>1, <3>2
  <2>3. late = {} /\ \A s \in Session : call[s] = "none"
    BY DEF Init
  <2> QED BY <2>2, <2>3 DEF DInv
<1>2. FInv /\ DInv /\ [Next]_vars => DInv'
  <2> SUFFICES ASSUME FInv, DInv, [Next]_vars PROVE DInv'
    OBVIOUS
  <2>1. CASE UNCHANGED <<script, late, configs, doubt>>
    BY <2>1 DEF DInv, DefaultsComeFirst, Excused, script
  <2>2. ASSUME NEW k \in Key, NEW method \in Methods, Other(k, method)
        PROVE  DInv'
    BY <2>1, <2>2 DEF Other
  <2>3. CASE Elapse
    BY <2>1, <2>3 DEF Elapse
  <2>4. CASE UNCHANGED vars
    BY <2>1, <2>4 DEF vars
  <2> QED BY <2>2, <2>3, <2>4, DeployExcuses, AnswerExcuses, HearExcuses, GiveUpExcuses,
             ServeLateExcuses, SaveExcuses DEF Next
<1>3. DInv => DefaultsComeFirst
  BY DEF DInv
<1> QED BY <1>1, <1>2, <1>3, FormInvariant, PTL DEF Spec
=============================================================================
