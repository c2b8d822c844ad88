------------------------------- MODULE Dashboard -------------------------------
(***************************************************************************)
(* The trigger form of the dashboard (dashboard/views/deployments.py)      *)
(* with its HTTP client (dashboard/utils/api_client.py), the API it calls, *)
(* and the rate limiter its calls go through.                              *)
(*                                                                         *)
(* A click runs the script from its start: it asks for the devices there   *)
(* are, for the history of every device picked, saves a default            *)
(* configuration for one that seems to have none, and triggers the         *)
(* deployment.  The client gives up on a call after its timeout; the API   *)
(* may serve it all the same, then or later.  All the dashboard's calls    *)
(* come from its server's one address, so a path is a key of the limiter.  *)
(* The version asked for is "latest".                                      *)
(***************************************************************************)
EXTENDS RateLimiter, Sequences, SequencesExt

CONSTANTS
  Session,      \* browser sessions
  Device,       \* devices, all of them registered
  NoDevice,
  MaxClicks,    \* bound on a session's clicks
  MaxConfigs,   \* bound on the configurations of a device
  MaxFaults     \* bound on what goes wrong in calls

ASSUME DeviceAssumption == NoDevice \notin Device
ASSUME PathAssumption == "history" \in Key
ASSUME BoundAssumption ==
  MaxClicks \in Nat /\ MaxConfigs \in Nat /\ MaxFaults \in Nat

(* GET /api/devices/ and /api/configs/history, POST /api/configs/ and      *)
(* /api/configs/deploy.                                                    *)
Call == {"devices", "history", "configs", "deploy"}

VARIABLES
  call,      \* call[s]: the call s is at, or "none" where its script is done
  picked,    \* picked[s]: the devices selected
  todo,      \* todo[s]: those not yet seen to
  device,    \* device[s]: the device the call is about
  answer,    \* answer[s]: of the API to the call: "none" as yet
  late,      \* calls given up that the API may yet serve
  configs,   \* configs[d]: kinds of the configurations of d, in order
  batches,   \* deployments queued: whose click, and of what devices
  clicks,    \* clicks[s]: clicks so far
  shown,     \* shown[s]: what the page says of the last click
  faults,    \* what went wrong so far
  doubt      \* ghost: devices whose history was not, or is no longer, known
             \* to a script that went on from it

script == <<call, picked, todo, device, answer, clicks, shown>>
vars == <<script, late, configs, batches, faults, doubt, limiter>>

(* What comes of a call; "error" is any status of 400 and more, and no     *)
(* answer.                                                                 *)
Replies == {"[]", "some", "created", "missing", "queued", "error"}

(* A configuration is "saved" by users, "empty" where its desired_state    *)
(* is {}, or the form's "default".                                         *)
Kind == {"saved", "empty", "default"}

Click(s) == [session |-> s, number |-> clicks[s]]

Init ==
  /\ call = [s \in Session |-> "none"]
  /\ picked = [s \in Session |-> {}] /\ todo = [s \in Session |-> {}]
  /\ device = [s \in Session |-> NoDevice]
  /\ answer = [s \in Session |-> "none"]
  /\ late = {} /\ batches = {}
  /\ configs \in [Device -> {<<>>, <<"saved">>}]
  /\ clicks = [s \in Session |-> 0]
  /\ shown = [s \in Session |-> "nothing"]
  /\ faults = 0 /\ doubt = {}
  /\ LimiterInit

-----------------------------------------------------------------------------
(* The API.                                                                *)

(* find_devices_missing_config: those whose newest configuration is empty, *)
(* or who have none.                                                       *)
Missing(D) == {d \in D : configs[d] = <<>> \/ Last(configs[d]) = "empty"}

(* What the handler of call c of a click does, about device d or devices   *)
(* D, and answers.                                                         *)
Handle(c, click, d, D, reply) ==
  \/ /\ c = "devices" /\ reply = "some"
     /\ UNCHANGED <<configs, batches>>
  \/ /\ c = "history"
     /\ reply = IF configs[d] = <<>> THEN "[]" ELSE "some"
     /\ UNCHANGED <<configs, batches>>
  \/ /\ c = "configs" /\ reply = "created"
     /\ configs' = [configs EXCEPT ![d] = Append(@, "default")]
     /\ UNCHANGED batches
  \/ /\ c = "deploy" /\ Missing(D) # {} /\ reply = "missing"
     /\ UNCHANGED <<configs, batches>>
  \/ /\ c = "deploy" /\ Missing(D) = {} /\ reply = "queued"
     /\ batches' = batches \cup {[click |-> click, devices |-> D]}
     /\ UNCHANGED configs

Fault ==
  /\ faults < MaxFaults
  /\ faults' = faults + 1

(* What the limiter does with call c.  The page asks for the history       *)
(* whenever it is drawn, so that key is followed; any other call may be    *)
(* refused or not.                                                         *)
Passes(c) == IF c = "history" THEN Admit(c, "GET") ELSE UNCHANGED limiter

Refused(c) == IF c = "history" THEN Refuse(c, "GET") ELSE UNCHANGED limiter

PassesUncounted(c) == IF c = "history" THEN FailOpen(c) ELSE UNCHANGED limiter

(* A call of a click is let through and handled; or it is refused; or its  *)
(* handler fails, having committed what it does or not.                    *)
Serve(c, click, d, D, reply) ==
  \/ /\ \/ Passes(c) /\ UNCHANGED faults
        \/ PassesUncounted(c) /\ Fault
     /\ Handle(c, click, d, D, reply)
  \/ /\ Refused(c)
     /\ reply = "error"
     /\ UNCHANGED <<configs, batches, faults>>
  \/ /\ Passes(c)
     /\ reply = "error" /\ Fault
     /\ \E lost \in Replies \ {"error"} : Handle(c, click, d, D, lost)

(* The devices a step saves a configuration for while a script of S may    *)
(* have been told of them, or a call of L is to save a default.            *)
Outdated(S, L) ==
  {d \in Device :
     /\ configs'[d] # configs[d]
     /\ \/ \E s \in S : call[s] # "none" /\ d \in picked[s]
        \/ \E l \in L : l.call = "configs" /\ l.device = d}

Answer(s) ==
  /\ call[s] # "none" /\ answer[s] = "none"
  /\ \E reply \in Replies :
       /\ Serve(call[s], Click(s), device[s], picked[s], reply)
       /\ answer' = [answer EXCEPT ![s] = reply]
  /\ doubt' = doubt \cup Outdated(Session \ {s}, late)
  /\ UNCHANGED <<call, picked, todo, device, late, clicks, shown>>

(* A call that was given up reaches the API.                               *)
ServeLate(l) ==
  /\ l \in late
  /\ late' = late \ {l}
  /\ \E reply \in Replies :
       Serve(l.call, l.click, l.device, l.devices, reply)
  /\ doubt' = doubt \cup Outdated(Session, late')
  /\ UNCHANGED script

(* Somebody saves a configuration, from elsewhere.                         *)
Save(d) ==
  /\ Len(configs[d]) < MaxConfigs
  /\ \E k \in {"saved", "empty"} : configs' = [configs EXCEPT ![d] = Append(@, k)]
  /\ doubt' = doubt \cup Outdated(Session, late)
  /\ UNCHANGED <<script, late, batches, faults, limiter>>

(* Any other call of the dashboard: the page asks for the history of the   *)
(* devices selected whenever it is drawn, which is every five seconds.     *)
Other(k, method) ==
  /\ Admit(k, method) \/ Refuse(k, method)
  /\ UNCHANGED <<script, late, configs, batches, faults, doubt>>

-----------------------------------------------------------------------------
(* The script.                                                             *)

Wrong_GoOn_Early(s, left) ==
  /\ todo' = [todo EXCEPT ![s] = left]
  /\ \/ /\ call' = [call EXCEPT ![s] = "deploy"]
        /\ device' = [device EXCEPT ![s] = NoDevice]
     \/ /\ call' = [call EXCEPT ![s] = "history"]
        /\ \E d \in left : device' = [device EXCEPT ![s] = d]

(* The loop goes on with one of the devices left, or ends.                 *)
GoOn(s, left) ==
  /\ todo' = [todo EXCEPT ![s] = left]
  /\ \/ /\ left = {} /\ call' = [call EXCEPT ![s] = "deploy"]
        /\ device' = [device EXCEPT ![s] = NoDevice]
     \/ /\ call' = [call EXCEPT ![s] = "history"]
        /\ \E d \in left : device' = [device EXCEPT ![s] = d]

Finish(s, what) ==
  /\ call' = [call EXCEPT ![s] = "none"]
  /\ shown' = [shown EXCEPT ![s] = what]
  /\ todo' = [todo EXCEPT ![s] = {}]
  /\ device' = [device EXCEPT ![s] = NoDevice]

(* The button is disabled unless devices are selected.  The script that    *)
(* the click starts asks for the devices before it comes to the button.    *)
Deploy(s) ==
  /\ call[s] = "none" /\ clicks[s] < MaxClicks
  /\ call' = [call EXCEPT ![s] = "devices"]
  /\ \E D \in (SUBSET Device) \ {{}} :
       /\ picked' = [picked EXCEPT ![s] = D]
       /\ todo' = [todo EXCEPT ![s] = D]
  /\ clicks' = [clicks EXCEPT ![s] = @ + 1]
  /\ shown' = [shown EXCEPT ![s] = "nothing"]
  /\ UNCHANGED <<device, answer, late, configs, batches, faults, doubt, limiter>>

(* list_devices makes [] of every error, and the form then says that no    *)
(* device is registered and returns before it reads the button.            *)
AfterDevices(s, reply) ==
  /\ \/ reply = "some" /\ GoOn(s, todo[s]) /\ UNCHANGED shown
     \/ reply # "some" /\ Finish(s, "no devices")
  /\ UNCHANGED doubt

Wrong_AfterHistory_Stays(s, reply) ==
  \/ /\ reply = "some" /\ GoOn(s, todo[s])
     /\ UNCHANGED <<doubt, shown>>
  \/ /\ reply # "some" /\ call' = [call EXCEPT ![s] = "configs"]
     /\ doubt' = IF reply = "[]" THEN doubt ELSE doubt \cup {device[s]}
     /\ UNCHANGED <<todo, device, shown>>

Wrong_AfterHistory_Always(s, reply) ==
  /\ call' = [call EXCEPT ![s] = "configs"]
  /\ doubt' = IF reply \in {"[]", "some"} THEN doubt ELSE doubt \cup {device[s]}
  /\ UNCHANGED <<todo, device, shown>>

(* get_config_history makes [] of every error.                             *)
AfterHistory(s, reply) ==
  \/ /\ reply = "some" /\ GoOn(s, todo[s] \ {device[s]})
     /\ UNCHANGED <<doubt, shown>>
  \/ /\ reply # "some" /\ call' = [call EXCEPT ![s] = "configs"]
     /\ doubt' = IF reply = "[]" THEN doubt ELSE doubt \cup {device[s]}
     /\ UNCHANGED <<todo, device, shown>>

Wrong_AfterCreate_GoesOn(s, reply) ==
  /\ GoOn(s, todo[s] \ {device[s]})
  /\ UNCHANGED <<doubt, shown>>

(* The form stops at a configuration that could not be saved.              *)
AfterCreate(s, reply) ==
  /\ \/ reply = "created" /\ GoOn(s, todo[s] \ {device[s]}) /\ UNCHANGED shown
     \/ reply # "created" /\ Finish(s, "unsaved")
  /\ UNCHANGED doubt

Wrong_AfterTrigger_Optimist(s, reply) ==
  /\ Finish(s, IF reply = "missing" THEN "rejected" ELSE "queued")
  /\ UNCHANGED doubt

AfterTrigger(s, reply) ==
  /\ Finish(s, IF reply = "queued" THEN "queued" ELSE "rejected")
  /\ UNCHANGED doubt

Continue(s, reply) ==
  /\ \/ call[s] = "devices" /\ AfterDevices(s, reply)
     \/ call[s] = "history" /\ AfterHistory(s, reply)
     \/ call[s] = "configs" /\ AfterCreate(s, reply)
     \/ call[s] = "deploy" /\ AfterTrigger(s, reply)
  /\ answer' = [answer EXCEPT ![s] = "none"]
  /\ UNCHANGED <<picked, clicks, configs, batches, limiter>>

Hear(s) ==
  /\ call[s] # "none" /\ answer[s] # "none"
  /\ Continue(s, answer[s])
  /\ UNCHANGED <<late, faults>>

Late(s) == [call |-> call[s], click |-> Click(s),
            device |-> device[s], devices |-> picked[s]]

(* The timeout, or a connection that fails.  The list of the devices may   *)
(* come late too, and changes nothing.                                     *)
GiveUp(s) ==
  /\ call[s] # "none"
  /\ Fault
  /\ late' = late \/ /\ answer[s] = "none" /\ call[s] # "devices"
                     /\ late' = late \cup {Late(s)}
  /\ Continue(s, "error")

Elapse == Tick /\ UNCHANGED <<script, late, configs, batches, faults, doubt>>

Next ==
  \/ \E s \in Session : Deploy(s) \/ Answer(s) \/ Hear(s) \/ GiveUp(s)
  \/ \E l \in late : ServeLate(l)
  \/ \E d \in Device : Save(d)
  \/ \E k \in Key, method \in Methods : Other(k, method)
  \/ Elapse

(* A script runs to its end: every call is answered or given up.           *)
Spec ==
  Init /\ [][Next]_vars /\ \A s \in Session : WF_vars(Answer(s) \/ Hear(s))

-----------------------------------------------------------------------------
(* Properties.                                                             *)

Clicks == [session : Session, number : 0 .. MaxClicks]

Shown == {"nothing", "no devices", "unsaved", "queued", "rejected"}

FormTypeOK ==
  /\ call \in [Session -> Call \cup {"none"}]
  /\ picked \in [Session -> SUBSET Device] /\ todo \in [Session -> SUBSET Device]
  /\ device \in [Session -> Device \cup {NoDevice}]
  /\ answer \in [Session -> Replies \cup {"none"}]
  /\ late \subseteq [call : Call, click : Clicks, device : Device \cup {NoDevice},
                     devices : SUBSET Device]
  /\ configs \in [Device -> Seq(Kind)]
  /\ batches \subseteq [click : Clicks, devices : SUBSET Device]
  /\ clicks \in [Session -> 0 .. MaxClicks]
  /\ shown \in [Session -> Shown]
  /\ faults \in 0 .. MaxFaults /\ doubt \subseteq Device
  /\ \A s \in Session :
       /\ todo[s] \subseteq picked[s]
       /\ call[s] \in {"history", "configs"} => device[s] \in todo[s]
       /\ call[s] = "deploy" => todo[s] = {}
       /\ call[s] = "none" => answer[s] = "none"
  /\ \A l \in late : l.call \in {"history", "configs"} => l.device \in Device

TypeOK == LimiterTypeOK /\ FormTypeOK

(* A default configuration comes after another one of its device only      *)
(* where the form's question for the history was not answered, or the      *)
(* other was saved after the answer                                        *)
(* (dashboard/views/deployments.py:183-196).                               *)
DefaultsComeFirst ==
  \A d \in Device : \A i \in 2 .. Len(configs[d]) :
    configs[d][i] = "default" => d \in doubt

(* Whatever was refused, timed out or came late: when the form triggers    *)
(* the deployment, every device picked has a configuration, so the only    *)
(* refusal for a missing one is of an empty one.                           *)
FormConfiguresAll ==
  \A s \in Session : call[s] = "deploy" => \A d \in picked[s] : configs[d] # <<>>

(* "Deployment queued" is shown of a batch there is, of just the devices   *)
(* picked; and where the form stopped before triggering, there is none and *)
(* none comes late.  Of a trigger it was told the failure of it says       *)
(* nothing that holds: the batch may be queued all the same.               *)
ShownIsTrue ==
  \A s \in Session : call[s] = "none" =>
    LET batch == [click |-> Click(s), devices |-> picked[s]]
    IN  /\ shown[s] = "queued" => batch \in batches
        /\ shown[s] \in {"no devices", "unsaved"} =>
             /\ \A b \in batches : b.click # Click(s)
             /\ \A l \in late : l.call = "deploy" => l.click # Click(s)

(* Every click comes to an end, and one whose button is read gets an       *)
(* answer of its own: queued, rejected, or not saved.  A click whose list  *)
(* of devices fails is not read: the page says that there are no devices   *)
(* (dashboard/views/deployments.py:137-139).                               *)
ClickAnswered ==
  \A s \in Session :
    /\ call[s] # "none" ~> call[s] = "none" /\ shown[s] # "nothing"
    /\ call[s] \in {"history", "configs", "deploy"}
         ~> call[s] = "none" /\ shown[s] \in {"unsaved", "queued", "rejected"}
=============================================================================
