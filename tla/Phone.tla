--------------------------------- MODULE Phone ---------------------------------
(***************************************************************************)
(* The applications phone, send and rcv (directory apps): what main()      *)
(* allocates, attaches to its sessions and opens until it enters the event *)
(* loop, and what the exit functions rcv_session_exit and send_session_exit*)
(* release, through the error and signal handling of module SphoneExit.    *)
(* Any step may fail and a signal may come between any two.                *)
(*                                                                         *)
(* Players and recorders of /dev/audio share a device that is opened once  *)
(* and counts its users (audio/sphone_audio_devaudio.c).  Modules are the  *)
(* two sessions.  Left out: the arguments of the calls.                    *)
(***************************************************************************)
EXTENDS SphoneExit

CONSTANT Devices   \* names of audio devices

Session == {"rcv_session", "send_session"}

ASSUME PhoneAssumption == Modules = Session

VARIABLES
  opt,        \* the program and its options
  step,       \* next step of main()
  attached,   \* objects that the fields of a session point to
  released,   \* history: how often an object was freed
  sock,       \* sockets that rtp_s and rtcp_s of an RTP session name
  held,       \* ap_devaudio and ar_devaudio: {} or the device
  dd_refcnt   \* users of a listed device, 0 for one that is not open

phoneVars == <<opt, step, attached, released, sock, held, dd_refcnt>>
allVars == <<vars, phoneVars>>

-----------------------------------------------------------------------------
(* main() of the three programs, as a list of steps.  A "new" object comes *)
(* from an allocation, "call" is a call that may fail, "attach" is an      *)
(* assignment to a field of a session.                                     *)

Step(op, s, o) == [op |-> op, s |-> s, o |-> o]
New(o)       == <<Step("new", "none", o)>>
Call(f)      == <<Step("call", "none", f)>>
Register(s)  == <<Step("register", s, s)>>
Attach(s, o) == <<Step("attach", s, o)>>
NewIn(s, o)  == New(o) \o Attach(s, o)
Open(o)      == <<Step("open", "none", o)>>

coding_param_init(cp) == New(cp)
coding_init(ca) == New(ca)
rtp_session_new(rtp) == New(rtp)
rtp_init == Call("rtp_init")
rtp_rcv_session_init == <<Step("sockets", "none", "rtp_r")>>
\* Mutant: the sockets that memcpy brought are used.
rtp_send_session_initShares == Call("rtp_send_session_init")

rtp_send_session_init == <<Step("sockets", "none", "rtp_s")>>
rcv_session_new == Register("rcv_session")
send_session_new == Register("send_session")
rtcp_rcv_stats_new == NewIn("rcv_session", "rrs")
rtcp_send_stats_new == NewIn("send_session", "rss")
audio_play_init == New("pa")
audio_record_init == New("ra")
playout_init == NewIn("rcv_session", "playout") \o Call("silentbuf")
pa_start == Call("pa_start")
ra_start == Call("ra_start")
napt_probing == Call("napt_probing")

PhoneStart ==
  coding_param_init("cp_audio_r") \o coding_param_init("cp_audio_s")
  \o coding_param_init("cp_nw_r") \o coding_param_init("cp_nw_s")
  \o Call("filename") \o coding_init("ca_r") \o coding_init("ca_s")
  \o rtp_session_new("rtp_r") \o rtp_session_new("rtp_s") \o rtp_init
  \o rtp_rcv_session_init
  \o <<Step("memcpy", "rtp_s", "rtp_r")>> \o rtp_send_session_init
  \o rcv_session_new
  \o Attach("rcv_session", "cp_audio_r") \o Attach("rcv_session", "cp_nw_r")
  \o Attach("rcv_session", "rtp_r") \o rtcp_rcv_stats_new
  \o Attach("rcv_session", "ca_r")
  \o send_session_new
  \o Attach("send_session", "cp_audio_s") \o Attach("send_session", "cp_nw_s")
  \o Attach("send_session", "rtp_s") \o rtcp_send_stats_new
  \o Attach("send_session", "ca_s")
  \o audio_play_init \o Open("pa") \o Attach("rcv_session", "pa")
  \o audio_record_init \o Attach("send_session", "ra") \o Open("ra")
  \o playout_init
  \o Call("rtcp_rcv_init") \o Call("rtcp_send_init")
  \o pa_start \o ra_start \o Call("rcv_start")

\* ss_record_api is not set: the recorder is attached to no session.
SendStart ==
  coding_param_init("cp_audio_s") \o coding_param_init("cp_nw_s")
  \o Call("filename") \o coding_init("ca_s")
  \o rtp_session_new("rtp_s") \o rtp_init \o rtp_send_session_init
  \o send_session_new
  \o Attach("send_session", "cp_audio_s") \o Attach("send_session", "cp_nw_s")
  \o Attach("send_session", "rtp_s") \o rtcp_send_stats_new
  \o Attach("send_session", "ca_s")
  \o audio_record_init \o Open("ra")
  \o Call("rtcp_send_init") \o Call("duration") \o ra_start

RcvStart ==
  coding_param_init("cp_audio_r") \o coding_param_init("cp_nw_r")
  \o Call("filename") \o coding_init("ca_r")
  \o rtp_session_new("rtp_r") \o rtp_init \o rtp_rcv_session_init
  \o rcv_session_new
  \o Attach("rcv_session", "cp_audio_r") \o Attach("rcv_session", "cp_nw_r")
  \o Attach("rcv_session", "rtp_r") \o rtcp_rcv_stats_new
  \o Attach("rcv_session", "ca_r") \o Call("logfile")
  \o audio_play_init \o Open("pa") \o Attach("rcv_session", "pa")
  \o playout_init
  \o Call("rtcp_rcv_init") \o Call("duration")
  \o pa_start \o Call("rcv_start") \o napt_probing

Start(app) == CASE app = "phone" -> PhoneStart
                [] app = "send"  -> SendStart
                [] app = "rcv"   -> RcvStart

Apps == {"phone", "send", "rcv"}
Sockets == {"rtp_r.rtp_s", "rtp_r.rtcp_s", "rtp_s.rtp_s", "rtp_s.rtcp_s"}
Objects == Session \cup Sockets
             \cup UNION {{Start(app)[i].o : i \in DOMAIN Start(app)} : app \in Apps}

\* These return -1 without a call of sphone_error.
Silent == {"rtp_init", "logfile", "silentbuf"}

\* What the command lines can choose: audio module and names of devices.
Audio == {"file", "devaudio"}
PhoneOptions == [app : {"phone"}, audio : Audio, play : Devices, record : Devices]
SendOptions == [app : {"send"}, audio : Audio, record : Devices]
RcvOptions == [app : {"rcv"}, audio : Audio, play : Devices]

PhoneInit ==
  /\ Init
  /\ opt \in PhoneOptions \cup SendOptions \cup RcvOptions
  /\ step = 1
  /\ attached = [s \in Session |-> {}]
  /\ released = [o \in Objects |-> 0]
  /\ sock = [o \in {"rtp_r", "rtp_s"} |-> {}]
  /\ held = [o \in {"pa", "ra"} |-> {}]
  /\ dd_refcnt = [d \in Devices |-> 0]

Starting == InMain /\ main_pc = "init" /\ sphone_exit = 0 /\ step <= Len(Start(opt.app))
This == Start(opt.app)[step]
exitVars == <<Err_handler, frames, main_pc, sphone_exit, proc, calls>>

-----------------------------------------------------------------------------
(* The audio device *)

DeviceOf(o) == IF o = "pa" THEN opt.play ELSE opt.record

\* Mutant: a device that is listed is not counted again.
audio_devaudio_initUncounted(o) ==
  /\ held' = [held EXCEPT ![o] = {DeviceOf(o)}]
  /\ dd_refcnt' = [dd_refcnt EXCEPT ![DeviceOf(o)] = 1]

\* "Init only once": the device is found in the list or opened and listed.
audio_devaudio_init(o) ==
  /\ held' = [held EXCEPT ![o] = {DeviceOf(o)}]
  /\ dd_refcnt' = [dd_refcnt EXCEPT ![DeviceOf(o)] = @ + 1]

\* A failure after the device was listed (devaudio_unmute, AUDIO_SETFD) leaves
\* it there; one before does not.
InitFails(o) ==
  /\ dd_refcnt[DeviceOf(o)] = 0
  /\ dd_refcnt' \in {dd_refcnt, [dd_refcnt EXCEPT ![DeviceOf(o)] = 1]}
  /\ UNCHANGED held

\* The player maps the buffer of a device with shared memory, when it has it.
MmapFails(o) == o = "pa" /\ audio_devaudio_init(o)

\* audio_devaudio_exit for all objects in os that hold a device.
audio_devaudio_exit(os) ==
  dd_refcnt' = [d \in Devices |->
                  dd_refcnt[d] - Cardinality({o \in os \cap DOMAIN held : d \in held[o]})]

-----------------------------------------------------------------------------
(* main(), until the event loop *)

\* Two new sockets, whatever the fields named before.
inet_init(rtp) ==
  sock' = [sock EXCEPT ![rtp] = IF rtp = "rtp_r" THEN {"rtp_r.rtp_s", "rtp_r.rtcp_s"}
                                ELSE {"rtp_s.rtp_s", "rtp_s.rtcp_s"}]

StepDone ==
  /\ Starting
  /\ This.op # "register"
  /\ step' = step + 1
  /\ attached' = IF This.op = "attach"
                 THEN [attached EXCEPT ![This.s] = @ \cup {This.o}] ELSE attached
  /\ IF This.op = "open" /\ opt.audio = "devaudio"
     THEN audio_devaudio_init(This.o) ELSE UNCHANGED <<held, dd_refcnt>>
  /\ CASE This.op = "sockets" -> inet_init(This.o)
       [] This.op = "memcpy" -> sock' = [sock EXCEPT ![This.s] = sock[This.o]]
       [] OTHER -> UNCHANGED sock
  /\ UNCHANGED <<exitVars, opt, released>>

\* rcv_session_new and send_session_new call exit_register.
SessionNew ==
  /\ Starting
  /\ This.op = "register" /\ Link(This.s)
  /\ step' = step + 1
  /\ UNCHANGED <<opt, attached, released, sock, held, dd_refcnt>>

\* sphone_error, and exit(0) in main() when it returns.
StepFails ==
  /\ Starting
  /\ This.op \notin {"attach", "memcpy"} /\ This.o \notin Silent
  /\ sphone_verror
  /\ IF This.op = "open" /\ opt.audio = "devaudio"
     THEN InitFails(This.o) \/ MmapFails(This.o) ELSE UNCHANGED <<held, dd_refcnt>>
  /\ IF This.op = "sockets" THEN inet_init(This.o) \/ UNCHANGED sock ELSE UNCHANGED sock
  /\ UNCHANGED <<opt, step, attached, released>>

StepFailsSilently ==
  /\ Starting
  /\ This.o \in Silent
  /\ exit0
  /\ UNCHANGED <<Err_handler, main_pc, phoneVars>>

\* All is started, or a step has failed.  A failing ra_open stores into the
\* recorder that the exit functions have freed.
LeaveStart ==
  /\ step > Len(Start(opt.app)) \/ sphone_exit > 0
  /\ \/ StartLoop
     \/ /\ InMain /\ main_pc = "init" /\ sphone_exit > 0
        /\ opt.audio = "devaudio" /\ This.op = "open" /\ released[This.o] > 0
        /\ proc' = "crashed"
        /\ UNCHANGED <<Err_handler, frames, main_pc, sphone_exit, calls>>
  /\ UNCHANGED phoneVars

-----------------------------------------------------------------------------
(* The exit functions *)

\* rtp_session_exit closes the sockets of an RTP session, too.
Freed(o) == {o} \cup (IF o \in DOMAIN sock THEN sock[o] ELSE {})

\* rcv_session_exit, send_session_exit: what the fields point to is freed and
\* the fields are reset, then the session itself is freed.
Release(s) ==
  /\ released' = [o \in Objects |->
                    released[o] + Cardinality({x \in attached[s] \cup {s} : o \in Freed(x)})]
  /\ attached' = [attached EXCEPT ![s] = {}]
  /\ audio_devaudio_exit(attached[s])

CallExitFunction ==
  /\ CallHandler
  /\ LET eh == Err_handler[frames[1].eh]
     IN  IF eh.eh_fn THEN Release(eh.eh_mod)
         ELSE UNCHANGED <<released, attached, dd_refcnt>>
  /\ UNCHANGED <<opt, step, sock, held>>

RunStep ==
  /\ \/ SetFunction \/ Callback \/ MainReturns \/ EndWalk
     \/ \E rc \in {0, -1} : Return(rc)
     \/ main_pc = "callback" /\ sphone_verror
     \/ \E sig \in Signals : sphone_signal_exit(sig)
  /\ UNCHANGED phoneVars

PhoneNext ==
  \/ StepDone \/ SessionNew \/ StepFails \/ StepFailsSilently \/ LeaveStart
  \/ CallExitFunction \/ RunStep

\* The process is scheduled and its callbacks return.
PhoneSpec ==
  /\ PhoneInit /\ [][PhoneNext]_allVars
  /\ WF_allVars(\/ LeaveStart \/ CallExitFunction
                \/ /\ \/ SetFunction \/ MainReturns \/ EndWalk
                      \/ \E rc \in {0, -1} : Return(rc)
                   /\ UNCHANGED phoneVars)

-----------------------------------------------------------------------------
(* Properties *)

(* The comment above rcv_session_exit fears that a structure is freed by   *)
(* two exit functions: no object of the sessions is, nor is a socket       *)
(* closed twice (phone copies one RTP session to the other), whichever     *)
(* step failed and whenever a signal came.                                 *)
ReleasedOnce == \A o \in Objects : released[o] <= 1

(* A device that player and recorder share stays open as long as one of    *)
(* them is attached and uses it, and is closed when the exit functions of  *)
(* phone or rcv are done (send attaches its recorder to no session).       *)
DeviceShared ==
  /\ \A d \in Devices :
       Cardinality({o \in DOMAIN held : d \in held[o] /\ released[o] = 0}) <= dd_refcnt[d]
  /\ (/\ opt.app # "send" /\ step > Len(Start(opt.app))
      /\ \A s \in Registered : calls[s] > 0)
     => \A d \in Devices : dd_refcnt[d] = 0
=============================================================================
