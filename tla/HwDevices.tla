----------------------------- MODULE HwDevices -----------------------------
(* Hardware decoding in ez-ffmpeg: the list of devices of the process      *)
(* (core/hwaccel.rs), which all jobs share, and the device and the pixel   *)
(* format a decoder gets (hw_device_setup_for_decode, get_format_callback  *)
(* in core/scheduler/dec_task.rs). Each use of the list takes its lock     *)
(* anew, so that decoders of other jobs come in between.                   *)
EXTENDS Naturals, SequencesExt, FiniteSets

CONSTANTS
  Decoders,    \* decoders being set up, of several jobs
  Accels,      \* what is asked for: [accel, device]; device NoName: none
  Configs,     \* avcodec_get_hw_config of a codec: sequences of [type, fmt, ctx]
  FormatLists, \* the formats a decoder offers: sequences; "sw" is a software format
  Devices,     \* lists of devices there may be to begin with
  Working      \* the types of which devices can be made

HwNames == STRING \X Nat
ASSUME HwAssumption ==
  /\ Accels \subseteq [accel : STRING, device : HwNames]
  /\ Configs \subseteq Seq([type : STRING, fmt : STRING, ctx : BOOLEAN])
  /\ FormatLists \subseteq Seq(STRING)
  /\ Devices \subseteq Seq([name : HwNames, type : STRING])
  /\ Working \subseteq STRING \ {"none"}

VARIABLES hw_devices, dec

IndexLimit == 10  \* on the names of devices of a type; 1000 in the code
NoType == "none"
NoName == <<"", 0>>
NoDevice == [name |-> NoName, type |-> NoType]

(* find_hwaccel: the id and the type *)
find_hwaccel(accel) ==
  CASE accel = "none" -> [id |-> "none", type |-> NoType]
    [] accel = "auto" -> [id |-> "auto", type |-> NoType]
    [] accel \in {"nvdec", "cuvid"} -> [id |-> "generic", type |-> "cuda"]
    [] OTHER -> [id |-> "generic", type |-> accel]

NewDecoder(a, c) == [pc |-> "start", ask |-> a, configs |-> c, id |-> find_hwaccel(a.accel).id,
                     type |-> find_hwaccel(a.accel).type, dev |-> NoDevice, try |-> 1, name |-> NoName,
                     fmt |-> ""]
NewDevices == Devices
NewHwDecoders == [Decoders -> {NewDecoder(a, c) : a \in Accels, c \in Configs}]
HwInit == hw_devices \in NewDevices /\ dec \in NewHwDecoders

by_name(name) == {d \in Range(hw_devices) : d.name = name}
hw_device_get_by_name(name) == IF by_name(name) = {} THEN NoDevice
                               ELSE hw_devices[SelectInSeq(hw_devices, LAMBDA d : d.name = name)]
(* hw_device_get_by_type: none, if there are several *)
hw_device_get_by_type(t) ==
  LET k == SelectInSeq(hw_devices, LAMBDA d : d.type = t)
  IN  IF Cardinality({i \in DOMAIN hw_devices : hw_devices[i].type = t}) = 1 THEN hw_devices[k] ELSE NoDevice
hw_device_match_by_codec(configs) ==
  LET k == SelectInSeq(configs, LAMBDA c : c.ctx /\ hw_device_get_by_type(c.type) # NoDevice)
  IN  IF k = 0 THEN NoDevice ELSE hw_device_get_by_type(configs[k].type)

To(i, d) == dec' = [dec EXCEPT ![i] = d]
Attached(d, dev) == [d EXCEPT !.dev = dev, !.pc = "open"]

\* A mutant: a device found by name is taken whatever its type.
SetupAnyType(i) ==
  LET d == dec[i]
      named == hw_device_get_by_name(d.ask.device)
  IN  /\ d.pc = "start" /\ UNCHANGED hw_devices
      /\ IF d.ask.device # NoName /\ named # NoDevice THEN To(i, Attached(d, named))
         ELSE IF d.id = "auto" THEN To(i, [d EXCEPT !.pc = IF d.configs = <<>> THEN "open" ELSE "auto"])
         ELSE IF d.id = "generic" THEN To(i, [d EXCEPT !.pc = "create"])
         ELSE To(i, [d EXCEPT !.pc = "open"])

(* hw_device_setup_for_decode up to the creation of a device *)
Setup(i) ==
  LET d == dec[i]
      named == hw_device_get_by_name(d.ask.device)
      same == hw_device_get_by_type(d.type)
      matched == hw_device_match_by_codec(d.configs)
  IN  /\ d.pc = "start" /\ UNCHANGED hw_devices
      /\ IF d.ask.device # NoName /\ named # NoDevice THEN
           IF d.id = "auto" THEN To(i, Attached([d EXCEPT !.type = named.type], named))
           ELSE IF d.type # named.type THEN To(i, [d EXCEPT !.pc = "error"])
           ELSE To(i, Attached(d, named))
         ELSE IF d.id = "auto" THEN To(i, [d EXCEPT !.pc = IF d.configs = <<>> THEN "open" ELSE "auto"])
         ELSE IF d.id = "generic" THEN
           IF d.ask.device = NoName /\ same # NoDevice THEN To(i, Attached(d, same))
           ELSE To(i, [d EXCEPT !.pc = "create"])
         ELSE To(i, Attached(d, IF d.ask.device # NoName THEN NoDevice ELSE matched))

(* The first loop of the automatic choice looks for a device there is; the *)
(* second makes one of the first type it can whatever the first has found. *)
AutoTry(i) ==
  LET d == dec[i]
  IN  /\ d.pc = "auto" /\ UNCHANGED hw_devices
      /\ To(i, IF d.try > Len(d.configs) THEN [d EXCEPT !.id = "none", !.pc = "open"]
               ELSE IF d.configs[d.try].type \in Working THEN [d EXCEPT !.type = d.configs[d.try].type, !.pc = "create"]
               ELSE [d EXCEPT !.try = @ + 1])

(* hw_device_init_from_type: the default name is looked for under one lock *)
(* and the device is added under another.                                  *)
DefaultName(i) ==
  LET d == dec[i]
      free == {n \in 0 .. IndexLimit - 1 : by_name(<<d.type, n>>) = {}}
  IN  /\ d.pc = "create" /\ UNCHANGED hw_devices
      /\ To(i, IF d.type \notin Working \/ free = {}
                 THEN IF d.id = "auto" THEN [d EXCEPT !.try = @ + 1, !.pc = "auto"] ELSE [d EXCEPT !.pc = "error"]
               ELSE [d EXCEPT !.name = <<d.type, Min(free)>>, !.pc = "add"])
AddDevice(i) ==
  LET d == dec[i]
      new == [name |-> d.name, type |-> d.type]
  IN  d.pc = "add" /\ hw_devices' = Append(hw_devices, new) /\ To(i, Attached(d, new))

(* get_format_callback: the first software format, or one of the decoder's *)
(* type before it                                                          *)
get_format_callback(d, offers) ==
  LET ConfigOf(f) == SelectInSeq(d.configs, LAMBDA c : c.ctx /\ c.fmt = f)
      Takes(f) == f = "sw" \/ (d.id # "none" /\ ConfigOf(f) # 0 /\ d.configs[ConfigOf(f)].type = d.type)
      k == SelectInSeq(offers, Takes)
  IN  IF k = 0 THEN "none" ELSE offers[k]

OpenDecoder(i, offers) ==
  /\ dec[i].pc = "open" /\ UNCHANGED hw_devices
  /\ To(i, [dec[i] EXCEPT !.fmt = get_format_callback(dec[i], offers), !.pc = "done"])

HwNext == \E i \in Decoders : \/ Setup(i) \/ AutoTry(i) \/ DefaultName(i) \/ AddDevice(i)
                              \/ \E f \in FormatLists : OpenDecoder(i, f)
HwSpec == HwInit /\ [][HwNext]_<<hw_devices, dec>>

-----------------------------------------------------------------------------
(* A decoder that decodes to a hardware format was given a device of the   *)
(* type that the format needs, whatever other jobs did to the list; if it  *)
(* was given a device by its hwaccel, that device has its type.            *)
DeviceFits ==
  \A i \in Decoders : LET d == dec[i] IN d.pc \in {"open", "done"} =>
    /\ d.id # "none" /\ d.dev # NoDevice => d.dev.type = d.type
    /\ d.fmt \notin {"", "sw", "none"} =>
         d.dev # NoDevice /\ \E c \in Range(d.configs) : c.fmt = d.fmt /\ c.type = d.dev.type
=============================================================================
