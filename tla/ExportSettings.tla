---------------------------- MODULE ExportSettings ----------------------------
(***************************************************************************)
(* The settings of the Export buttons, one in every open result and table:    *)
(* each keeps a copy, and after every change writes it whole to localStorage, *)
(* where the next button to appear finds it.  Options are typed per format.   *)
(***************************************************************************)
EXTENDS Integers, Sequences, FiniteSets

CONSTANTS
  Buttons,   \* places a button may appear in
  Formats,   \* export formats; "csv" is the first to be offered
  Typed,     \* option texts a user may type
  MaxSteps   \* bound: changes and appearances

VARIABLES
  setting,   \* button -> its exportSetting, Absent when it is not mounted
  stored,    \* localStorage "export_settings", Absent at first
  last,      \* history: format -> the options last in force for it anywhere
  clash,     \* history: formats whose options were typed while another button was mounted
  steps

vars == <<setting, stored, last, clash, steps>>

Absent == [format |-> "none", options |-> "none", template |-> <<>>]
Default == "default"
Mounted == {b \in Buttons : setting[b] # Absent}

TemplateOr(template, f, other) == IF f \in DOMAIN template THEN template[f] ELSE other
With(template, f, o) == [g \in DOMAIN template \cup {f} |-> IF g = f THEN o ELSE template[g]]

\* saveSettingToStorage also completes the template of the settings it is given.
SaveSettingToStorage(b, s) ==
  LET full == [s EXCEPT !.template = With(@, s.format, s.options)]
  IN setting' = [setting EXCEPT ![b] = full] /\ stored' = full

GetSettingFromStorage ==
  IF stored = Absent THEN [format |-> "csv", options |-> Default, template |-> <<>>]
  ELSE [stored EXCEPT !.options = TemplateOr(stored.template, stored.format, Default)]

Mount(b) ==
  /\ b \notin Mounted
  /\ SaveSettingToStorage(b, GetSettingFromStorage)
  /\ UNCHANGED <<last, clash>>

Unmount(b) ==
  /\ b \in Mounted
  /\ setting' = [setting EXCEPT ![b] = Absent]
  /\ UNCHANGED <<stored, last, clash>>

\* Fault: a format that is chosen starts from its default options.
ChooseFormatAfresh(b, f) ==
  /\ b \in Mounted /\ setting[b].format # f
  /\ SaveSettingToStorage(b, [setting[b] EXCEPT !.format = f, !.options = Default])
  /\ UNCHANGED <<last, clash>>

ChooseFormat(b, f) ==
  /\ b \in Mounted /\ setting[b].format # f
  /\ SaveSettingToStorage(b, [setting[b] EXCEPT !.format = f,
                                                !.options = TemplateOr(setting[b].template, f, Default)])
  /\ UNCHANGED <<last, clash>>

\* The null text of any format, and the separators of "delimited".
TypeOptions(b, o) ==
  /\ b \in Mounted /\ setting[b].options # o
  /\ SaveSettingToStorage(b, [setting[b] EXCEPT !.options = o])
  /\ last' = [last EXCEPT ![setting[b].format] = o]
  /\ clash' = IF Mounted # {b} THEN clash \cup {setting[b].format} ELSE clash

Init ==
  /\ setting = [b \in Buttons |-> Absent] /\ stored = Absent
  /\ last = [f \in Formats |-> Default] /\ clash = {} /\ steps = 0

Next ==
  /\ steps < MaxSteps /\ steps' = steps + 1
  /\ \E b \in Buttons :
       \/ Mount(b) \/ Unmount(b)
       \/ \E f \in Formats : ChooseFormat(b, f)
       \/ \E o \in Typed : TypeOptions(b, o)

Spec == Init /\ [][Next]_vars

-----------------------------------------------------------------------------
(***************************************************************************)
(* Invariant.  A button that uses a format uses the options last typed for    *)
(* it, by whichever button and however long ago -- unless some were typed     *)
(* while another button was mounted, which writes its own copy back later.    *)
(***************************************************************************)
OptionsAreRemembered ==
  \A b \in Mounted : setting[b].format \notin clash => setting[b].options = last[setting[b].format]
=============================================================================
