----------------------------- MODULE SettingsPage -----------------------------
(***************************************************************************)
(* The settings (pages/Settings.tsx, useSettings.ts, storage.ts): each tab *)
(* of the browser has a copy of what local storage holds, and all requests *)
(* are deleted through a modal that wants a word typed                     *)
(* (ConfirmDeleteModal.tsx).  Storage may refuse to write.                 *)
(***************************************************************************)
EXTENDS Naturals, TLC

CONSTANTS Window, DeleteWord, Older, MaxInputs
\* Window: tabs of the browser; DeleteWord: what may be typed, "DELETE" among it;
\* Older: what versions with fewer settings left in local storage

DEFAULT_SETTINGS ==
  [autoRefreshEnabled |-> FALSE, autoRefreshInterval |-> 30, notifyOnError |-> TRUE,
   notifyOnHighLatency |-> FALSE, highLatencyThreshold |-> 5000, dataRetentionDays |-> 30]

(* What the controls offer; the number field takes what is typed, also what *)
(* is below its min or above its max, and 0 for an empty one.               *)
Offered ==
  [autoRefreshEnabled |-> BOOLEAN, autoRefreshInterval |-> {15, 30, 60, 300}, notifyOnError |-> BOOLEAN,
   notifyOnHighLatency |-> BOOLEAN, highLatencyThreshold |-> {0, 1000, 5000, 30000},
   dataRetentionDays |-> {7, 14, 30, 90, 0}]
Setting == DOMAIN DEFAULT_SETTINGS

ASSUME SettingsAssumption ==
  /\ {"", "DELETE"} \subseteq DeleteWord /\ MaxInputs \in Nat
  /\ \A o \in Older : DOMAIN o \subseteq Setting /\ \A k \in DOMAIN o : o[k] \in Offered[k]

VARIABLES storedSettings,                                  \* local storage: the settings written last, if any
          settings,                                \* each window's copy
          settingsRequests,                        \* the server's requests are there
          showDeleteModal, confirmText, isDeleting, \* of the first window
          typed,                                   \* history: what was typed since the modal opened
          inputs

modal == <<settingsRequests, showDeleteModal, confirmText, isDeleting, typed>>
settingsVars == <<storedSettings, settings, modal, inputs>>

(* getSettings: the defaults, overridden by what is stored. *)
Settings(s) == [k \in (DOMAIN s) \union Setting |-> IF k \in DOMAIN s THEN s[k] ELSE DEFAULT_SETTINGS[k]]

SettingsInit ==
  /\ storedSettings \in Older \union {<<>>}
  /\ settings = [w \in Window |-> Settings(storedSettings)]
  /\ settingsRequests = TRUE
  /\ showDeleteModal = FALSE /\ confirmText = "" /\ isDeleting = FALSE /\ typed = "" /\ inputs = 0

-----------------------------------------------------------------------------
(* Two of the controls are disabled while what they depend on is off. *)
Enabled(w, k) ==
  /\ k = "autoRefreshInterval" => settings[w].autoRefreshEnabled
  /\ k = "highLatencyThreshold" => settings[w].notifyOnHighLatency

(* saveSettings of all settings, not of what was updated: the merge with   *)
(* what is stored overrides all of it.                                      *)
updateSettings(w, k, v) ==
  /\ Enabled(w, k)
  /\ settings' = [settings EXCEPT ![w][k] = v]
  /\ storedSettings' \in {settings'[w], storedSettings}
  /\ UNCHANGED modal

resetSettings(w) ==
  /\ storedSettings' = <<>>
  /\ settings' = [settings EXCEPT ![w] = Settings(storedSettings')]
  /\ UNCHANGED modal

ReloadSettings(w) ==
  /\ settings' = [settings EXCEPT ![w] = Settings(storedSettings)]
  /\ UNCHANGED <<storedSettings, modal>>

-----------------------------------------------------------------------------
OpenModal ==
  /\ ~showDeleteModal /\ showDeleteModal' = TRUE /\ typed' = ""
  /\ UNCHANGED <<storedSettings, settings, settingsRequests, confirmText, isDeleting>>

TypeWord(w) ==
  /\ showDeleteModal /\ ~isDeleting /\ w # confirmText
  /\ confirmText' = w /\ typed' = w
  /\ UNCHANGED <<storedSettings, settings, settingsRequests, showDeleteModal, isDeleting>>

(* Cancel or the backdrop; not while deleting. *)
handleClose ==
  /\ showDeleteModal /\ ~isDeleting
  /\ confirmText' = "" /\ showDeleteModal' = FALSE
  /\ UNCHANGED <<storedSettings, settings, settingsRequests, isDeleting, typed>>

handleConfirm ==
  /\ showDeleteModal /\ confirmText = "DELETE" /\ ~isDeleting
  /\ isDeleting' = TRUE
  /\ UNCHANGED <<storedSettings, settings, settingsRequests, showDeleteModal, confirmText, typed>>

(* Faulty variant: the text stays for next time. *)
TextAfterDelete == confirmText

(* setConfirmText(''), before the modal closes. *)
TextAfter == ""

(* clearAllRequests is answered, also by a refusal, which nobody looks at;  *)
(* or the call fails, and the modal stays.                                  *)
Deleted(done) ==
  /\ isDeleting /\ isDeleting' = FALSE
  /\ settingsRequests' = (settingsRequests /\ ~done)
  /\ confirmText' = TextAfter /\ showDeleteModal' = FALSE
  /\ UNCHANGED <<storedSettings, settings, typed>>

DeleteFails ==
  /\ isDeleting /\ isDeleting' = FALSE
  /\ UNCHANGED <<storedSettings, settings, settingsRequests, showDeleteModal, confirmText, typed>>

SettingsNext ==
  \/ /\ inputs < MaxInputs /\ inputs' = inputs + 1
     /\ \/ \E w \in Window, k \in Setting : \E v \in Offered[k] \ {settings[w][k]} : updateSettings(w, k, v)
        \/ \E w \in Window : resetSettings(w) \/ ReloadSettings(w)
  \/ /\ \/ OpenModal \/ handleClose \/ handleConfirm
        \/ \E w \in DeleteWord : TypeWord(w)
        \/ \E b \in BOOLEAN : Deleted(b)
        \/ DeleteFails
     /\ UNCHANGED inputs

SettingsSpec == SettingsInit /\ [][SettingsNext]_settingsVars

-----------------------------------------------------------------------------
(* Types of the variables: what is shown of a setting is what its control   *)
(* offers, also of settings stored before there were so many.               *)
SettingsTypeOK ==
  /\ \A w \in Window : DOMAIN settings[w] = Setting /\ \A k \in Setting : settings[w][k] \in Offered[k]
  /\ DOMAIN storedSettings \subseteq Setting
  /\ confirmText \in DeleteWord

(* Requests go only after "DELETE" was typed into the modal since it was    *)
(* opened: no confirmation is left over from an earlier deletion, finished, *)
(* failed or cancelled (ConfirmDeleteModal.tsx 21-40).                      *)
DeletionWasTyped == [][settingsRequests /\ ~settingsRequests' => typed = "DELETE"]_settingsVars
=============================================================================
