---------------------------- MODULE Credentials -----------------------------
(* Secrets kept by systemd: send-to-influx-set-credential                    *)
(* (src/toinflux/credential_cli.py), and what the service makes of them when *)
(* it starts (src/toinflux/credentials.py, load_settings of general.py).     *)
(*                                                                           *)
(* Three files and what systemd read of one of them must agree on a secret:  *)
(* the encrypted file, the drop-in with a LoadCredentialEncrypted line for   *)
(* it, and its field in settings.yaml.  A command changes them one by one,   *)
(* each atomically, and can fail or be killed between any two; the service   *)
(* can be started by systemd at any moment.  One command runs at a time:     *)
(* nothing in the code guards against two.                                   *)
(*                                                                           *)
(* A secret is a model value.  What the tool refuses before it touches       *)
(* anything (an empty value, the placeholder, several lines, no              *)
(* systemd-creds) is a command that never began.                             *)
EXTENDS Naturals

CONSTANTS
  Static,       \* names of CREDENTIAL_FIELDS: influx-token, hue-user, ...
  Slots,        \* numbered bridges: hue-user2, hue-user3, ...
  Sections,     \* the names with a field in each section of settings.yaml
  Secrets,      \* values a user enters
  MaxCommands   \* bound: commands in one behaviour

VARIABLES
  field,        \* what settings.yaml holds for a name
  store,        \* the files <name>.cred: a secret for each name that has one
  dropin,       \* names the drop-in on disk has a line for
  loaded,       \* the same, as systemd last read it
  late,         \* a daemon-reload failed since the last one that worked
  command,      \* the running command: kind, name, the value asked for, step
  commands,     \* number of commands begun
  given         \* what the user may expect the service to use for a name

credentialVars == <<field, store, dropin, loaded, late, command, commands, given>>

Names == Static \cup Slots

ASSUME SectionsAssumption == Sections \subseteq SUBSET Names

\* What a field holds that is no secret: the text of example_settings.yaml,
\* "<stored in systemd-creds ...>", nothing at all; and what the service
\* makes of the second when no credential replaced it.
Placeholder == "placeholder"
Sentinel == "sentinel"
Absent == "absent"
Blank == "blank"

\* The plausible bug: settings.yaml is reverted last, when the secret is gone.
StepsFieldLast ==
  [set |-> <<"encrypt", "dropin", "reload", "field">>,
   remove |-> <<"dropin", "reload", "delete", "field">>]

Steps ==
  [set |-> <<"encrypt", "dropin", "reload", "field">>,
   remove |-> <<"field", "dropin", "reload", "delete">>]
NoCommand == [kind |-> "none", name |-> "none", value |-> Placeholder, step |-> 0]

CredentialInit ==
  /\ field \in [Names -> (Secrets \cup {Placeholder, Absent}) \ {Sentinel}]
  /\ store = [n \in {} |-> Placeholder]
  /\ dropin = {}
  /\ loaded = {}
  /\ late = FALSE
  /\ command = NoCommand
  /\ commands = 0
  /\ given = [n \in Names |-> {field[n]}]

\* set asks for a secret, remove for the placeholder.
BeginsCommand(kind, n, v) ==
  /\ command = NoCommand /\ commands < MaxCommands
  /\ command' = [kind |-> kind, name |-> n, value |-> v, step |-> 1]
  /\ commands' = commands + 1
  /\ UNCHANGED <<field, store, dropin, loaded, late, given>>

At(step) == command # NoCommand /\ Steps[command.kind][command.step] = step

\* The step is done.  A command that has done its last is what the user goes
\* by; until then the service may use the old value or the new one.
Advances ==
  IF command.step = 4
    THEN /\ command' = NoCommand
         /\ given' = [given EXCEPT ![command.name] = {command.value}]
    ELSE /\ command' = [command EXCEPT !.step = @ + 1]
         /\ given' = [given EXCEPT ![command.name] = @ \cup {command.value}]

\* The command fails, or is killed, before the step changed anything.
Stops ==
  /\ command # NoCommand
  /\ command' = NoCommand
  /\ UNCHANGED <<field, store, dropin, loaded, late, commands, given>>

\* systemd-creds writes the file, over an older one.
WritesFile ==
  store' = [n \in DOMAIN store \cup {command.name} |->
              IF n = command.name THEN command.value ELSE store[n]]

Encrypts ==
  /\ At("encrypt")
  /\ WritesFile
  /\ Advances
  /\ UNCHANGED <<field, dropin, loaded, late, commands>>

\* chmod of the new file fails: it stays.
EncryptsUnsecured ==
  /\ At("encrypt")
  /\ WritesFile
  /\ command' = NoCommand
  /\ given' = [given EXCEPT ![command.name] = @ \cup {command.value}]
  /\ UNCHANGED <<field, dropin, loaded, late, commands>>

\* A line for each of CREDENTIAL_FIELDS whose file exists, however it came
\* there; none for a slot.
Listed(exclude) == (Static \ exclude) \cap DOMAIN store

\* set leaves nothing out; remove leaves out the name it removes.
Excluded == IF command.kind = "remove" THEN {command.name} ELSE {}

RegenerateDropin ==
  /\ At("dropin")
  /\ dropin' = Listed(Excluded)
  /\ Advances
  /\ UNCHANGED <<field, store, loaded, late, commands>>

ReloadSystemd ==
  /\ At("reload")
  /\ loaded' = dropin /\ late' = FALSE
  /\ Advances
  /\ UNCHANGED <<field, store, dropin, commands>>

\* "takes effect later": a warning, and the command goes on.
ReloadFails ==
  /\ At("reload")
  /\ late' = TRUE
  /\ Advances
  /\ UNCHANGED <<field, store, dropin, loaded, commands>>

\* A field that is missing is created for a slot and refused for the others.
\* What else is refused, a flow-style section say, is Stops.
RewriteSettingsField ==
  /\ At("field")
  /\ field[command.name] # Absent \/ command.name \in Slots
  /\ field' = [field EXCEPT ![command.name] =
                 IF command.kind = "set" THEN Sentinel ELSE Placeholder]
  /\ Advances
  /\ UNCHANGED <<store, dropin, loaded, late, commands>>

Deletes ==
  /\ At("delete")
  /\ store' = [n \in DOMAIN store \ {command.name} |-> store[n]]
  /\ Advances
  /\ UNCHANGED <<field, dropin, loaded, late, commands>>

\* A section the settings lack is copied from the example, whole; the example
\* has no slots.  A stored credential goes on being what counts.
EnsuresSection(section) ==
  /\ command = NoCommand /\ commands < MaxCommands
  /\ \A n \in section : field[n] = Absent
  /\ LET copied == section \cap Static
     IN /\ field' = [n \in Names |-> IF n \in copied THEN Placeholder ELSE field[n]]
        /\ given' = [n \in Names |-> IF n \in copied THEN given[n] \cup {Placeholder} ELSE given[n]]
  /\ commands' = commands + 1
  /\ UNCHANGED <<store, dropin, loaded, late, command>>

\* A boot, which no command survives: systemd reads the drop-in anew.
Boots ==
  /\ loaded' = dropin /\ late' = FALSE
  /\ command' = NoCommand
  /\ UNCHANGED <<field, store, dropin, commands, given>>

CredentialNext ==
  \/ \E n \in Names, v \in Secrets : BeginsCommand("set", n, v)
  \/ \E n \in Names : BeginsCommand("remove", n, Placeholder)
  \/ \E section \in Sections : EnsuresSection(section)
  \/ Stops
  \/ Encrypts
  \/ EncryptsUnsecured
  \/ RegenerateDropin
  \/ ReloadSystemd
  \/ ReloadFails
  \/ RewriteSettingsField
  \/ Deletes
  \/ Boots

CredentialSpec == CredentialInit /\ [][CredentialNext]_credentialVars

-----------------------------------------------------------------------------
(* What load_settings makes of a name in a service started with the lines:   *)
(* the credential systemd put in $CREDENTIALS_DIRECTORY, or else the field,  *)
(* blanked when it holds the sentinel.                                       *)
Loaded(n, lines) ==
  IF n \in lines THEN store[n]
  ELSE IF field[n] = Sentinel THEN Blank
  ELSE field[n]

\* systemd does not start a unit with a line for a file that is missing, and
\* the service refuses or misuses a secret it does not find.
Starts(lines) ==
  \A n \in Static :
    /\ n \in lines => n \in DOMAIN store
    /\ Loaded(n, lines) \in given[n]

(* A service started at any moment, in the middle of a command and after one *)
(* that failed or was killed anywhere, starts with the secrets the user      *)
(* gave: the new one or the old one while a command is not done, the new one *)
(* once it is.  Started by the drop-in as systemd has it, unless a           *)
(* daemon-reload failed; and always by the drop-in on disk, as after a boot. *)
(* It covers the static names: a slot's file gets no line in the drop-in.    *)
(* (_cmd_set, _cmd_remove: "Order matters, in two different ways".)          *)
ServiceStarts == Starts(dropin) /\ (~late => Starts(loaded))
=============================================================================
