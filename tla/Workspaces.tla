----------------------------- MODULE Workspaces -----------------------------
(***************************************************************************)
(* The saved workspaces of the viewer (workspaces.ts): what localStorage   *)
(* holds and what saving and deleting make of it.  Of the settings of a    *)
(* workspace the model keeps its list of blocked sources.                  *)
(***************************************************************************)
EXTENDS Naturals, FiniteSets

CONSTANTS Names,   \* the names users give, spaces trimmed
          Key(_)   \* the lower case of a name

(* Variant: names are compared as they are written.                        *)
IsExactly(workspace, name) == workspace.name = name

IsNamed(workspace, name) == Key(workspace.name) = Key(name)

Named(workspaces, name) == {w \in workspaces : IsNamed(w, name)}

(* saveWorkspace: a new name must not exist, one to replace must; the one  *)
(* that is replaced keeps the way its name is written.                     *)
SaveFails(workspaces, name, replace) == (Named(workspaces, name) # {}) # replace

Saved(workspaces, name, preferences) ==
  IF Named(workspaces, name) = {}
  THEN workspaces \cup {[name |-> name, preferences |-> preferences]}
  ELSE {IF IsNamed(w, name) THEN [w EXCEPT !.preferences = preferences] ELSE w : w \in workspaces}

Deleted(workspaces, name) == {w \in workspaces : w.name # name}
=============================================================================
