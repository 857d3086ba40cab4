------------------------------- MODULE MCNotes -------------------------------
(* Instances of the Supernote pipeline. *)
EXTENDS NoteProcessor

CONSTANTS a, b

(* Which of the two paths is written first does not matter: it is a. *)
MCNext == NotesNext /\ (edits = 0 => file'[b] = None)

MCNotesSpec == NotesInit /\ [][MCNext]_notesVars /\ NotesFairness
=============================================================================
