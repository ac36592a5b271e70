---------------------------- MODULE EditRegister ----------------------------
(***************************************************************************)
(* What a versioned configuration document promises its users: a history   *)
(* of documents in which each one keeps every edit of the one before it    *)
(* and adds one more.  A holder of a copy may be looking at any document   *)
(* of the past, because copies are cached, but only a holder whose copy is *)
(* the latest document may add to the history.                             *)
(***************************************************************************)
EXTENDS Naturals, Sequences

CONSTANTS Edit,    \* names of edits
          Holder   \* whoever keeps a copy: browsers, processes, the cache

VARIABLES history, \* the documents, oldest first; a document is a set of edits
          copy     \* copy[h]: position in history h last looked at, 0 for none

registerVars == <<history, copy>>

Latest == IF history = <<>> THEN {} ELSE history[Len(history)]

RegisterInit == /\ history = <<>>
                /\ copy = [h \in Holder |-> 0]

(* An edit made on the latest document is accepted. *)
Accept(h, e) == /\ copy[h] = Len(history)
                /\ e \notin Latest
                /\ history' = Append(history, Latest \cup {e})
                /\ copy' = copy

(* Copies are taken, dropped or replaced, not always by newer ones. *)
Look == /\ copy' \in [Holder -> 0..Len(history)]
        /\ history' = history

RegisterNext == Look \/ \E h \in Holder, e \in Edit : Accept(h, e)

RegisterSpec == RegisterInit /\ [][RegisterNext]_registerVars
=============================================================================
