----------------------------- MODULE MCClipboard -----------------------------
(* Two devices whose users copy a note and a path.  On the second device   *)
(* the path names a file that exists there, so it is read back as that     *)
(* file, whose bytes go through the blob store.                            *)
EXTENDS Clipboard, TLC

CONSTANTS d1, d2, note, path, file

MCDevices == {d1, d2}
MCValues == {note, path, file}
MCCopied == {note, path}
MCOldTexts == {note}
MCBlob == {file}
MCReadAs == [d \in MCDevices |->
               [v \in MCValues |-> IF d = d2 /\ v = path THEN file ELSE v]]

=============================================================================
