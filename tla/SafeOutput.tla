------------------------------ MODULE SafeOutput ------------------------------
(***************************************************************************)
(* Output files and the render journal (safe_output.py), as operators on    *)
(* the disk they change: final files, the partial file a process writes     *)
(* beside each of them, and render.json.  AtomicOutput.for_path puts the    *)
(* process id into the partial's name, so a partial is known by its output  *)
(* and by the life of the program that wrote it; pids are not recycled.     *)
(***************************************************************************)
EXTENDS Naturals

CONSTANTS Outputs,  \* output files: positive numbers
          Lives     \* the successive processes of the program: likewise

ASSUME SafeOutputAssumption == Outputs \subseteq Nat \ {0} /\ Lives \subseteq Nat \ {0}

Contents == {"none", "draft", "whole"}          \* of a partial file
Finals   == {"previous", "delivered", "broken"} \* of a final file, for its latest run

(* A journal names its writer and, once the contract is known, the output    *)
NoJournal == [pid |-> 0, output |-> 0]
Journals  == [pid : Lives, output : Outputs \cup {0}] \cup {NoJournal}

Disks == [journal : Journals, partial : [Outputs \X Lives -> Contents],
          final : [Outputs -> Finals]]

EmptyDisk == [journal |-> NoJournal,
              partial |-> [f \in Outputs \X Lives |-> "none"],
              final   |-> [o \in Outputs |-> "previous"]]

WithPartial(d, f, content) == [d EXCEPT !.partial[f] = content]

-----------------------------------------------------------------------------
(* RenderJournal: claim (the owner only), write (the contract) and clear     *)
Claimed(d, l)   == [d EXCEPT !.journal = [pid |-> l, output |-> 0]]
Listed(d, o, l) == [d EXCEPT !.journal = [pid |-> l, output |-> o]]
Cleared(d)      == [d EXCEPT !.journal = NoJournal]

(* AtomicOutput: prepare and discard unlink the partial                      *)
Discarded(d, f) == WithPartial(d, f, "none")

(* commit: whatever the partial holds becomes the final file, in one step    *)
Committed(d, f) == [d EXCEPT
    !.partial[f]   = "none",
    !.final[f[1]]  = IF d.partial[f] = "whole" THEN "delivered" ELSE "broken"]

(* The partial a journal names, when it names one and it is there            *)
NamedBy(d)   == <<d.journal.output, d.journal.pid>>
Preserved(d) == d.journal.output # 0 /\ d.partial[NamedBy(d)] # "none"

(* Every partial is the one the journal names; no final is a bad file        *)
Referenced(d) == \A f \in Outputs \X Lives : d.partial[f] # "none" => f = NamedBy(d)
Sound(d)      == \A o \in Outputs : d.final[o] # "broken"
=============================================================================
