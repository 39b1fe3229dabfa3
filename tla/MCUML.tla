-------------------------------- MODULE MCUML --------------------------------
(* Small instances of UML: two files of two lines. *)
EXTENDS UML

CONSTANTS file1, file2

(* A line with several counts in several records of its file, and a report *)
(* on another file.                                                        *)
Twice      ==
  <<SF(file1), DA(1, 0), DA(1, 2), EndRecord, SF(file1), DA(2, 1), DA(1, 1), EndRecord>>
Other      == <<SF(file2), DA(1, 1), EndRecord>>
TwoReports == {Twice, Other}
OneReport  == {Other}
=============================================================================
