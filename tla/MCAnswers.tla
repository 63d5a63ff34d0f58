------------------------------ MODULE MCAnswers ------------------------------
\* The small image, and the same without the file that has a missing block: one of
\* which the theorems about commands speak.
EXTENDS ProgramsAnswers

PlainEntries == SelectSeq(ImageEntries, LAMBDA e : e.name # <<"t">>)

Plain == INSTANCE ProgramsAnswers WITH Entries <- PlainEntries

ASSUME PlainImageAssumption == Plain!PlainImage /\ Plain!PlainInput /\ Plain!Searchable
=============================================================================
