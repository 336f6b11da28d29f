---------------------------- MODULE MCHdbModelCrud ----------------------------
(* Model values for HdbModelCrud: databases of one to three tables.        *)
EXTENDS HdbModelCrud

Column(name, type, size, pk) == [name |-> name, type |-> type, size |-> size, pk |-> pk]
Table(base, day, columns)    == [base |-> base, day |-> day, columns |-> columns]

Id   == Column("id", "bigint", 0, TRUE)
Kind == Column("kind", "bigint", 0, TRUE)
Name == Column("name", "varchar", 2, FALSE)
Time == Column("occur_time", "timestamp", 0, FALSE)
At   == Column("at", "timestamp", 0, FALSE)
Code == Column("code", "varchar", 2, TRUE)

(* One table: a composite key, a text beside it, a key that is a text, no  *)
(* key, nothing but a key, a type and a text that cannot be mapped; day    *)
(* tables that agree or differ, in order, number or key of their columns,  *)
(* or mix with a fixed table, or have no time; a further dataset.          *)
AllCatalogs ==
  {{Table(1, NoDay, columns)} :
     columns \in {<<Id, Kind, At>>, <<Id, Name>>, <<Code, At>>, <<Name>>, <<Id, Kind>>,
                  <<Id, Column("doc", "json", 0, FALSE)>>, <<Id, Column("name", "varchar", 0, FALSE)>>}}
  \cup {{Table(1, 7, <<Id, At, Time>>), Table(1, 8, columns)} :
          columns \in {<<Id, Time, At>>, <<Id, Time>>, <<Id, Column("at", "timestamp", 0, TRUE), Time>>}}
  \cup {{}, {Table(1, NoDay, <<Id, At>>), Table(1, 7, <<Id, At>>)}, {Table(1, 7, <<Id, Name>>)},
        {Table(2, 7, <<Id, At, Time>>), Table(2, 8, <<Id, At, Time>>), Table(1, NoDay, <<Id, At>>)}}

(* A zone ten seconds ahead whose clock skips two seconds, 12 and 13, and  *)
(* repeats one, 16; mktime moves a skipped second on, and gives up on the  *)
(* local time 9, whose second since the epoch is its error code.           *)
Local == [second \in 0 .. 5 |-> IF second < 2 THEN second + 10
                               ELSE IF second < 5 THEN second + 12 ELSE 16]
Known == [second \in 9 .. 16 |-> CASE second = 9       -> -1
                                 [] second \in 10 .. 13 -> second - 10
                                 [] second > 13        -> second - 12]

(* One byte, a full array, two characters that take more than the array.   *)
FewTexts == {<<1>>, <<1, 2>>, <<LEAD, TAIL, 1>>}

=============================================================================
