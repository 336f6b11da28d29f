------------------------------ MODULE MCHdbResult ------------------------------
(* Model values for HdbResult: small tables around its limits.             *)
EXTENDS HdbResult

Null       == [kind |-> "null"]
Text(text) == [kind |-> "text", text |-> text]
Moment(ms) == [kind |-> "moment", ms |-> ms]

Id   == <<21>>
Name == <<22>>
Time == <<23, 24>>

Table(names, types, rows) == [names |-> names, types |-> types, rows |-> rows]

(* Texts that are empty, at and over the limit of a cell.                  *)
Texts == {<<>>, <<31>>, <<31, 32, 33, 34, 35>>, <<31, 32, 33, 34, 35, 36>>}

People ==
  {Table(<<Id, Name>>, <<HDB_FT_INT32, HDB_FT_CHAR_ARRAY>>,
         <<<<Text(<<1>>), Text(text)>>, <<Text(<<2, 0>>), Null>>, <<Text(<<9, 9>>), Text(<<32>>)>>,
           <<Null, Text(text)>>>>) : text \in Texts}

Events(moments) ==
  {Table(<<Time, Id>>, <<HDB_FT_TIMESTAMP_MS, HDB_FT_INT64>>,
         <<<<Moment(ms), Text(<<9, 9>>)>>, <<Null, Null>>, <<Text(<<3>>), Text(<<7>>)>>>>) :
     ms \in moments}

(* A text where the dataset declares a time; two columns of one name; too  *)
(* many columns; a name too long for a cell; rows that just fit and just   *)
(* do not fit into a body.                                                 *)
Odd ==
  {Table(<<Time>>, <<HDB_FT_TIMESTAMP_MS>>, <<<<Text(<<31>>)>>>>),
   Table(<<Name, Name>>, <<HDB_FT_CHAR_ARRAY, HDB_FT_INT32>>, <<<<Text(<<31>>), Text(<<2>>)>>>>),
   Table(<<Id, Name, Time, <<25>>>>, <<HDB_FT_INT32, HDB_FT_INT32, HDB_FT_INT32, HDB_FT_INT32>>, <<>>),
   Table(<<<<41, 42, 43, 44, 45, 46>>>>, <<HDB_FT_INT32>>, <<>>)}
  \cup {Table(<<Id, Name, Time>>, <<HDB_FT_INT32, HDB_FT_CHAR_ARRAY, HDB_FT_CHAR_ARRAY>>,
              <<<<Text(<<1>>), Text(<<31, 32, 33, 34, 35>>), Text(a)>>,
                <<Text(<<2>>), Text(<<31, 32, 33, 34, 35>>), Text(<<31, 32, 33, 34, 35>>)>>>>) :
          a \in {<<31, 32>>, <<31, 32, 33>>, <<31, 32, 33, 34>>}}

(* A zone one second ahead: mktime's error code is the second before the   *)
(* epoch, whose local time is 0.                                           *)
Ahead == [second \in 0 .. 4 |-> second - 1]

(* PostgreSQL prints all digits of these fractions, or none.               *)
AllTables  == People \cup Events({5, 1000, 1005, 1999, 3000, 4007}) \cup Odd
HalfSecond == Events({2500})
=============================================================================
