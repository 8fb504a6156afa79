----------------------------- MODULE MCCourses -----------------------------
(***************************************************************************)
(* Contents for the courses of KulonCourses: sections whose titles carry    *)
(* no date, a date of the term or a foreign text, numbered with and without *)
(* a gap, and activities that are hidden or belong to no section.          *)
(***************************************************************************)
EXTENDS KulonCourses, TLC

S(number, title) == [number |-> number, title |-> title]
A(section, module, visible) == [section |-> section, module |-> module, visible |-> visible]

SmallContents ==
    {CourseContent(<<S(0, Plain), S(1, 1), S(2, 3)>>,
                   <<A(1, "resource", TRUE), A(2, "assign", FALSE), A(2, "url", TRUE)>>),
     CourseContent(<<S(0, 2), S(2, 2), S(3, Foreign)>>,
                   <<A(0, "url", FALSE), A(2, "quiz", TRUE), A(1, "url", TRUE)>>),
     CourseContent(<<S(0, Plain), S(1, Foreign)>>, <<>>)}
=============================================================================
