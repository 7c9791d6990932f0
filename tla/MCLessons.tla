----------------------------- MODULE MCLessons -----------------------------
\* The lessons as they are, with an int of four bits.
EXTENDS Lessons

MCThreads == [mutex |-> {"thread_1", "thread_2"},
              semaphore |-> {"thread_1", "thread_2", "thread_3"}]
MCResources == [mutex |-> 1, semaphore |-> 2]
MCvec1 == <<"vec1_1", "vec1_2", "vec1_3", "vec1_4">>
MCvec2 == <<"vec2_1", "vec2_2", "vec2_3", "vec2_4">>
=============================================================================
