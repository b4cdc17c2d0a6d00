------------------------------- MODULE MCSeeder -------------------------------
\* Model checking of Seeder.
EXTENDS Seeder
=============================================================================
