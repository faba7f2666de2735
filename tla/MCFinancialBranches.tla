-------------------------- MODULE MCFinancialBranches --------------------------
EXTENDS FinancialBranches

CONSTANTS margin, average, trend, signal

\* The signal depends on the generated margin and the trend, the trend on the average.
MCDependencies == [b \in Branch |->
    CASE b = trend -> {average} [] b = signal -> {margin, trend} [] OTHER -> {}]

=============================================================================
