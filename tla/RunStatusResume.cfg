CONSTANTS
 t1 = t1
 t2 = t2
 old = old
 c1 = c1
 c2 = c2
 c3 = c3
 c4 = c4
 r1 = r1
 r2 = r2
 Tasks = {t1, t2}
 Expected = 2
 LegacyIds = {old}
 OldRun <- MCOldRun
 OldRows <- MCOldRows
 Recipes = {r1, r2}
 RecipeOf <- MCRecipeOf
 NoConfig = NoConfig
 Configs = {c1, c2, c3}
 NumDrivers = 2
 Parts = {"Status"}
 Procs = {1, 2, 3}
 Nobody = 0
 MaxFailures = 2
 MaxTroubles = 1
SYMMETRY MCSymmetry
CHECK_DEADLOCK FALSE
SPECIFICATION MCSpec
PROPERTIES SkippedIsDoneOrAlive
